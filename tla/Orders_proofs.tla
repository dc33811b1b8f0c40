---------------------------- MODULE Orders_proofs ----------------------------
(***************************************************************************)
(* Proofs about the order panel and what it works on.                      *)
(*                                                                         *)
(* The first part is about the items of an order and their waybills, for   *)
(* any items, configurations and statuses the panel sets, and any number   *)
(* of submissions, waybills at a time, documents and edits.  The second is *)
(* about the panel's pages, roles and passwords, for any number of people, *)
(* staff, handlers and reset links, and any number of grants.              *)
(***************************************************************************)
EXTENDS OrderItems, OrderPanel, TLAPS

(***************************************************************************)
(*                          The items of an order                          *)
(***************************************************************************)

JobRecord == [pc: {"idle", "fetch", "recipient", "document", "record"},
              item: Items \cup {NoItem}, config: Configs \cup {NoConfig},
              doc: Numbers \cup {NoDoc}]
SubmitRecord == [pc: {"idle", "write"}, item: Items \cup {NoItem}, stale: BOOLEAN]

Settled == {"shipped", "fulfilled", "cancelled"}

\* A job has its item until it ends, and its document once that is made.
JobOK(j) ==
    /\ job[j].pc = "idle" <=> job[j].item = NoItem
    /\ job[j].pc = "record" <=> job[j].doc # NoDoc
    /\ job[j].doc # NoDoc =>
          /\ job[j].doc \in Made
          /\ docs[job[j].doc] = [item |-> job[j].item, config |-> job[j].config]

\* What a submission has read still holds, but for what the panel did since.
SubmitOK(s) ==
    /\ submit[s].pc = "write" <=> submit[s].item # NoItem
    /\ submit[s].pc = "write" /\ ~submit[s].stale => item[submit[s].item].status \notin Settled
    /\ submit[s].pc = "write" => submit[s].item \in again \/ cb = "done"

Sent(i) == (\E j \in Jobs : job[j].item = i) \/ (\E d \in Made : docs[d].item = i)

\* The one way an item that is sent once has been sent: by the callback, or by
\* the submission the callback asked for.
SentOnce(i) ==
    /\ item[i].status = "client-action" => cb = "done"
    /\ cb \in {"digital", "configured"} => seen[i] = item[i].config
    /\ \A j, k \in Jobs : job[j].item = i /\ job[k].item = i => j = k
    /\ \A d, e \in Made : docs[d].item = i /\ docs[e].item = i => d = e
    /\ \A d \in Made, j \in Jobs : docs[d].item = i /\ job[j].item = i => job[j].doc = d
    /\ \A j \in Jobs : job[j].item = i => job[j].config = item[i].config
    /\ \A d \in Made : docs[d].item = i => docs[d].config = item[i].config
    /\ Sent(i) =>
          /\ cb \in {"unconfigured", "done", "broken"}
          /\ cb = "unconfigured" => i \in Configured
          /\ item[i].status # "client-action"
          /\ \A s \in Submits : submit[s].item # i

ItemOK(i) ==
    /\ item[i].ref # NoDoc => item[i].ref \in Made /\ docs[item[i].ref].item = i
    /\ i \in again \/ SentOnce(i)

ItemsInv ==
    /\ ItemsTypeOK
    /\ \A j \in Jobs : JobOK(j)
    /\ \A s \in Submits : SubmitOK(s)
    /\ \A i \in Items : ItemOK(i)
    /\ DocumentsAreKnown

-----------------------------------------------------------------------------

LEMMA Types ==
  ASSUME ItemsTypeOK
  PROVE  /\ job \in [Jobs -> JobRecord] /\ submit \in [Submits -> SubmitRecord]
         /\ \A j \in Jobs : job[j] \in JobRecord
         /\ \A s \in Submits : submit[s] \in SubmitRecord
         /\ \A i \in Items : item[i] \in Item
         /\ \A d \in Made : docs[d] \in Document
         /\ Len(docs) \in Nat
BY DEF ItemsTypeOK, JobRecord, SubmitRecord, Made

LEMMA IdleRecords == IdleJob \in JobRecord /\ IdleSubmit \in SubmitRecord
BY DEF IdleJob, JobRecord, IdleSubmit, SubmitRecord

LEMMA InitItemsInv == ItemsInit => ItemsInv
<1> SUFFICES ASSUME ItemsInit PROVE ItemsInv
  OBVIOUS
<1>1. Made = {}
  BY DEF ItemsInit, Made
<1>2. item \in [Items -> Item]
  <2>1. [status: {"pending"}, config: Configs \cup {NoConfig}, tracking: {NoDoc}, ref: {NoDoc}]
          \subseteq Item
    BY DEF Item, Status
  <2> QED
    BY <2>1 DEF ItemsInit
<1>3. ItemsTypeOK
  BY <1>2, IdleRecords, BoundsAssumption
     DEF ItemsInit, ItemsTypeOK, JobRecord, SubmitRecord, Document
<1>4. \A i \in Items : item[i].status = "pending" /\ item[i].ref = NoDoc
  BY DEF ItemsInit
<1>5. \A j \in Jobs : JobOK(j)
  BY DEF ItemsInit, JobOK, IdleJob
<1>6. \A s \in Submits : SubmitOK(s)
  BY DEF ItemsInit, SubmitOK, IdleSubmit
<1>7. \A i \in Items : ItemOK(i)
  <2>1. cb = "rows" /\ \A j \in Jobs : job[j].item = NoItem
    BY DEF ItemsInit, IdleJob
  <2> QED
    BY <1>1, <1>4, <2>1, ItemsAssumption DEF ItemOK, SentOnce, Sent
<1>8. DocumentsAreKnown
  BY <1>1 DEF DocumentsAreKnown
<1> QED
  BY <1>3, <1>5, <1>6, <1>7, <1>8 DEF ItemsInv

\* Documents stay known as long as none is made, no job with one ends
\* unrecorded, and the items keep what they have on record.
LEMMA DocumentsStayKnown ==
  ASSUME DocumentsAreKnown, UNCHANGED docs, again \subseteq again', lost \subseteq lost',
         \A i \in Items : item'[i].ref = item[i].ref, ItemsTypeOK,
         \A j \in Jobs : job[j].doc \in Made =>
            job[j].doc \in lost' \/ \E k \in Jobs : job'[k].doc = job[j].doc
  PROVE  DocumentsAreKnown'
<1> SUFFICES ASSUME NEW d \in Made
             PROVE  \/ item'[docs[d].item].ref = d
                    \/ \E j \in Jobs : job'[j].doc = d
                    \/ d \in lost'
                    \/ docs[d].item \in again' /\ item'[docs[d].item].ref # NoDoc
  BY DEF DocumentsAreKnown, Made
<1>1. docs[d].item \in Items
  BY Types DEF Document
<1> QED
  BY <1>1 DEF DocumentsAreKnown

-----------------------------------------------------------------------------
(* The callback and the event.                                             *)

\* Steps that leave items, submissions and jobs alone.
LEMMA AsideIInv ==
  ASSUME ItemsInv,
         UNCHANGED <<address, item, docs, submit, job, again, lost, edits>>,
         \/ UNCHANGED <<cb, seen>> /\ orderEvent' \in {"none", "open", "closed"}
         \/ UNCHANGED <<orderEvent, seen>> /\ cb' = "broken" /\ cb # "done"
         \/ CbReads
  PROVE  ItemsInv'
<1>1. ItemsTypeOK /\ Made' = Made /\ UNCHANGED <<item, docs, submit, job, again>>
  BY DEF ItemsInv, Made
<1>2. ItemsTypeOK'
  <2>1. seen' \in [Items -> Configs \cup {NoConfig}]
    BY <1>1, Types DEF ItemsTypeOK, CbReads, Item
  <2>2. /\ orderEvent' \in {"none", "open", "closed"}
        /\ cb' \in {"rows", "digital", "configured", "unconfigured", "done", "broken"}
    BY <1>1 DEF ItemsTypeOK, CbReads
  <2> QED
    BY <1>1, <2>1, <2>2 DEF ItemsTypeOK
<1>3. \A j \in Jobs : JobOK(j)'
  BY <1>1 DEF ItemsInv, JobOK
<1>4. cb = "done" => cb' = "done"
  BY DEF CbReads
<1>5. \A s \in Submits : SubmitOK(s)'
  BY <1>1, <1>4 DEF ItemsInv, SubmitOK
<1>6. ASSUME NEW i \in Items PROVE ItemOK(i)'
  <2>1. ItemOK(i)
    BY DEF ItemsInv
  <2>2. CASE UNCHANGED <<cb, seen>>
    BY <1>1, <2>1, <2>2 DEF ItemOK, SentOnce, Sent, Configured
  <2>3. CASE cb' = "broken" /\ cb # "done"
    BY <1>1, <2>1, <2>3 DEF ItemOK, SentOnce, Sent
  <2>4. CASE CbReads
    <3>1. cb = "rows" /\ cb' = "digital" /\ seen'[i] = item[i].config
      BY <2>4 DEF CbReads
    <3> QED
      BY <1>1, <2>1, <3>1 DEF ItemOK, SentOnce, Sent
  <2> QED
    BY <2>2, <2>3, <2>4
<1>7. DocumentsAreKnown'
  BY <1>1 DEF ItemsInv, DocumentsAreKnown
<1> QED
  BY <1>2, <1>3, <1>5, <1>6, <1>7 DEF ItemsInv

\* What SetsStatus does.
LEMMA SetsStatusEffect ==
  ASSUME ItemsTypeOK, NEW todo \in SUBSET Items, NEW status \in Status, SetsStatus(todo, status)
  PROVE  /\ item' \in [Items -> Item]
         /\ \A i \in Items : /\ item'[i].config = item[i].config
                             /\ item'[i].ref = item[i].ref
                             /\ i \in todo => item'[i].status = status
                             /\ i \notin todo => item'[i] = item[i]
<1>1. \A i \in Items : item[i] \in Item
  BY Types
<1>2. \A i \in Items : /\ i \in todo => item'[i] = [item[i] EXCEPT !.status = status]
                       /\ i \notin todo => item'[i] = item[i]
  BY DEF SetsStatus
<1>3. \A i \in Items :
         /\ [item[i] EXCEPT !.status = status] \in Item
         /\ [item[i] EXCEPT !.status = status].config = item[i].config
         /\ [item[i] EXCEPT !.status = status].ref = item[i].ref
         /\ [item[i] EXCEPT !.status = status].status = status
  BY <1>1 DEF Item
<1>4. item' \in [Items -> Item]
  BY <1>1, <1>2, <1>3 DEF SetsStatus
<1> QED
  BY <1>2, <1>3, <1>4

\* The callback sets the status of items it starts nothing for.
LEMMA CbSetsIInv == ASSUME ItemsInv, CbDigital \/ CbUnconfigured PROVE ItemsInv'
<1>1. /\ ItemsTypeOK /\ Made' = Made
      /\ UNCHANGED <<address, orderEvent, seen, docs, submit, job, again, lost, edits>>
  BY DEF ItemsInv, CbDigital, CbUnconfigured, Made
<1>2. \/ cb = "digital" /\ cb' = "configured" /\ SetsStatus(Items \ Physical, "purchased")
      \/ cb = "unconfigured" /\ cb' = "done" /\ SetsStatus(Physical \ Configured, "client-action")
  BY DEF CbDigital, CbUnconfigured
<1>3. PICK set \in SUBSET Items, new \in {"purchased", "client-action"} :
         /\ SetsStatus(set, new)
         /\ new = "client-action" => cb = "unconfigured" /\ cb' = "done" /\ set = Physical \ Configured
  BY <1>2, ItemsAssumption
<1>4. /\ item' \in [Items -> Item]
      /\ \A i \in Items : /\ item'[i].config = item[i].config
                          /\ item'[i].ref = item[i].ref
                          /\ i \in set => item'[i].status = new
                          /\ i \notin set => item'[i] = item[i]
  BY <1>1, <1>3, SetsStatusEffect DEF Status
<1>5. ItemsTypeOK'
  BY <1>1, <1>2, <1>4 DEF ItemsTypeOK
<1>6. \A j \in Jobs : JobOK(j)'
  BY <1>1 DEF ItemsInv, JobOK
<1>7. ASSUME NEW s \in Submits PROVE SubmitOK(s)'
  <2>1. SubmitOK(s) /\ submit[s] \in SubmitRecord
    BY <1>1, Types DEF ItemsInv
  <2>2. submit[s].pc = "write" => submit[s].item \in Items
    BY <2>1 DEF SubmitOK, SubmitRecord
  <2> QED
    BY <1>1, <1>2, <1>4, <2>1, <2>2 DEF SubmitOK, Settled
<1>8. ASSUME NEW i \in Items PROVE ItemOK(i)'
  <2>1. ItemOK(i)
    BY DEF ItemsInv
  <2>2. i \in again \/ SentOnce(i)'
    <3> SUFFICES ASSUME i \notin again PROVE SentOnce(i)'
      OBVIOUS
    <3>1. SentOnce(i)
      BY <2>1 DEF ItemOK
    <3>2. Sent(i)' <=> Sent(i)
      BY <1>1 DEF Sent
    <3>3. Sent(i) => cb = "unconfigured" /\ cb' = "done" /\ i \in Configured
      BY <1>2, <3>1 DEF SentOnce
    <3>4. Sent(i) => item'[i].status # "client-action"
      BY <1>3, <1>4, <3>1, <3>3 DEF SentOnce
    <3>5. item'[i].status = "client-action" => cb' = "done"
      BY <1>2, <1>3, <1>4, <3>1 DEF SentOnce
    <3> QED
      BY <1>1, <1>2, <1>4, <3>1, <3>2, <3>3, <3>4, <3>5 DEF SentOnce
  <2> QED
    BY <1>1, <1>4, <2>1, <2>2 DEF ItemOK
<1>9. DocumentsAreKnown'
  BY <1>1, <1>4, DocumentsStayKnown DEF ItemsInv
<1> QED
  BY <1>5, <1>6, <1>7, <1>8, <1>9 DEF ItemsInv

-----------------------------------------------------------------------------
(* Starting waybills.                                                      *)

\* What Starts does to the jobs.
Started(pc, todo, config) ==
    /\ job' \in [Jobs -> JobRecord]
    /\ \A j \in Jobs :
          \/ job'[j] = job[j]
          \/ /\ job[j].pc = "idle" /\ job'[j].pc = pc /\ job'[j].doc = NoDoc
             /\ job'[j].item \in todo /\ job'[j].config = config[job'[j].item]
    /\ \A j, k \in Jobs :
          job'[j] # job[j] /\ job'[k] # job[k] /\ job'[j].item = job'[k].item => j = k

LEMMA StartsEffect ==
  ASSUME ItemsTypeOK, NEW todo \in SUBSET Items, NEW pc \in {"fetch", "recipient"},
         NEW config \in [Items -> Configs \cup {NoConfig}], Starts(pc, todo, config)
  PROVE  Started(pc, todo, config)
<1>1. CASE ~address
  BY <1>1, Types DEF Starts, Started
<1>2. CASE address
  <2> DEFINE new(i) == [IdleJob EXCEPT !.pc = pc, !.item = i, !.config = config[i]]
  <2>1. PICK pick \in [todo -> {j \in Jobs : job[j].pc = "idle"}] :
           /\ \A i, k \in todo : pick[i] = pick[k] => i = k
           /\ job' = [j \in Jobs |->
                        IF \E i \in todo : pick[i] = j
                        THEN new(CHOOSE i \in todo : pick[i] = j) ELSE job[j]]
    BY <1>2 DEF Starts
  <2>2. \A i \in todo : /\ new(i) \in JobRecord /\ new(i).pc = pc /\ new(i).doc = NoDoc
                        /\ new(i).item = i /\ new(i).config = config[i]
    BY DEF IdleJob, JobRecord
  <2> HIDE DEF new
  <2>3. \A j \in Jobs : job[j] \in JobRecord
    BY Types
  <2>4. ASSUME NEW j \in Jobs
        PROVE  \/ job'[j] = job[j]
               \/ \E i \in todo : pick[i] = j /\ job'[j] = new(i)
    <3>1. CASE \E i \in todo : pick[i] = j
      <4>1. pick[CHOOSE i \in todo : pick[i] = j] = j /\ (CHOOSE i \in todo : pick[i] = j) \in todo
        BY <3>1
      <4> QED
        BY <2>1, <3>1, <4>1
    <3>2. CASE ~\E i \in todo : pick[i] = j
      BY <2>1, <3>2
    <3> QED
      BY <3>1, <3>2
  <2>5. job' \in [Jobs -> JobRecord]
    <3>1. \A j \in Jobs : job'[j] \in JobRecord
      BY <2>2, <2>3, <2>4
    <3>2. job' = [j \in Jobs |-> job'[j]]
      BY <2>1
    <3> QED
      BY <3>1, <3>2
  <2>6. \A i \in todo : job[pick[i]].pc = "idle"
    BY <2>1
  <2>7. \A j \in Jobs :
          \/ job'[j] = job[j]
          \/ /\ job[j].pc = "idle" /\ job'[j].pc = pc /\ job'[j].doc = NoDoc
             /\ job'[j].item \in todo /\ job'[j].config = config[job'[j].item]
    BY <2>2, <2>4, <2>6
  <2>8. \A j, k \in Jobs :
          job'[j] # job[j] /\ job'[k] # job[k] /\ job'[j].item = job'[k].item => j = k
    BY <2>2, <2>4
  <2> QED
    BY <2>5, <2>7, <2>8 DEF Started
<1> QED
  BY <1>1, <1>2

\* The jobs after a start: an item that is not started keeps its jobs, and one
\* that was not sent gets one at most, with its configuration.
LEMMA AfterStart ==
  ASSUME ItemsInv, NEW todo \in SUBSET Items, NEW pc \in {"fetch", "recipient"},
         NEW config \in [Items -> Configs \cup {NoConfig}], Started(pc, todo, config),
         UNCHANGED docs
  PROVE  /\ \A j \in Jobs : JobOK(j)'
         /\ \A j \in Jobs : job[j].doc \in Made => job'[j].doc = job[j].doc
         /\ \A i \in Items \ todo, j \in Jobs :
               job'[j].item = i \/ job[j].item = i => job'[j] = job[j]
         /\ \A i \in todo : ~Sent(i) =>
               /\ \A j, k \in Jobs : job'[j].item = i /\ job'[k].item = i => j = k
               /\ \A j \in Jobs : job'[j].item = i => job'[j].config = config[i]
               /\ \A d \in Made : docs[d].item # i
<1>1. \A j \in Jobs : JobOK(j) /\ job[j] \in JobRecord
  BY Types DEF ItemsInv
<1>2. \A j \in Jobs : job'[j] # job[j] => job[j].item = NoItem /\ job[j].doc = NoDoc
  BY <1>1 DEF Started, JobOK
<1>3. Made' = Made /\ NoDoc \notin Made
  BY DEF Made, NoDoc
<1>4. ASSUME NEW j \in Jobs PROVE JobOK(j)'
  <2>1. CASE job'[j] = job[j]
    BY <1>1, <1>3, <2>1 DEF JobOK
  <2>2. CASE job'[j] # job[j]
    <3>1. /\ job'[j].pc = pc /\ job'[j].doc = NoDoc /\ job'[j].item \in Items
      BY <2>2 DEF Started
    <3> QED
      BY <3>1, ItemsAssumption DEF JobOK
  <2> QED
    BY <2>1, <2>2
<1>5. \A j \in Jobs : job[j].doc \in Made => job'[j].doc = job[j].doc
  BY <1>2, <1>3
<1>6. ASSUME NEW i \in Items \ todo, NEW j \in Jobs, job'[j].item = i \/ job[j].item = i
      PROVE  job'[j] = job[j]
  BY <1>2, <1>6, ItemsAssumption DEF Started
<1>7. ASSUME NEW i \in todo, ~Sent(i)
      PROVE  /\ \A j, k \in Jobs : job'[j].item = i /\ job'[k].item = i => j = k
             /\ \A j \in Jobs : job'[j].item = i => job'[j].config = config[i]
             /\ \A d \in Made : docs[d].item # i
  <2>1. \A j \in Jobs : job'[j].item = i => job'[j] # job[j]
    BY <1>7 DEF Sent
  <2> QED
    BY <1>7, <2>1 DEF Started, Sent
<1> QED
  BY <1>4, <1>5, <1>6, <1>7

LEMMA CbConfiguredIInv == ASSUME ItemsInv, CbConfigured PROVE ItemsInv'
<1>1. /\ ItemsTypeOK /\ Made' = Made /\ cb = "configured" /\ cb' = "unconfigured"
      /\ UNCHANGED <<address, orderEvent, seen, docs, submit, again, lost, edits>>
      /\ SetsStatus(Configured, "admin-action") /\ Starts("recipient", Configured, seen)
  BY DEF ItemsInv, CbConfigured, Made
<1>2. Configured \in SUBSET Items
  BY ItemsAssumption DEF Configured
<1>3. /\ item' \in [Items -> Item]
      /\ \A i \in Items : /\ item'[i].config = item[i].config
                          /\ item'[i].ref = item[i].ref
                          /\ i \in Configured => item'[i].status = "admin-action"
                          /\ i \notin Configured => item'[i] = item[i]
  BY <1>1, <1>2, SetsStatusEffect DEF Status
<1>4. seen \in [Items -> Configs \cup {NoConfig}]
  BY <1>1 DEF ItemsTypeOK
<1>5. Started("recipient", Configured, seen)
  BY <1>1, <1>2, <1>4, StartsEffect
<1>6. ItemsTypeOK'
  BY <1>1, <1>3, <1>5 DEF ItemsTypeOK, Started, JobRecord
<1>7. /\ \A j \in Jobs : JobOK(j)'
      /\ \A j \in Jobs : job[j].doc \in Made => job'[j].doc = job[j].doc
      /\ \A i \in Items \ Configured, j \in Jobs :
            job'[j].item = i \/ job[j].item = i => job'[j] = job[j]
      /\ \A i \in Configured : ~Sent(i) =>
            /\ \A j, k \in Jobs : job'[j].item = i /\ job'[k].item = i => j = k
            /\ \A j \in Jobs : job'[j].item = i => job'[j].config = seen[i]
            /\ \A d \in Made : docs[d].item # i
  BY <1>1, <1>2, <1>4, <1>5, AfterStart
<1>8. ASSUME NEW s \in Submits PROVE SubmitOK(s)'
  <2>1. SubmitOK(s) /\ submit[s] \in SubmitRecord
    BY <1>1, Types DEF ItemsInv
  <2>2. submit[s].pc = "write" => submit[s].item \in Items
    BY <2>1 DEF SubmitOK, SubmitRecord
  <2> QED
    BY <1>1, <1>3, <2>1, <2>2 DEF SubmitOK, Settled
<1>9. ASSUME NEW i \in Items PROVE ItemOK(i)'
  <2>1. ItemOK(i)
    BY DEF ItemsInv
  <2>2. ASSUME i \notin again PROVE SentOnce(i)'
    <3>1. SentOnce(i) /\ ~Sent(i)
      BY <1>1, <2>1, <2>2 DEF ItemOK, SentOnce
    <3>2. \A s \in Submits : submit[s].item # i
      BY <1>1, <2>2, ItemsAssumption DEF ItemsInv, SubmitOK
    <3>3. \A d \in Made : docs[d].item # i
      BY <3>1 DEF Sent
    <3>4. CASE i \in Configured
      <4>1. i \in Configured'
        BY <1>1, <3>4 DEF Configured
      <4>2. seen[i] = item'[i].config
        BY <1>1, <1>3, <3>1 DEF SentOnce
      <4> QED
        BY <1>1, <1>3, <1>7, <3>1, <3>2, <3>3, <3>4, <4>1, <4>2 DEF SentOnce
    <3>5. CASE i \notin Configured
      <4>1. \A j \in Jobs : job'[j].item # i
        BY <1>7, <3>1, <3>5 DEF Sent
      <4>2. item'[i].status # "client-action"
        BY <1>1, <1>3, <3>1, <3>5 DEF SentOnce
      <4>3. ~Sent(i)'
        BY <1>1, <3>3, <4>1 DEF Sent
      <4> QED
        BY <1>1, <3>3, <4>1, <4>2, <4>3 DEF SentOnce
    <3> QED
      BY <3>4, <3>5
  <2> QED
    BY <1>1, <1>3, <2>1, <2>2 DEF ItemOK
<1>10. DocumentsAreKnown'
  BY <1>1, <1>3, <1>7, DocumentsStayKnown DEF ItemsInv
<1> QED
  BY <1>6, <1>7, <1>8, <1>9, <1>10 DEF ItemsInv

-----------------------------------------------------------------------------
(* The buyer.                                                              *)

LEMMA SubmitReadsIInv ==
  ASSUME ItemsInv, NEW s \in Submits, NEW i \in Items, SubmitReads(s, i) PROVE ItemsInv'
<1> DEFINE v == [pc |-> "write", item |-> i, stale |-> FALSE]
<1>1. /\ ItemsTypeOK /\ Made' = Made /\ item[i].status = "client-action"
      /\ submit' = [submit EXCEPT ![s] = v]
      /\ UNCHANGED <<address, orderEvent, cb, seen, item, docs, job, again, lost, edits>>
  BY DEF ItemsInv, SubmitReads, Made
<1>2. v \in SubmitRecord /\ v.pc = "write" /\ v.item = i /\ ~v.stale
  BY DEF SubmitRecord
<1> HIDE DEF v
<1>3. /\ submit' \in [Submits -> SubmitRecord] /\ submit'[s] = v
      /\ \A t \in Submits \ {s} : submit'[t] = submit[t]
  BY <1>1, <1>2, Types
<1>4. ItemsTypeOK'
  BY <1>1, <1>3 DEF ItemsTypeOK, SubmitRecord
<1>5. \A j \in Jobs : JobOK(j)'
  BY <1>1 DEF ItemsInv, JobOK
<1>6. i \in again \/ (SentOnce(i) /\ cb = "done" /\ ~Sent(i))
  BY <1>1 DEF ItemsInv, ItemOK, SentOnce
<1>7. \A t \in Submits : SubmitOK(t)'
  <2>1. SubmitOK(s)'
    BY <1>1, <1>2, <1>3, <1>6, ItemsAssumption DEF SubmitOK, Settled
  <2>2. \A t \in Submits \ {s} : SubmitOK(t)'
    BY <1>1, <1>3 DEF ItemsInv, SubmitOK
  <2> QED
    BY <2>1, <2>2
<1>8. ASSUME NEW k \in Items PROVE ItemOK(k)'
  <2>1. ItemOK(k) /\ (Sent(k)' <=> Sent(k))
    BY <1>1 DEF ItemsInv, Sent
  <2>2. ASSUME k \notin again PROVE SentOnce(k)'
    <3>1. SentOnce(k)
      BY <2>1, <2>2 DEF ItemOK
    <3>2. Sent(k) => k # i
      BY <1>6, <2>2
    <3>3. Sent(k) => \A t \in Submits : submit'[t].item # k
      BY <1>2, <1>3, <3>1, <3>2 DEF SentOnce
    <3> QED
      BY <1>1, <2>1, <3>1, <3>3 DEF SentOnce, Configured
  <2> QED
    BY <1>1, <2>1, <2>2 DEF ItemOK
<1>9. DocumentsAreKnown'
  BY <1>1 DEF ItemsInv, DocumentsAreKnown
<1> QED
  BY <1>4, <1>5, <1>7, <1>8, <1>9 DEF ItemsInv

LEMMA SubmitFailsIInv == ASSUME ItemsInv, NEW s \in Submits, SubmitFails(s) PROVE ItemsInv'
<1>1. /\ ItemsTypeOK /\ Made' = Made /\ submit' = [submit EXCEPT ![s] = IdleSubmit]
      /\ UNCHANGED <<address, orderEvent, cb, seen, item, docs, job, again, lost, edits>>
  BY DEF ItemsInv, SubmitFails, Made
<1>2. IdleSubmit.pc = "idle" /\ IdleSubmit.item = NoItem
  BY DEF IdleSubmit
<1>3. /\ submit' \in [Submits -> SubmitRecord] /\ submit'[s] = IdleSubmit
      /\ \A t \in Submits \ {s} : submit'[t] = submit[t]
  BY <1>1, Types, IdleRecords
<1>4. ItemsTypeOK'
  BY <1>1, <1>3 DEF ItemsTypeOK, SubmitRecord
<1>5. \A j \in Jobs : JobOK(j)'
  BY <1>1 DEF ItemsInv, JobOK
<1>6. \A t \in Submits : SubmitOK(t)'
  BY <1>1, <1>2, <1>3 DEF ItemsInv, SubmitOK
<1>7. ASSUME NEW k \in Items PROVE ItemOK(k)'
  <2>1. ItemOK(k) /\ (Sent(k)' <=> Sent(k))
    BY <1>1 DEF ItemsInv, Sent
  <2>2. ASSUME k \notin again PROVE SentOnce(k)'
    <3>1. SentOnce(k)
      BY <2>1, <2>2 DEF ItemOK
    <3>2. Sent(k) => \A t \in Submits : submit'[t].item # k
      BY <1>2, <1>3, <3>1, ItemsAssumption DEF SentOnce
    <3> QED
      BY <1>1, <2>1, <3>1, <3>2 DEF SentOnce, Configured
  <2> QED
    BY <1>1, <2>1, <2>2 DEF ItemOK
<1>8. DocumentsAreKnown'
  BY <1>1 DEF ItemsInv, DocumentsAreKnown
<1> QED
  BY <1>4, <1>5, <1>6, <1>7, <1>8 DEF ItemsInv

LEMMA SubmitWritesIInv == ASSUME ItemsInv, NEW s \in Submits, SubmitWrites(s) PROVE ItemsInv'
<1> DEFINE i == submit[s].item
<1>1. /\ ItemsTypeOK /\ Made' = Made /\ submit[s].pc = "write"
      /\ submit' = [submit EXCEPT ![s] = IdleSubmit]
      /\ again' = again \cup {submit[t].item : t \in {u \in Submits \ {s} :
                                 submit[u].pc = "write" /\ submit[u].item = i}}
      /\ UNCHANGED <<address, orderEvent, cb, seen, docs, lost, edits>>
  BY DEF ItemsInv, SubmitWrites, Made
<1>2. PICK c \in Configs \cup {NoConfig} :
         /\ item' = [item EXCEPT ![i].config = c, ![i].status = "admin-action"]
         /\ Starts("fetch", {i}, [k \in Items |-> c])
  BY DEF SubmitWrites
<1>3. i \in Items /\ SubmitOK(s)
  BY <1>1, Types DEF ItemsInv, SubmitOK, SubmitRecord
<1>4. /\ item' \in [Items -> Item]
      /\ item'[i].config = c /\ item'[i].status = "admin-action" /\ item'[i].ref = item[i].ref
      /\ \A k \in Items \ {i} : item'[k] = item[k]
  <2> DEFINE w == [item[i] EXCEPT !.config = c, !.status = "admin-action"]
  <2>1. item[i] \in Item
    BY <1>1, <1>3, Types
  <2>2. /\ w \in Item /\ w.config = c /\ w.status = "admin-action" /\ w.ref = item[i].ref
    BY <2>1 DEF Item, Status
  <2>3. item' = [item EXCEPT ![i] = w]
    BY <1>1, <1>2, <1>3 DEF ItemsTypeOK
  <2> HIDE DEF w
  <2> QED
    BY <1>1, <1>3, <2>2, <2>3 DEF ItemsTypeOK
<1>5. /\ submit' \in [Submits -> SubmitRecord] /\ submit'[s] = IdleSubmit
      /\ \A t \in Submits \ {s} : submit'[t] = submit[t]
      /\ IdleSubmit.pc = "idle" /\ IdleSubmit.item = NoItem
  BY <1>1, Types, IdleRecords DEF IdleSubmit
<1>6. /\ again \subseteq again' /\ again' \subseteq again \cup {i}
      /\ \A t \in Submits \ {s} : submit[t].pc = "write" /\ submit[t].item = i => i \in again'
  BY <1>1
<1>7. PICK conf \in [Items -> Configs \cup {NoConfig}] :
         conf[i] = c /\ Started("fetch", {i}, conf)
  <2> DEFINE conf == [k \in Items |-> c]
  <2>1. conf \in [Items -> Configs \cup {NoConfig}] /\ conf[i] = c
    BY <1>3
  <2>2. Started("fetch", {i}, conf)
    BY <1>1, <1>2, <1>3, StartsEffect
  <2> HIDE DEF conf
  <2> QED
    BY <2>1, <2>2
<1>8. ItemsTypeOK'
  <2>1. again' \in SUBSET Items
    BY <1>1, <1>3, <1>6 DEF ItemsTypeOK
  <2> QED
    BY <1>1, <1>4, <1>5, <1>7, <2>1 DEF ItemsTypeOK, SubmitRecord, Started, JobRecord
<1>9. /\ \A j \in Jobs : JobOK(j)'
      /\ \A j \in Jobs : job[j].doc \in Made => job'[j].doc = job[j].doc
      /\ \A k \in Items \ {i}, j \in Jobs :
            job'[j].item = k \/ job[j].item = k => job'[j] = job[j]
      /\ ~Sent(i) =>
            /\ \A j, k \in Jobs : job'[j].item = i /\ job'[k].item = i => j = k
            /\ \A j \in Jobs : job'[j].item = i => job'[j].config = c
            /\ \A d \in Made : docs[d].item # i
  <2>1. /\ \A j \in Jobs : JobOK(j)'
        /\ \A j \in Jobs : job[j].doc \in Made => job'[j].doc = job[j].doc
        /\ \A k \in Items \ {i}, j \in Jobs :
              job'[j].item = k \/ job[j].item = k => job'[j] = job[j]
        /\ \A h \in {i} : ~Sent(h) =>
              /\ \A j, k \in Jobs : job'[j].item = h /\ job'[k].item = h => j = k
              /\ \A j \in Jobs : job'[j].item = h => job'[j].config = conf[h]
              /\ \A d \in Made : docs[d].item # h
    <3>1. {i} \in SUBSET Items /\ "fetch" \in {"fetch", "recipient"} /\ UNCHANGED docs
      BY <1>1, <1>3
    <3> QED
      BY <1>7, <3>1, AfterStart
  <2> QED
    BY <1>7, <2>1
<1>10. ASSUME NEW t \in Submits PROVE SubmitOK(t)'
  <2>1. CASE t = s
    BY <1>5, <2>1 DEF SubmitOK
  <2>2. CASE t # s
    <3>1. SubmitOK(t) /\ submit'[t] = submit[t] /\ submit[t] \in SubmitRecord
      BY <1>1, <1>5, <2>2, Types DEF ItemsInv
    <3>2. submit[t].pc = "write" => submit[t].item \in Items
      BY <3>1 DEF SubmitOK, SubmitRecord
    <3> QED
      BY <1>1, <1>4, <1>6, <3>1, <3>2 DEF SubmitOK, Settled
  <2> QED
    BY <2>1, <2>2
<1>11. ASSUME NEW k \in Items PROVE ItemOK(k)'
  <2>1. ItemOK(k)
    BY DEF ItemsInv
  <2>2. ASSUME k \notin again' PROVE SentOnce(k)'
    <3>1. SentOnce(k) /\ k \notin again
      BY <1>6, <2>1, <2>2 DEF ItemOK
    <3>2. CASE k = i
      <4>1. ~Sent(i) /\ cb = "done"
        BY <1>1, <1>3, <3>1, <3>2 DEF SentOnce, SubmitOK
      <4>2. \A t \in Submits : submit'[t].item # i
        <5>1. \A t \in Submits \ {s} : submit[t].item # i
          BY <1>3, <1>6, <2>2, <3>2, ItemsAssumption DEF ItemsInv, SubmitOK
        <5> QED
          BY <1>3, <1>5, <5>1, ItemsAssumption
      <4> QED
        BY <1>1, <1>4, <1>9, <3>2, <4>1, <4>2 DEF SentOnce
    <3>3. CASE k # i
      <4>1. Sent(k)' <=> Sent(k)
        BY <1>1, <1>9, <3>3 DEF Sent
      <4>2. Sent(k) => \A t \in Submits : submit'[t].item # k
        BY <1>5, <3>1, ItemsAssumption DEF SentOnce
      <4>3. \A j \in Jobs : job'[j].item = k => job[j].item = k /\ job'[j] = job[j]
        BY <1>9, <3>3
      <4> QED
        BY <1>1, <1>4, <3>1, <3>3, <4>1, <4>2, <4>3 DEF SentOnce, Configured
    <3> QED
      BY <3>2, <3>3
  <2>3. item'[k].ref = item[k].ref
    BY <1>4
  <2> QED
    BY <1>1, <2>1, <2>2, <2>3 DEF ItemOK
<1>12. DocumentsAreKnown'
  <2>1. \A k \in Items : item'[k].ref = item[k].ref
    BY <1>4
  <2> QED
    BY <1>1, <1>6, <1>9, <2>1, DocumentsStayKnown DEF ItemsInv
<1> QED
  BY <1>8, <1>9, <1>10, <1>11, <1>12 DEF ItemsInv

-----------------------------------------------------------------------------
(* Waybills.                                                               *)

\* A job goes on with its item, or ends; its document, if it has one, is lost.
LEMMA JobStepIInv ==
  ASSUME ItemsInv, NEW j \in Jobs, NEW w \in JobRecord,
         job' = [job EXCEPT ![j] = w], lost \subseteq lost', lost' \in SUBSET Numbers,
         UNCHANGED <<address, orderEvent, cb, seen, item, docs, submit, again, edits>>,
         job[j].doc \in Made => job[j].doc \in lost',
         \/ w = IdleJob
         \/ /\ w.pc \in {"recipient", "document"} /\ w.item = job[j].item /\ w.item # NoItem
            /\ w.config = job[j].config /\ w.doc = NoDoc /\ job[j].doc = NoDoc
  PROVE  ItemsInv'
<1>1. ItemsTypeOK /\ Made' = Made
  BY DEF ItemsInv, Made
<1>2. /\ job' \in [Jobs -> JobRecord] /\ job'[j] = w
      /\ \A k \in Jobs \ {j} : job'[k] = job[k]
  BY <1>1, Types
<1>3. ItemsTypeOK'
  BY <1>1, <1>2 DEF ItemsTypeOK, JobRecord
<1>4. \A k \in Jobs : JobOK(k)'
  <2>1. JobOK(j)'
    BY <1>2 DEF JobOK, IdleJob
  <2>2. \A k \in Jobs \ {j} : JobOK(k)'
    BY <1>1, <1>2 DEF ItemsInv, JobOK
  <2> QED
    BY <2>1, <2>2
<1>5. \A s \in Submits : SubmitOK(s)'
  BY DEF ItemsInv, SubmitOK
<1>6. \A k \in Jobs :
         \/ job'[k] = job[k]
         \/ job'[k].item = NoItem
         \/ job'[k].item = job[k].item /\ job'[k].config = job[k].config /\ job[k].doc = NoDoc
  BY <1>2 DEF IdleJob
<1>7. ASSUME NEW i \in Items PROVE ItemOK(i)'
  <2>1. ItemOK(i)
    BY DEF ItemsInv
  <2>2. ASSUME i \notin again PROVE SentOnce(i)'
    <3>1. SentOnce(i)
      BY <2>1, <2>2 DEF ItemOK
    <3>2. \A k \in Jobs : job'[k].item = i =>
             job[k].item = i /\ job'[k].config = job[k].config
      BY <1>6, ItemsAssumption
    <3>3. Sent(i)' => Sent(i)
      BY <1>1, <3>2 DEF Sent
    <3>4. ASSUME NEW d \in Made, NEW k \in Jobs, docs[d].item = i, job'[k].item = i
          PROVE  job'[k].doc = d
      <4>1. job[k].doc = d
        BY <3>1, <3>2, <3>4 DEF SentOnce
      <4>2. job[k].doc # NoDoc
        BY <4>1, Types, <1>1 DEF Made, NoDoc
      <4> QED
        BY <1>6, <3>4, <4>1, <4>2, ItemsAssumption
    <3> QED
      BY <1>1, <3>1, <3>2, <3>3, <3>4 DEF SentOnce, Configured
  <2> QED
    BY <1>1, <2>1, <2>2 DEF ItemOK
<1>8. DocumentsAreKnown'
  BY <1>1, <1>2, DocumentsStayKnown DEF ItemsInv
<1> QED
  BY <1>3, <1>4, <1>5, <1>7, <1>8 DEF ItemsInv

LEMMA JobGoesOnIInv ==
  ASSUME ItemsInv, NEW j \in Jobs, FetchAddress(j) \/ CreateRecipient(j) \/ JobFails(j)
  PROVE  ItemsInv'
<1>1. /\ ItemsTypeOK /\ job[j] \in JobRecord /\ JobOK(j)
      /\ UNCHANGED <<address, orderEvent, cb, seen, item, docs, submit, again, edits>>
  BY Types DEF ItemsInv, FetchAddress, CreateRecipient, JobFails
<1>2. lost \in SUBSET Numbers /\ NoDoc \notin Numbers /\ NoDoc \notin Made /\ Made \subseteq Numbers
  BY <1>1, BoundsAssumption DEF ItemsTypeOK, NoDoc, Made, Numbers
<1>3. ASSUME NEW pc \in {"recipient", "document"},
             job[j].pc \in {"fetch", "recipient"}, UNCHANGED lost,
             job' = [job EXCEPT ![j].pc = pc]
      PROVE  ItemsInv'
  <2> DEFINE w == [job[j] EXCEPT !.pc = pc]
  <2>1. /\ w \in JobRecord /\ w.pc = pc /\ w.item = job[j].item
        /\ w.config = job[j].config /\ w.doc = job[j].doc
    BY <1>1 DEF JobRecord
  <2>2. job' = [job EXCEPT ![j] = w]
    BY <1>1, <1>3 DEF ItemsTypeOK
  <2> HIDE DEF w
  <2>3. job[j].item # NoItem /\ job[j].doc = NoDoc
    BY <1>1, <1>3 DEF JobOK
  <2> QED
    BY <1>1, <1>2, <1>3, <2>1, <2>2, <2>3, JobStepIInv
<1>4. CASE FetchAddress(j)
  <2>1. CASE orderEvent = "open"
    <3>1. job' = [job EXCEPT ![j].pc = "recipient"]
      BY <1>4, <2>1 DEF FetchAddress
    <3> QED
      BY <1>3, <1>4, <3>1 DEF FetchAddress
  <2>2. CASE orderEvent # "open"
    <3>1. job' = [job EXCEPT ![j] = IdleJob] /\ job[j].doc = NoDoc /\ UNCHANGED lost
      BY <1>1, <1>4, <2>2 DEF FetchAddress, JobOK
    <3> QED
      BY <1>1, <1>2, <3>1, IdleRecords, JobStepIInv
  <2> QED
    BY <2>1, <2>2
<1>5. CASE CreateRecipient(j)
  BY <1>3, <1>5 DEF CreateRecipient
<1>6. CASE JobFails(j)
  <2>1. job' = [job EXCEPT ![j] = IdleJob] /\ lost' = lost \cup ({job[j].doc} \ {NoDoc})
    BY <1>6 DEF JobFails
  <2>2. lost' \in SUBSET Numbers /\ lost \subseteq lost'
    BY <1>1, <1>2, <2>1 DEF JobRecord
  <2>3. job[j].doc \in Made => job[j].doc \in lost'
    BY <1>2, <2>1
  <2> QED
    BY <1>1, <2>1, <2>2, <2>3, IdleRecords, JobStepIInv
<1> QED
  BY <1>4, <1>5, <1>6

LEMMA RecordWaybillIInv == ASSUME ItemsInv, NEW j \in Jobs, RecordWaybill(j) PROVE ItemsInv'
<1> DEFINE i == job[j].item
           d == job[j].doc
<1>1. /\ ItemsTypeOK /\ Made' = Made /\ job[j] \in JobRecord /\ JobOK(j) /\ job[j].pc = "record"
      /\ item' = [item EXCEPT ![i].tracking = d, ![i].ref = d]
      /\ job' = [job EXCEPT ![j] = IdleJob]
      /\ UNCHANGED <<address, orderEvent, cb, seen, docs, submit, again, lost, edits>>
  BY Types DEF ItemsInv, RecordWaybill, Made
<1>2. /\ i \in Items /\ d \in Made /\ d \in Numbers /\ d # NoDoc
      /\ docs[d].item = i /\ docs[d].config = job[j].config
  BY <1>1 DEF JobOK, JobRecord
<1>3. /\ item' \in [Items -> Item]
      /\ item'[i].ref = d
      /\ \A k \in Items : /\ item'[k].config = item[k].config
                          /\ item'[k].status = item[k].status
                          /\ k # i => item'[k] = item[k]
  <2> DEFINE w == [item[i] EXCEPT !.tracking = d, !.ref = d]
  <2>1. item[i] \in Item
    BY <1>1, <1>2, Types
  <2>2. w \in Item /\ w.config = item[i].config /\ w.status = item[i].status /\ w.ref = d
    BY <1>2, <2>1 DEF Item
  <2>3. item' = [item EXCEPT ![i] = w]
    BY <1>1, <1>2 DEF ItemsTypeOK
  <2> HIDE DEF w
  <2> QED
    BY <1>1, <1>2, <2>2, <2>3 DEF ItemsTypeOK
<1>4. /\ job' \in [Jobs -> JobRecord] /\ job'[j] = IdleJob
      /\ \A k \in Jobs \ {j} : job'[k] = job[k]
      /\ IdleJob.item = NoItem /\ IdleJob.doc = NoDoc /\ IdleJob.pc = "idle"
  BY <1>1, Types, IdleRecords DEF IdleJob
<1>5. ItemsTypeOK'
  BY <1>1, <1>3, <1>4 DEF ItemsTypeOK, JobRecord
<1>6. \A k \in Jobs : JobOK(k)'
  BY <1>1, <1>4 DEF ItemsInv, JobOK
<1>7. ASSUME NEW s \in Submits PROVE SubmitOK(s)'
  <2>1. SubmitOK(s) /\ submit[s] \in SubmitRecord
    BY <1>1, Types DEF ItemsInv
  <2>2. submit[s].pc = "write" => submit[s].item \in Items
    BY <2>1 DEF SubmitOK, SubmitRecord
  <2> QED
    BY <1>1, <1>3, <2>1, <2>2 DEF SubmitOK
<1>8. ASSUME NEW k \in Items, ItemOK(k), k \notin again PROVE SentOnce(k)'
  <2>1. SentOnce(k)
    BY <1>8 DEF ItemOK
  <2>2. \A h \in Jobs : job'[h].item = k => job'[h] = job[h]
    BY <1>4, ItemsAssumption
  <2>3. Sent(k)' => Sent(k)
    BY <1>1, <2>2 DEF Sent
  <2> QED
    BY <1>1, <1>3, <2>1, <2>2, <2>3 DEF SentOnce, Configured
<1>9. \A k \in Items : ItemOK(k)'
  BY <1>1, <1>2, <1>3, <1>8 DEF ItemsInv, ItemOK
<1>10. ASSUME NEW e \in Made
       PROVE  \/ item'[docs[e].item].ref = e
              \/ \E h \in Jobs : job'[h].doc = e
              \/ e \in lost
              \/ docs[e].item \in again /\ item'[docs[e].item].ref # NoDoc
  <2>1. docs[e].item \in Items
    BY <1>1, Types DEF Document
  <2>2. CASE docs[e].item = i
    <3>1. i \in again \/ e = d
      BY <1>2, <2>2 DEF ItemsInv, ItemOK, SentOnce
    <3> QED
      BY <1>2, <1>3, <2>2, <3>1
  <2>3. CASE docs[e].item # i
    <3>1. item'[docs[e].item] = item[docs[e].item]
      BY <1>3, <2>1, <2>3
    <3>2. \A h \in Jobs : job[h].doc = e => job'[h].doc = e
      BY <1>2, <1>4, <2>3
    <3> QED
      BY <3>1, <3>2 DEF ItemsInv, DocumentsAreKnown
  <2> QED
    BY <2>2, <2>3
<1>11. DocumentsAreKnown'
  BY <1>1, <1>10 DEF DocumentsAreKnown
<1> QED
  BY <1>5, <1>6, <1>7, <1>9, <1>11 DEF ItemsInv

LEMMA CreateWaybillIInv == ASSUME ItemsInv, NEW j \in Jobs, CreateWaybill(j) PROVE ItemsInv'
<1> DEFINE i == job[j].item
           n == Len(docs) + 1
           D == [item |-> i, config |-> job[j].config]
<1>1. /\ ItemsTypeOK /\ job[j] \in JobRecord /\ JobOK(j) /\ job[j].pc = "document"
      /\ Len(docs) \in Nat /\ Len(docs) < MaxDocs /\ docs' = Append(docs, D)
      /\ UNCHANGED <<address, orderEvent, cb, seen, item, submit, again, edits>>
  BY Types DEF ItemsInv, CreateWaybill
<1>2. i \in Items /\ job[j].doc = NoDoc
  BY <1>1 DEF JobOK, JobRecord
<1>3. D \in Document /\ D.item = i /\ D.config = job[j].config
  BY <1>1, <1>2 DEF Document, JobRecord
<1>4. /\ docs' \in Seq(Document) /\ Len(docs') = n /\ docs'[n] = D
      /\ \A d \in Made : docs'[d] = docs[d]
  BY <1>1, <1>3 DEF ItemsTypeOK, Made
<1>5. /\ Made' = Made \cup {n} /\ n \notin Made /\ n \in Numbers /\ n # NoDoc
      /\ NoDoc \notin Made /\ Made \subseteq Numbers
  BY <1>1, <1>4, BoundsAssumption DEF Made, Numbers, NoDoc
<1>6. PICK w \in JobRecord :
         /\ job' = [job EXCEPT ![j] = w]
         /\ lost \subseteq lost' /\ lost' \in SUBSET Numbers
         /\ \/ /\ w.pc = "record" /\ w.item = i /\ w.config = job[j].config /\ w.doc = n
            \/ w = IdleJob /\ n \in lost'
  <2>1. CASE job' = [job EXCEPT ![j].pc = "record", ![j].doc = n] /\ UNCHANGED lost
    <3> DEFINE w == [job[j] EXCEPT !.pc = "record", !.doc = n]
    <3>1. /\ w \in JobRecord /\ w.pc = "record" /\ w.item = i
          /\ w.config = job[j].config /\ w.doc = n
      BY <1>1, <1>5 DEF JobRecord
    <3>2. job' = [job EXCEPT ![j] = w]
      BY <1>1, <2>1 DEF ItemsTypeOK
    <3>3. lost' \in SUBSET Numbers
      BY <1>1, <2>1 DEF ItemsTypeOK
    <3> HIDE DEF w
    <3> QED
      BY <2>1, <3>1, <3>2, <3>3
  <2>2. CASE job' = [job EXCEPT ![j] = IdleJob] /\ lost' = lost \cup {n}
    BY <1>1, <1>5, <2>2, IdleRecords DEF ItemsTypeOK
  <2> QED
    BY <2>1, <2>2 DEF CreateWaybill
<1> HIDE DEF D, n
<1>7. /\ job' \in [Jobs -> JobRecord] /\ job'[j] = w
      /\ \A k \in Jobs \ {j} : job'[k] = job[k]
      /\ IdleJob.item = NoItem /\ IdleJob.doc = NoDoc /\ IdleJob.pc = "idle"
  BY <1>1, <1>6, Types DEF IdleJob
<1>8. ItemsTypeOK'
  <2>1. Len(docs') <= MaxDocs
    BY <1>1, <1>4, BoundsAssumption DEF n
  <2> QED
    BY <1>1, <1>4, <1>6, <1>7, <2>1 DEF ItemsTypeOK, JobRecord
<1>9. \A k \in Jobs : JobOK(k)'
  <2>1. JobOK(j)'
    BY <1>2, <1>4, <1>5, <1>6, <1>7, ItemsAssumption DEF JobOK, D
  <2>2. ASSUME NEW k \in Jobs \ {j} PROVE JobOK(k)'
    <3>1. JobOK(k) /\ job'[k] = job[k]
      BY <1>7 DEF ItemsInv
    <3> QED
      BY <1>4, <1>5, <3>1 DEF JobOK
  <2> QED
    BY <2>1, <2>2
<1>10. \A s \in Submits : SubmitOK(s)'
  BY <1>1 DEF ItemsInv, SubmitOK
<1>11. ASSUME NEW k \in Items PROVE ItemOK(k)'
  <2>1. ItemOK(k)
    BY DEF ItemsInv
  <2>2. ASSUME k \notin again PROVE SentOnce(k)'
    <3>1. SentOnce(k)
      BY <2>1, <2>2 DEF ItemOK
    <3>2. \A h \in Jobs : job'[h].item = k => job[h].item = k /\ job'[h].config = job[h].config
      BY <1>6, <1>7, ItemsAssumption
    <3>3. Sent(k)' => Sent(k)
      BY <1>3, <1>4, <1>5, <3>2 DEF Sent
    <3>4. CASE k = i
      <4>1. \A d \in Made : docs[d].item # k
        BY <1>2, <1>5, <3>1, <3>4 DEF SentOnce
      <4>2. \A d \in Made' : docs'[d].item = k => d = n
        BY <1>4, <1>5, <4>1
      <4>3. \A h \in Jobs : job'[h].item = k => h = j /\ job'[h].doc = n
        BY <1>6, <1>7, <3>1, <3>2, <3>4, ItemsAssumption DEF SentOnce
      <4>4. docs'[n].config = item[k].config
        BY <1>3, <1>4, <3>1, <3>4 DEF SentOnce
      <4> QED
        BY <1>1, <3>1, <3>2, <3>3, <4>2, <4>3, <4>4 DEF SentOnce, Configured
    <3>5. CASE k # i
      <4>1. \A d \in Made' : docs'[d].item = k => d \in Made /\ docs'[d] = docs[d]
        BY <1>3, <1>4, <1>5, <3>5
      <4>2. \A h \in Jobs : job'[h].item = k => job'[h] = job[h]
        BY <1>6, <1>7, <3>5, ItemsAssumption
      <4>3. \A g, h \in Jobs : job'[g].item = k /\ job'[h].item = k => g = h
        BY <3>1, <4>2 DEF SentOnce
      <4>4. \A d, e \in Made' : docs'[d].item = k /\ docs'[e].item = k => d = e
        BY <3>1, <4>1 DEF SentOnce
      <4>5. \A d \in Made', h \in Jobs : docs'[d].item = k /\ job'[h].item = k => job'[h].doc = d
        BY <3>1, <4>1, <4>2 DEF SentOnce
      <4>6. /\ \A h \in Jobs : job'[h].item = k => job'[h].config = item[k].config
            /\ \A d \in Made' : docs'[d].item = k => docs'[d].config = item[k].config
        BY <3>1, <4>1, <4>2 DEF SentOnce
      <4> QED
        BY <1>1, <3>1, <3>3, <4>3, <4>4, <4>5, <4>6 DEF SentOnce, Configured
    <3> QED
      BY <3>4, <3>5
  <2>3. item[k].ref # NoDoc => item[k].ref \in Made' /\ docs'[item[k].ref].item = k
    BY <1>4, <1>5, <2>1 DEF ItemOK
  <2> QED
    BY <1>1, <2>2, <2>3 DEF ItemOK
<1>12. DocumentsAreKnown'
  <2> SUFFICES ASSUME NEW d \in Made'
               PROVE  \/ item[docs'[d].item].ref = d
                      \/ \E h \in Jobs : job'[h].doc = d
                      \/ d \in lost'
                      \/ docs'[d].item \in again /\ item[docs'[d].item].ref # NoDoc
    BY <1>1 DEF DocumentsAreKnown
  <2>1. CASE d = n
    BY <1>6, <1>7, <2>1
  <2>2. CASE d \in Made
    <3>1. \A h \in Jobs : job[h].doc = d => job'[h].doc = d
      BY <1>2, <1>5, <1>7, <2>2
    <3>2. docs'[d] = docs[d]
      BY <1>4, <2>2
    <3> QED
      BY <1>6, <2>2, <3>1, <3>2 DEF ItemsInv, DocumentsAreKnown
  <2> QED
    BY <1>5, <2>1, <2>2
<1> QED
  BY <1>8, <1>9, <1>10, <1>11, <1>12 DEF ItemsInv

-----------------------------------------------------------------------------
(* The panel and the restart.                                              *)

LEMMA UpdateItemIInv == ASSUME ItemsInv, NEW i \in Items, UpdateItem(i) PROVE ItemsInv'
<1>1. /\ ItemsTypeOK /\ Made' = Made /\ edits' \in 0..MaxEdits
      /\ UNCHANGED <<address, orderEvent, cb, seen, docs, job, lost>>
  BY BoundsAssumption DEF ItemsInv, UpdateItem, Made, ItemsTypeOK
<1>2. PICK status \in PanelSets \cup {item[i].status}, typed \in BOOLEAN :
         /\ item' = [item EXCEPT ![i].status = status,
                                 ![i].tracking = IF typed THEN Typed ELSE @]
         /\ again' = IF status = "client-action" THEN again \cup {i} ELSE again
         /\ submit' = [s \in Submits |->
                         IF submit[s].item = i /\ status # "client-action"
                         THEN [submit[s] EXCEPT !.stale = TRUE] ELSE submit[s]]
  BY DEF UpdateItem
<1>3. /\ item' \in [Items -> Item]
      /\ item'[i].status = status
      /\ \A k \in Items : /\ item'[k].config = item[k].config
                          /\ item'[k].ref = item[k].ref
                          /\ k # i => item'[k] = item[k]
  <2> DEFINE w == [item[i] EXCEPT !.status = status, !.tracking = IF typed THEN Typed ELSE @]
  <2>1. item[i] \in Item /\ status \in Status
    BY <1>1, Types, PanelAssumption DEF Item, Status
  <2>2. w \in Item /\ w.config = item[i].config /\ w.status = status /\ w.ref = item[i].ref
    BY <2>1 DEF Item
  <2>3. item' = [item EXCEPT ![i] = w]
    BY <1>1, <1>2 DEF ItemsTypeOK
  <2> HIDE DEF w
  <2> QED
    BY <1>1, <2>2, <2>3 DEF ItemsTypeOK
<1>4. ASSUME NEW s \in Submits
      PROVE  /\ submit'[s] \in SubmitRecord
             /\ submit'[s].pc = submit[s].pc /\ submit'[s].item = submit[s].item
             /\ submit[s].stale => submit'[s].stale
             /\ submit[s].item = i /\ status # "client-action" => submit'[s].stale
  <2>1. submit[s] \in SubmitRecord
    BY <1>1, Types
  <2>2. LET v == [submit[s] EXCEPT !.stale = TRUE]
        IN  /\ v \in SubmitRecord /\ v.pc = submit[s].pc /\ v.item = submit[s].item
            /\ v.stale
    BY <2>1 DEF SubmitRecord
  <2>3. \/ submit'[s] = submit[s] /\ ~(submit[s].item = i /\ status # "client-action")
        \/ submit'[s] = [submit[s] EXCEPT !.stale = TRUE]
    BY <1>2
  <2> QED
    BY <2>1, <2>2, <2>3
<1>5. submit' \in [Submits -> SubmitRecord]
  <2>1. submit' = [s \in Submits |-> submit'[s]]
    BY <1>2
  <2> QED
    BY <1>4, <2>1
<1>6. /\ again \subseteq again' /\ again' \in SUBSET Items
      /\ i \notin again' => status # "client-action"
  BY <1>1, <1>2 DEF ItemsTypeOK
<1>7. ItemsTypeOK'
  BY <1>1, <1>3, <1>5, <1>6 DEF ItemsTypeOK, SubmitRecord
<1>8. \A j \in Jobs : JobOK(j)'
  BY <1>1 DEF ItemsInv, JobOK
<1>9. ASSUME NEW s \in Submits PROVE SubmitOK(s)'
  <2>1. SubmitOK(s) /\ submit[s] \in SubmitRecord
    BY <1>1, Types DEF ItemsInv
  <2>2. submit[s].pc = "write" => submit[s].item \in Items
    BY <2>1 DEF SubmitOK, SubmitRecord
  <2> QED
    BY <1>1, <1>3, <1>4, <1>6, <2>1, <2>2 DEF SubmitOK, Settled
<1>10. ASSUME NEW k \in Items PROVE ItemOK(k)'
  <2>1. ItemOK(k) /\ (Sent(k)' <=> Sent(k))
    BY <1>1 DEF ItemsInv, Sent
  <2>2. ASSUME k \notin again' PROVE SentOnce(k)'
    <3>1. SentOnce(k)
      BY <1>6, <2>1, <2>2 DEF ItemOK
    <3>2. item'[k].status = "client-action" => item[k].status = "client-action"
      BY <1>3, <1>6, <2>2
    <3>3. Sent(k) => \A s \in Submits : submit'[s].item # k
      BY <1>4, <3>1 DEF SentOnce
    <3> QED
      BY <1>1, <1>3, <2>1, <3>1, <3>2, <3>3 DEF SentOnce, Configured
  <2> QED
    BY <1>1, <1>3, <2>1, <2>2 DEF ItemOK
<1>11. DocumentsAreKnown'
  BY <1>1, <1>3, <1>6, DocumentsStayKnown DEF ItemsInv
<1> QED
  BY <1>7, <1>8, <1>9, <1>10, <1>11 DEF ItemsInv

LEMMA RetryWaybillIInv == ASSUME ItemsInv, NEW i \in Items, RetryWaybill(i) PROVE ItemsInv'
<1>1. /\ ItemsTypeOK /\ Made' = Made /\ edits' \in 0..MaxEdits /\ again' = again \cup {i}
      /\ UNCHANGED <<address, orderEvent, cb, seen, item, docs, submit, lost>>
  BY BoundsAssumption DEF ItemsInv, RetryWaybill, Made, ItemsTypeOK
<1>2. PICK conf \in [Items -> Configs \cup {NoConfig}] : Started("recipient", {i}, conf)
  <2> DEFINE conf == [k \in Items |-> NoConfig]
  <2>1. conf \in [Items -> Configs \cup {NoConfig}]
    OBVIOUS
  <2>2. Started("recipient", {i}, conf)
    BY <1>1, StartsEffect DEF RetryWaybill
  <2> HIDE DEF conf
  <2> QED
    BY <2>1, <2>2
<1>3. /\ \A j \in Jobs : JobOK(j)'
      /\ \A j \in Jobs : job[j].doc \in Made => job'[j].doc = job[j].doc
      /\ \A k \in Items \ {i}, j \in Jobs :
            job'[j].item = k \/ job[j].item = k => job'[j] = job[j]
  <2>1. {i} \in SUBSET Items /\ "recipient" \in {"fetch", "recipient"} /\ UNCHANGED docs
    BY <1>1
  <2> QED
    BY <1>2, <2>1, AfterStart
<1>4. ItemsTypeOK'
  BY <1>1, <1>2 DEF ItemsTypeOK, Started, JobRecord
<1>5. \A s \in Submits : SubmitOK(s)'
  BY <1>1 DEF ItemsInv, SubmitOK
<1>6. ASSUME NEW k \in Items PROVE ItemOK(k)'
  <2>1. ItemOK(k)
    BY DEF ItemsInv
  <2>2. ASSUME k \notin again' PROVE SentOnce(k)'
    <3>1. SentOnce(k) /\ k # i
      BY <1>1, <2>1, <2>2 DEF ItemOK
    <3>2. \A j \in Jobs : job'[j].item = k \/ job[j].item = k => job'[j] = job[j]
      BY <1>3, <3>1
    <3>3. Sent(k)' <=> Sent(k)
      BY <1>1, <3>2 DEF Sent
    <3> QED
      BY <1>1, <3>1, <3>2, <3>3 DEF SentOnce, Configured
  <2> QED
    BY <1>1, <2>1, <2>2 DEF ItemOK
<1>7. DocumentsAreKnown'
  BY <1>1, <1>3, DocumentsStayKnown DEF ItemsInv
<1> QED
  BY <1>3, <1>4, <1>5, <1>6, <1>7 DEF ItemsInv

LEMMA RestartIInv == ASSUME ItemsInv, Restart PROVE ItemsInv'
<1>1. /\ ItemsTypeOK /\ Made' = Made
      /\ UNCHANGED <<address, orderEvent, seen, item, docs, again, edits>>
      /\ submit' = [s \in Submits |-> IdleSubmit] /\ job' = [j \in Jobs |-> IdleJob]
      /\ lost' = lost \cup ({job[j].doc : j \in Jobs} \ {NoDoc})
      /\ cb' = IF cb = "done" THEN cb ELSE "broken"
  BY DEF ItemsInv, Restart, Made
<1>2. /\ IdleJob.item = NoItem /\ IdleJob.doc = NoDoc /\ IdleJob.pc = "idle"
      /\ IdleSubmit.item = NoItem /\ IdleSubmit.pc = "idle"
  BY DEF IdleJob, IdleSubmit
<1>3. /\ NoDoc \notin Made
      /\ lost \subseteq lost' /\ lost' \in SUBSET Numbers
  BY <1>1, Types DEF ItemsTypeOK, JobRecord, Made, NoDoc
<1>4. ItemsTypeOK'
  BY <1>1, <1>3, IdleRecords DEF ItemsTypeOK, JobRecord, SubmitRecord
<1>5. \A j \in Jobs : JobOK(j)'
  BY <1>1, <1>2 DEF JobOK
<1>6. \A s \in Submits : SubmitOK(s)'
  BY <1>1, <1>2 DEF SubmitOK
<1>7. ASSUME NEW i \in Items PROVE ItemOK(i)'
  <2>1. ItemOK(i) /\ \A j \in Jobs : job'[j].item # i
    BY <1>1, <1>2, ItemsAssumption DEF ItemsInv
  <2>2. Sent(i)' => Sent(i)
    BY <1>1, <2>1 DEF Sent
  <2>3. \A s \in Submits : submit'[s].item # i
    BY <1>1, <1>2, ItemsAssumption
  <2>4. cb' = "done" \/ cb' = "broken"
    BY <1>1
  <2>5. ASSUME i \notin again PROVE SentOnce(i)'
    <3>1. SentOnce(i)
      BY <2>1, <2>5 DEF ItemOK
    <3>2. item[i].status = "client-action" => cb' = "done"
      BY <1>1, <3>1 DEF SentOnce
    <3> QED
      BY <1>1, <2>1, <2>2, <2>3, <2>4, <3>1, <3>2 DEF SentOnce
  <2> QED
    BY <1>1, <2>1, <2>5 DEF ItemOK
<1>8. DocumentsAreKnown'
  <2>1. \A j \in Jobs : job[j].doc \in Made => job[j].doc \in lost'
    BY <1>1, <1>3
  <2> QED
    BY <1>1, <1>3, <2>1, DocumentsStayKnown DEF ItemsInv
<1> QED
  BY <1>4, <1>5, <1>6, <1>7, <1>8 DEF ItemsInv

-----------------------------------------------------------------------------

LEMMA NextItemsInv == ASSUME ItemsInv, [ItemsNext]_itemVars PROVE ItemsInv'
<1>1. CASE UNCHANGED itemVars
  BY <1>1 DEF itemVars, ItemsInv, ItemsTypeOK, JobOK, SubmitOK, ItemOK, SentOnce, Sent, Made, Configured,
     DocumentsAreKnown
<1>2. CASE CbReads \/ CbFails \/ OrderEventOpens \/ OrderEventCloses
  <2>1. /\ UNCHANGED <<address, item, docs, submit, job, again, lost, edits>>
        /\ \/ UNCHANGED <<cb, seen>> /\ orderEvent' \in {"none", "open", "closed"}
           \/ UNCHANGED <<orderEvent, seen>> /\ cb' = "broken" /\ cb # "done"
           \/ CbReads
    BY <1>2 DEF CbReads, CbFails, OrderEventOpens, OrderEventCloses
  <2> QED
    BY <2>1, AsideIInv
<1>3. CASE CbDigital \/ CbConfigured \/ CbUnconfigured
  BY <1>3, CbSetsIInv, CbConfiguredIInv
<1>4. CASE \E s \in Submits, i \in Items : SubmitReads(s, i)
  BY <1>4, SubmitReadsIInv
<1>5. CASE \E s \in Submits : SubmitWrites(s) \/ SubmitFails(s)
  BY <1>5, SubmitWritesIInv, SubmitFailsIInv
<1>6. CASE \E j \in Jobs : \/ FetchAddress(j) \/ CreateRecipient(j) \/ CreateWaybill(j)
                           \/ RecordWaybill(j) \/ JobFails(j)
  BY <1>6, JobGoesOnIInv, CreateWaybillIInv, RecordWaybillIInv
<1>7. CASE \E i \in Items : UpdateItem(i) \/ RetryWaybill(i)
  BY <1>7, UpdateItemIInv, RetryWaybillIInv
<1>8. CASE Restart
  BY <1>8, RestartIInv
<1> QED
  BY <1>1, <1>2, <1>3, <1>4, <1>5, <1>6, <1>7, <1>8 DEF ItemsNext

LEMMA ItemsInvariant == ItemsSpec => []ItemsInv
<1>1. ItemsInit => ItemsInv
  BY InitItemsInv
<1>2. ItemsInv /\ [ItemsNext]_itemVars => ItemsInv'
  BY NextItemsInv
<1> QED
  BY <1>1, <1>2, PTL DEF ItemsSpec

\* The variables have their types, whatever the instance.
THEOREM ItemsTypeCorrect == ItemsSpec => []ItemsTypeOK
<1>1. ItemsInv => ItemsTypeOK
  BY DEF ItemsInv
<1> QED
  BY <1>1, ItemsInvariant, PTL

\* Behind the callback, the submissions and their goroutines no item gets two
\* waybills, unless submissions overlap or the panel hands it out again.
THEOREM ItemsAreSentOnce == ItemsSpec => []OneWaybill
<1>1. ItemsInv => OneWaybill
  BY DEF ItemsInv, ItemOK, SentOnce, OneWaybill
<1> QED
  BY <1>1, ItemsInvariant, PTL

\* The waybill on record was made from the configuration the item has.
THEOREM LabelsFitItems == ItemsSpec => []LabelFitsItem
<1>1. ASSUME ItemsInv, NEW i \in Items \ again, item[i].ref # NoDoc
      PROVE  docs[item[i].ref] = [item |-> i, config |-> item[i].config]
  <2>1. ItemOK(i) /\ SentOnce(i)
    BY <1>1 DEF ItemsInv, ItemOK
  <2>2. /\ item[i].ref \in Made /\ docs[item[i].ref].item = i
        /\ docs[item[i].ref].config = item[i].config
    BY <1>1, <2>1 DEF ItemOK, SentOnce
  <2>3. docs[item[i].ref] \in Document
    BY <1>1, <2>2, Types DEF ItemsInv
  <2> QED
    BY <2>2, <2>3 DEF Document
<1>2. ItemsInv => LabelFitsItem
  BY <1>1 DEF LabelFitsItem
<1> QED
  BY <1>2, ItemsInvariant, PTL

\* Every document made at Nova Poshta is accounted for.
THEOREM DocumentsStayAccountedFor == ItemsSpec => []DocumentsAreKnown
<1>1. ItemsInv => DocumentsAreKnown
  BY DEF ItemsInv
<1> QED
  BY <1>1, ItemsInvariant, PTL

\* A settled status moves by the panel, by the callback or by a submission that
\* had read an older one.
LEMMA SettledMoves ==
  ASSUME ItemsInv, [ItemsNext]_itemVars, NEW i \in Items,
         item[i].status \in Settled, item'[i].status # item[i].status
  PROVE  \/ edits' # edits
         \/ cb' # cb
         \/ \E s \in Submits : submit[s].item = i /\ submit[s].stale /\ submit'[s] # submit[s]
<1>1. ItemsTypeOK
  BY DEF ItemsInv
<1>2. CASE \E s \in Submits : SubmitWrites(s)
  <2>1. PICK s \in Submits : SubmitWrites(s)
    BY <1>2
  <2>2. submit[s].pc = "write" /\ submit' = [submit EXCEPT ![s] = IdleSubmit]
    BY <2>1 DEF SubmitWrites
  <2>3. PICK c \in Configs \cup {NoConfig} :
           item' = [item EXCEPT ![submit[s].item].config = c,
                                ![submit[s].item].status = "admin-action"]
    BY <2>1 DEF SubmitWrites
  <2>4. i = submit[s].item
    BY <1>1, <2>3 DEF ItemsTypeOK
  <2>5. submit[s].stale
    BY <2>2, <2>4 DEF ItemsInv, SubmitOK
  <2>6. submit'[s].pc = "idle"
    BY <1>1, <2>2 DEF ItemsTypeOK, IdleSubmit
  <2> QED
    BY <2>2, <2>4, <2>5, <2>6
<1>3. CASE \E k \in Items : UpdateItem(k) \/ RetryWaybill(k)
  BY <1>1, <1>3 DEF UpdateItem, RetryWaybill, ItemsTypeOK
<1>4. CASE CbDigital \/ CbConfigured \/ CbUnconfigured
  BY <1>4 DEF CbDigital, CbConfigured, CbUnconfigured
<1>5. CASE \E j \in Jobs : RecordWaybill(j)
  <2>1. PICK j \in Jobs : RecordWaybill(j)
    BY <1>5
  <2>2. item[i] \in Item
    BY <1>1, Types
  <2>3. item'[i].status = item[i].status
    <3>1. CASE i = job[j].item
      <4>1. item'[i] = [item[i] EXCEPT !.tracking = job[j].doc, !.ref = job[j].doc]
        BY <1>1, <2>1, <3>1 DEF RecordWaybill, ItemsTypeOK
      <4> QED
        BY <2>2, <4>1 DEF Item
    <3>2. CASE i # job[j].item
      BY <1>1, <2>1, <3>2 DEF RecordWaybill, ItemsTypeOK
    <3> QED
      BY <3>1, <3>2
  <2> QED
    BY <2>3
<1>6. CASE UNCHANGED item
  BY <1>6
<1> QED
  BY <1>2, <1>3, <1>4, <1>5, <1>6
     DEF ItemsNext, itemVars, CbReads, CbFails, OrderEventOpens, OrderEventCloses, SubmitReads, SubmitFails,
         FetchAddress, CreateRecipient, CreateWaybill, JobFails, Restart

\* What the panel has settled stays settled.
THEOREM PanelHasTheLastWord == ItemsSpec => PanelDecides
<1>1. ItemsInv /\ [ItemsNext]_itemVars =>
        [\A i \in Items :
           (item[i].status \in {"shipped", "fulfilled", "cancelled"}
              /\ item'[i].status # item[i].status)
           => \/ edits' # edits
              \/ cb' # cb
              \/ \E s \in Submits : submit[s].item = i /\ submit[s].stale /\ submit'[s] # submit[s]
        ]_itemVars
  BY SettledMoves DEF Settled
<1> QED
  BY <1>1, ItemsInvariant, PTL DEF ItemsSpec, PanelDecides

(***************************************************************************)
(*                  The panel's pages, roles and passwords                 *)
(***************************************************************************)

CallRecord == [pc: CallPcs, who: People \cup {Nobody},
               reset: Resets \cup {NoReset}, detail: BOOLEAN,
               prices: BOOLEAN, account: {"none", "live", "snapshot"},
               there: BOOLEAN, revoked: BOOLEAN, old: BOOLEAN,
               joined: BOOLEAN]

Grants == {"create", "role", "hosting", "password", "insert"}
Pages == {"order", "active", "metrics", "snapshot", "shown"}
Confirmations == {"reset", "mark"}

\* What a handler's findings are worth at each of its statements.
CallOK(c) ==
    /\ call[c].pc \in Grants \cup Pages => call[c].who \in People
    /\ call[c].pc \in Confirmations <=> call[c].reset # NoReset
    /\ call[c].prices => call[c].who \in Supers \/ call[c].revoked
    /\ call[c].pc = "order" =>
          call[c].who \in Supers \/ panel[call[c].who] = "active" \/ call[c].revoked
    /\ call[c].there => event # "none"
    /\ call[c].pc = "snapshot" /\ call[c].there => event \in {"closed", "erased"}
    /\ call[c].pc = "shown" /\ call[c].detail /\ call[c].account = "none"
          => ~call[c].there \/ event = "erased"
    /\ call[c].pc = "password" => ~HasOpenEvent(call[c].who) \/ call[c].joined

\* A link that was used is marked, or about to be; one handler has it at a time.
ResetOK(x) ==
    /\ \A c \in Calls : call[c].reset = x => reset[x].st # "none"
    /\ ~reset[x].broken =>
          /\ reset[x].uses <= 1
          /\ \A c, d \in Calls : call[c].reset = x /\ call[d].reset = x => c = d
          /\ \A c \in Calls : call[c].pc = "reset" /\ call[c].reset = x => reset[x].uses = 0
          /\ reset[x].uses > 0 =>
                \/ reset[x].st = "used"
                \/ \E c \in Calls : call[c].pc = "mark" /\ call[c].reset = x

IInv ==
    /\ TypeOK
    /\ \A c \in Calls : CallOK(c)
    /\ \A x \in Resets : ResetOK(x)
    /\ event = "none" => admins = {}

-----------------------------------------------------------------------------
(* What a step does to the handlers.                                       *)

LEMMA IdleIsACall == Idle \in CallRecord
BY DEF Idle, CallRecord, CallPcs

LEMMA CallsHaveTypes ==
  ASSUME TypeOK, NEW c \in Calls
  PROVE  call[c] \in CallRecord /\ call \in [Calls -> CallRecord]
BY DEF TypeOK, CallRecord

LEMMA EndsEffect ==
  ASSUME TypeOK, NEW c \in Calls, Ends(c)
  PROVE  /\ call' \in [Calls -> CallRecord]
         /\ call'[c] = Idle
         /\ \A d \in Calls \ {c} : call'[d] = call[d]
BY CallsHaveTypes, IdleIsACall DEF Ends

LEMMA SetEffect ==
  ASSUME TypeOK, NEW c \in Calls, NEW v \in CallRecord, call' = [call EXCEPT ![c] = v]
  PROVE  /\ call' \in [Calls -> CallRecord]
         /\ call'[c] = v
         /\ \A d \in Calls \ {c} : call'[d] = call[d]
BY CallsHaveTypes

LEMMA GotoEffect ==
  ASSUME TypeOK, NEW c \in Calls, NEW pc \in CallPcs, Goto(c, pc)
  PROVE  /\ call' \in [Calls -> CallRecord]
         /\ call'[c] = [call[c] EXCEPT !.pc = pc]
         /\ \A d \in Calls \ {c} : call'[d] = call[d]
<1>1. [call[c] EXCEPT !.pc = pc] \in CallRecord
  BY CallsHaveTypes DEF CallRecord
<1>2. call' = [call EXCEPT ![c] = [call[c] EXCEPT !.pc = pc]]
  BY CallsHaveTypes DEF Goto
<1> QED
  BY <1>1, <1>2, SetEffect

\* A step of one handler that changes nothing the others rely on.
LEMMA OthersStay ==
  ASSUME IInv, NEW c \in Calls, UNCHANGED event, UNCHANGED admins,
         \A d \in Calls \ {c} : call'[d] = call[d],
         \A d \in Calls \ {c} : panel[call[d].who] = "active" => panel'[call[d].who] = "active",
         CallOK(c)'
  PROVE  \A d \in Calls : CallOK(d)'
<1> SUFFICES ASSUME NEW d \in Calls \ {c} PROVE CallOK(d)'
  OBVIOUS
<1>1. call'[d] = call[d] /\ CallOK(d)
  BY DEF IInv
<1> QED
  BY <1>1 DEF CallOK, HasOpenEvent, Exists

\* The links are not touched, and nobody picks one up or puts one down.
LEMMA LinksStay ==
  ASSUME IInv, UNCHANGED reset,
         \A d \in Calls : /\ call'[d].reset = call[d].reset
                          /\ call[d].pc \in Confirmations \/ call'[d].pc \in Confirmations
                                => call'[d].pc = call[d].pc
  PROVE  \A x \in Resets : ResetOK(x)'
<1> SUFFICES ASSUME NEW x \in Resets PROVE ResetOK(x)'
  OBVIOUS
<1>1. ResetOK(x)
  BY DEF IInv
<1>2. \A d \in Calls : /\ call'[d].pc = "mark" <=> call[d].pc = "mark"
                       /\ call'[d].pc = "reset" <=> call[d].pc = "reset"
  BY DEF Confirmations
<1> QED
  BY <1>1, <1>2 DEF ResetOK

-----------------------------------------------------------------------------

LEMMA InitIInv == Init => IInv
<1> SUFFICES ASSUME Init PROVE IInv
  OBVIOUS
<1>1. TypeOK
  BY MaxChangesAssumption, IdleIsACall DEF Init, TypeOK, NewReset, CallRecord
<1>2. \A c \in Calls : CallOK(c)
  BY DEF Init, CallOK, Idle, Grants, Pages, Confirmations
<1>3. \A x \in Resets : ResetOK(x)
  BY ResetsAssumption DEF Init, ResetOK, Idle, NewReset
<1> QED
  BY <1>1, <1>2, <1>3 DEF IInv, Init

\* A step of one handler that touches neither the role nor a link nor the event.
LEMMA CallStep ==
  ASSUME IInv, NEW c \in Calls,
         call' \in [Calls -> CallRecord], \A d \in Calls \ {c} : call'[d] = call[d],
         UNCHANGED <<panel, reset, event, admins>>,
         pass' \in [People -> {"none", "own", "panel"}], changes' \in 0..MaxChanges,
         call'[c].reset = call[c].reset,
         call[c].pc \in Confirmations \/ call'[c].pc \in Confirmations
            => call'[c].pc = call[c].pc,
         CallOK(c)'
  PROVE  IInv'
<1>1. TypeOK'
  BY DEF IInv, TypeOK, CallRecord
<1>2. \A d \in Calls : CallOK(d)'
  BY OthersStay
<1>3. \A x \in Resets : ResetOK(x)'
  <2>1. UNCHANGED reset
    OBVIOUS
  <2> QED
    BY <2>1, LinksStay
<1>4. event' = "none" => admins' = {}
  BY DEF IInv
<1> QED
  BY <1>1, <1>2, <1>3, <1>4 DEF IInv

LEMMA GrantLooksIInv ==
  ASSUME IInv, NEW c \in Calls, NEW p \in Staff, GrantLooks(c, p) PROVE IInv'
<1> DEFINE v == [Idle EXCEPT !.pc = IF pass[p] = "none" THEN "create" ELSE "role",
                             !.who = p, !.old = pass[p] # "none"]
<1>1. p \in People /\ TypeOK
  BY PeopleAssumption DEF IInv
<1>2. v \in CallRecord
  BY <1>1 DEF Idle, CallRecord, CallPcs
<1>3. /\ call' \in [Calls -> CallRecord] /\ call'[c] = v
      /\ \A d \in Calls \ {c} : call'[d] = call[d]
  BY <1>1, <1>2, SetEffect DEF GrantLooks
<1>4. CallOK(c)'
  BY <1>1, <1>3 DEF CallOK, Idle, Grants, Pages, Confirmations
<1>5. call[c].reset = NoReset
  BY DEF GrantLooks, IInv, CallOK, Confirmations
<1>6. changes' \in 0..MaxChanges
  BY <1>1, MaxChangesAssumption DEF GrantLooks, TypeOK
<1>7. UNCHANGED <<panel, reset, event, admins>> /\ pass' \in [People -> {"none", "own", "panel"}]
  BY <1>1 DEF GrantLooks, TypeOK
<1> QED
  BY <1>3, <1>4, <1>5, <1>6, <1>7, CallStep DEF Idle, GrantLooks, Confirmations

\* The call ends, and was not confirming a reset.
LEMMA EndsIInv ==
  ASSUME IInv, NEW c \in Calls, Ends(c), call[c].pc \notin Confirmations,
         UNCHANGED <<panel, reset, event, admins, changes>>,
         pass' \in [People -> {"none", "own", "panel"}]
  PROVE  IInv'
<1>1. /\ call' \in [Calls -> CallRecord] /\ call'[c] = Idle
      /\ \A d \in Calls \ {c} : call'[d] = call[d]
  BY EndsEffect DEF IInv
<1>2. CallOK(c)'
  BY <1>1 DEF CallOK, Idle, Grants, Pages, Confirmations
<1>3. call[c].reset = NoReset /\ changes' \in 0..MaxChanges
  BY DEF IInv, CallOK, TypeOK
<1> QED
  BY <1>1, <1>2, <1>3, CallStep DEF Idle, Confirmations

\* A grant goes from one of its statements to the next.
LEMMA GrantGoesOn ==
  ASSUME IInv, NEW c \in Calls, NEW pc \in Grants, Goto(c, pc), call[c].pc \in Grants,
         pc = "password" => ~HasOpenEvent(call[c].who),
         UNCHANGED <<panel, reset, event, admins, changes>>,
         pass' \in [People -> {"none", "own", "panel"}]
  PROVE  IInv'
<1>1. pc \in CallPcs /\ TypeOK
  BY DEF Grants, CallPcs, IInv
<1>2. /\ call' \in [Calls -> CallRecord] /\ call'[c] = [call[c] EXCEPT !.pc = pc]
      /\ \A d \in Calls \ {c} : call'[d] = call[d]
  BY <1>1, GotoEffect
<1>3. call[c] \in CallRecord /\ CallOK(c)
  BY <1>1, CallsHaveTypes DEF IInv
<1>4. /\ call'[c].pc = pc /\ call'[c].who = call[c].who /\ call'[c].reset = call[c].reset
      /\ call'[c].prices = call[c].prices /\ call'[c].revoked = call[c].revoked
      /\ call'[c].there = call[c].there
  BY <1>2, <1>3 DEF CallRecord
<1>5. CallOK(c)'
  BY <1>3, <1>4 DEF CallOK, Grants, Pages, Confirmations, HasOpenEvent, Exists
<1>6. changes' \in 0..MaxChanges
  BY <1>1 DEF TypeOK
<1> QED
  BY <1>2, <1>4, <1>5, <1>6, CallStep DEF Grants, Confirmations

LEMMA GrantCreatesIInv == ASSUME IInv, NEW c \in Calls, GrantCreates(c) PROVE IInv'
<1>1. call[c].pc = "create" /\ UNCHANGED <<panel, reset, event, admins, changes>>
  BY DEF GrantCreates
<1>2. pass' \in [People -> {"none", "own", "panel"}]
  BY DEF GrantCreates, IInv, TypeOK
<1>3. Goto(c, "role") \/ Ends(c)
  BY DEF GrantCreates
<1> QED
  BY <1>1, <1>2, <1>3, EndsIInv, GrantGoesOn DEF Grants, Confirmations

LEMMA GrantLooksActiveIInv == ASSUME IInv, NEW c \in Calls, GrantLooksActive(c) PROVE IInv'
<1>1. call[c].pc = "role" /\ UNCHANGED <<panel, reset, event, admins, changes>>
  BY DEF GrantLooksActive
<1>2. pass' \in [People -> {"none", "own", "panel"}]
  BY DEF GrantLooksActive, IInv, TypeOK
<1>3. Goto(c, "hosting") \/ Goto(c, "insert") \/ Ends(c)
  BY DEF GrantLooksActive
<1> QED
  BY <1>1, <1>2, <1>3, EndsIInv, GrantGoesOn DEF Grants, Confirmations

LEMMA GrantLooksEventIInv == ASSUME IInv, NEW c \in Calls, GrantLooksEvent(c) PROVE IInv'
<1>1. call[c].pc = "hosting" /\ UNCHANGED <<panel, reset, event, admins, changes>>
  BY DEF GrantLooksEvent
<1>2. pass' \in [People -> {"none", "own", "panel"}]
  BY DEF GrantLooksEvent, IInv, TypeOK
<1>3. \/ Goto(c, "insert")
      \/ Goto(c, "password") /\ ~HasOpenEvent(call[c].who)
  BY DEF GrantLooksEvent
<1> QED
  BY <1>1, <1>2, <1>3, GrantGoesOn DEF Grants

LEMMA GrantSetsPasswordIInv == ASSUME IInv, NEW c \in Calls, GrantSetsPassword(c) PROVE IInv'
<1>1. call[c].pc = "password" /\ UNCHANGED <<panel, reset, event, admins, changes>>
  BY DEF GrantSetsPassword
<1>2. pass' \in [People -> {"none", "own", "panel"}]
  BY DEF GrantSetsPassword, IInv, TypeOK
<1>3. Goto(c, "insert")
  BY DEF GrantSetsPassword
<1> QED
  BY <1>1, <1>2, <1>3, GrantGoesOn DEF Grants

LEMMA GrantInsertsIInv == ASSUME IInv, NEW c \in Calls, GrantInserts(c) PROVE IInv'
<1>1. /\ call' \in [Calls -> CallRecord] /\ call'[c] = Idle
      /\ \A d \in Calls \ {c} : call'[d] = call[d]
  BY EndsEffect DEF IInv, GrantInserts
<1>2. /\ call[c].pc = "insert" /\ panel' = [panel EXCEPT ![call[c].who] = "active"]
      /\ UNCHANGED <<pass, reset, event, admins, changes>>
  BY DEF GrantInserts
<1>3. TypeOK'
  BY <1>1, <1>2 DEF IInv, TypeOK, CallRecord
<1>4. \A d \in Calls \ {c} : panel[call[d].who] = "active" => panel'[call[d].who] = "active"
  BY <1>2
<1>5. CallOK(c)'
  BY <1>1 DEF CallOK, Idle, Grants, Pages, Confirmations
<1>6. \A d \in Calls : CallOK(d)'
  BY <1>1, <1>2, <1>4, <1>5, OthersStay
<1>7. call[c].reset = NoReset
  BY <1>2 DEF IInv, CallOK, Confirmations
<1>8. \A x \in Resets : ResetOK(x)'
  BY <1>1, <1>2, <1>7, LinksStay DEF Idle, Confirmations
<1> QED
  BY <1>2, <1>3, <1>6, <1>8 DEF IInv

LEMMA RevokeIInv == ASSUME IInv, NEW p \in People, Revoke(p) PROVE IInv'
<1> DEFINE hit(c) == call[c].pc = "order" /\ call[c].who = p
<1>1. \A c \in Calls :
         /\ hit(c) => call'[c] = [call[c] EXCEPT !.revoked = TRUE]
         /\ ~hit(c) => call'[c] = call[c]
  BY DEF Revoke
<1>2. /\ panel' = [panel EXCEPT ![p] = "revoked"] /\ changes' = changes + 1
      /\ changes < MaxChanges /\ UNCHANGED <<pass, reset, event, admins>>
  BY DEF Revoke
<1>3. \A c \in Calls : call[c] \in CallRecord
  BY CallsHaveTypes DEF IInv
<1>4. call' \in [Calls -> CallRecord]
  <2>1. \A c \in Calls : [call[c] EXCEPT !.revoked = TRUE] \in CallRecord
    BY <1>3 DEF CallRecord
  <2> QED
    BY <1>3, <2>1 DEF Revoke
<1>5. TypeOK'
  BY <1>2, <1>4, MaxChangesAssumption DEF IInv, TypeOK, CallRecord
<1>6. \A c \in Calls :
         /\ call'[c].pc = call[c].pc /\ call'[c].who = call[c].who
         /\ call'[c].reset = call[c].reset /\ call'[c].prices = call[c].prices
         /\ call'[c].there = call[c].there /\ call'[c].detail = call[c].detail
         /\ call'[c].account = call[c].account /\ call'[c].joined = call[c].joined
         /\ hit(c) => call'[c].revoked
         /\ call[c].revoked => call'[c].revoked
  BY <1>1, <1>3 DEF CallRecord
<1>7. ASSUME NEW c \in Calls PROVE CallOK(c)'
  <2>1. CallOK(c)
    BY DEF IInv
  <2>2. ~hit(c) /\ call[c].pc = "order" => panel'[call[c].who] = panel[call[c].who]
    BY <1>2
  <2> QED
    BY <1>2, <1>6, <2>1, <2>2 DEF CallOK, HasOpenEvent, Exists
<1>8. \A x \in Resets : ResetOK(x)'
  BY <1>2, <1>6, LinksStay
<1> QED
  BY <1>2, <1>5, <1>7, <1>8 DEF IInv

-----------------------------------------------------------------------------
(* The password reset.                                                     *)

LEMMA RequestResetIInv ==
  ASSUME IInv, NEW x \in Resets, NEW p \in People, RequestReset(x, p) PROVE IInv'
<1>1. /\ reset[x].st = "none" /\ reset' = [reset EXCEPT ![x].st = "sent", ![x].who = p]
      /\ UNCHANGED <<panel, pass, event, admins, call, changes>>
  BY DEF RequestReset
<1>2. TypeOK'
  <2>1. [reset[x] EXCEPT !.st = "sent", !.who = p]
           \in [st: {"none", "sent", "expired", "used"},
               who: People \cup {Nobody}, uses: 0..2, broken: BOOLEAN]
    <3>1. reset[x] \in [st: {"none", "sent", "expired", "used"},
                        who: People \cup {Nobody}, uses: 0..2, broken: BOOLEAN]
      BY DEF IInv, TypeOK
    <3> QED
      BY <3>1
  <2>2. reset' = [reset EXCEPT ![x] = [reset[x] EXCEPT !.st = "sent", !.who = p]]
    BY <1>1 DEF IInv, TypeOK
  <2> QED
    BY <1>1, <2>1, <2>2 DEF IInv, TypeOK
<1>3. \A c \in Calls : CallOK(c)'
  BY <1>1 DEF IInv, CallOK, HasOpenEvent, Exists
<1>4. ASSUME NEW y \in Resets PROVE ResetOK(y)'
  <2>1. ResetOK(y) /\ TypeOK
    BY DEF IInv
  <2>2. reset'[y].uses = reset[y].uses /\ reset'[y].broken = reset[y].broken
    BY <1>1, <2>1 DEF TypeOK
  <2>3. y # x => reset'[y] = reset[y]
    BY <1>1, <2>1 DEF TypeOK
  <2>4. reset'[x].st = "sent"
    BY <1>1, <2>1 DEF TypeOK
  <2> QED
    BY <1>1, <2>1, <2>2, <2>3, <2>4 DEF ResetOK
<1> QED
  BY <1>1, <1>2, <1>3, <1>4 DEF IInv

LEMMA ResetExpiresIInv ==
  ASSUME IInv, NEW x \in Resets, ResetExpires(x) PROVE IInv'
<1>1. /\ reset[x].st = "sent" /\ reset' = [reset EXCEPT ![x].st = "expired"]
      /\ UNCHANGED <<panel, pass, event, admins, call, changes>>
  BY DEF ResetExpires
<1>2. TypeOK'
  BY <1>1 DEF IInv, TypeOK
<1>3. \A c \in Calls : CallOK(c)'
  BY <1>1 DEF IInv, CallOK, HasOpenEvent, Exists
<1>4. ASSUME NEW y \in Resets PROVE ResetOK(y)'
  <2>1. ResetOK(y) /\ TypeOK
    BY DEF IInv
  <2>2. reset'[y].uses = reset[y].uses /\ reset'[y].broken = reset[y].broken
    BY <1>1, <2>1 DEF TypeOK
  <2>3. y # x => reset'[y] = reset[y]
    BY <1>1, <2>1 DEF TypeOK
  <2>4. reset'[x].st = "expired"
    BY <1>1, <2>1 DEF TypeOK
  <2> QED
    BY <1>1, <2>1, <2>2, <2>3, <2>4 DEF ResetOK
<1> QED
  BY <1>1, <1>2, <1>3, <1>4 DEF IInv

LEMMA ConfirmReadsIInv ==
  ASSUME IInv, NEW c \in Calls, NEW x \in Resets, ConfirmReads(c, x) PROVE IInv'
<1> DEFINE v == [Idle EXCEPT !.pc = "reset", !.reset = x]
<1>1. /\ call[c].pc = "idle" /\ reset[x].st = "sent"
      /\ call' = [call EXCEPT ![c] = v]
      /\ reset' = [reset EXCEPT ![x].broken = @ \/ \E d \in Calls : call[d].reset = x]
      /\ UNCHANGED <<panel, pass, event, admins, changes>>
  BY DEF ConfirmReads, Reads
<1>2. v \in CallRecord /\ TypeOK
  BY DEF Idle, CallRecord, CallPcs, IInv
<1>3. /\ call' \in [Calls -> CallRecord] /\ call'[c] = v
      /\ \A d \in Calls \ {c} : call'[d] = call[d]
  BY <1>1, <1>2, SetEffect
<1> DEFINE held == reset[x].broken \/ \E d \in Calls : call[d].reset = x
           w == [reset[x] EXCEPT !.broken = held]
<1>a. held \in BOOLEAN
  BY <1>2 DEF TypeOK
<1>b. reset' = [reset EXCEPT ![x] = w]
  BY <1>1
<1> HIDE DEF held
<1>c. /\ w \in [st: {"none", "sent", "expired", "used"},
               who: People \cup {Nobody}, uses: 0..2, broken: BOOLEAN]
      /\ w.uses = reset[x].uses /\ w.st = reset[x].st /\ w.broken = held
  BY <1>2, <1>a DEF TypeOK
<1>5. /\ reset' \in [Resets -> [st: {"none", "sent", "expired", "used"},
                             who: People \cup {Nobody}, uses: 0..2, broken: BOOLEAN]]
      /\ reset'[x] = w /\ \A y \in Resets \ {x} : reset'[y] = reset[y]
  BY <1>2, <1>b, <1>c DEF TypeOK
<1>4. /\ \A y \in Resets : /\ reset'[y].uses = reset[y].uses
                           /\ reset'[y].st = reset[y].st
                           /\ y # x => reset'[y] = reset[y]
      /\ ~reset'[x].broken => ~reset[x].broken /\ \A d \in Calls : call[d].reset # x
  BY <1>5, <1>c DEF held
<1>6. TypeOK'
  BY <1>1, <1>2, <1>3, <1>5 DEF TypeOK, CallRecord
<1>7. v.pc = "reset" /\ v.reset = x /\ ~v.prices /\ ~v.there
  BY DEF Idle
<1>8. CallOK(c)'
  BY <1>3, <1>7, ResetsAssumption DEF CallOK, Grants, Pages, Confirmations
<1>9. \A d \in Calls : CallOK(d)'
  BY <1>1, <1>3, <1>8, OthersStay
<1>10. ASSUME NEW y \in Resets PROVE ResetOK(y)'
  <2>1. ResetOK(y)
    BY DEF IInv
  <2>2. CASE y # x
    <3>1. \A d \in Calls : call'[d].reset = y => d # c /\ call'[d] = call[d]
      BY <1>3, <1>7, <2>2
    <3>2. call[c].pc \notin {"mark", "reset"}
      BY <1>1
    <3> QED
      BY <1>3, <1>4, <2>1, <2>2, <3>1, <3>2 DEF ResetOK
  <2>3. CASE y = x
    <3>1. ASSUME ~reset'[x].broken
          PROVE  /\ reset'[x].uses = 0
                 /\ \A d \in Calls : call'[d].reset = x => d = c
      <4>1. \A d \in Calls : call[d].reset # x
        BY <1>4, <3>1
      <4>2. reset[x].uses = 0
        <5>1. reset[x].uses \in 0..2 /\ ~(reset[x].uses > 0)
          BY <1>1, <1>2, <1>4, <2>1, <2>3, <3>1, <4>1 DEF ResetOK, TypeOK
        <5> QED
          BY <5>1
      <4> QED
        BY <1>3, <1>4, <4>1, <4>2
    <3> QED
      BY <1>1, <1>4, <2>3, <3>1 DEF ResetOK
  <2> QED
    BY <2>2, <2>3
<1> QED
  BY <1>1, <1>6, <1>9, <1>10 DEF IInv

LEMMA ConfirmSetsPasswordIInv ==
  ASSUME IInv, NEW c \in Calls, ConfirmSetsPassword(c) PROVE IInv'
<1> DEFINE x == call[c].reset
<1>1. /\ call[c].pc = "reset" /\ Goto(c, "mark")
      /\ pass' = [pass EXCEPT ![reset[x].who] = "own"]
      /\ reset' = [reset EXCEPT ![x].uses = IF @ = 0 THEN 1 ELSE 2]
      /\ UNCHANGED <<panel, event, admins, changes>>
  BY DEF ConfirmSetsPassword
<1>2. TypeOK /\ call[c] \in CallRecord /\ CallOK(c)
  BY CallsHaveTypes DEF IInv
<1>3. x \in Resets
  BY <1>1, <1>2 DEF CallRecord, CallOK, Confirmations
<1>4. /\ call' \in [Calls -> CallRecord] /\ call'[c] = [call[c] EXCEPT !.pc = "mark"]
      /\ \A d \in Calls \ {c} : call'[d] = call[d]
  BY <1>1, <1>2, GotoEffect DEF CallPcs
<1>5. /\ call'[c].pc = "mark" /\ call'[c].reset = x
      /\ call'[c].prices = call[c].prices /\ call'[c].revoked = call[c].revoked
      /\ call'[c].there = call[c].there /\ call'[c].who = call[c].who
  BY <1>2, <1>4 DEF CallRecord
<1>6. /\ \A y \in Resets : /\ reset'[y].st = reset[y].st
                           /\ reset'[y].broken = reset[y].broken
                           /\ y # x => reset'[y] = reset[y]
      /\ reset[x].uses = 0 => reset'[x].uses = 1
      /\ reset' \in [Resets -> [st: {"none", "sent", "expired", "used"},
                             who: People \cup {Nobody}, uses: 0..2, broken: BOOLEAN]]
  BY <1>1, <1>2, <1>3 DEF TypeOK
<1>7. TypeOK'
  BY <1>1, <1>2, <1>4, <1>6 DEF TypeOK, CallRecord
<1>8. CallOK(c)'
  BY <1>1, <1>2, <1>3, <1>5, ResetsAssumption DEF CallOK, Grants, Pages, Confirmations
<1>9. \A d \in Calls : CallOK(d)'
  BY <1>1, <1>4, <1>8, OthersStay
<1>10. ASSUME NEW y \in Resets PROVE ResetOK(y)'
  <2>1. ResetOK(y)
    BY DEF IInv
  <2>2. CASE y # x
    <3>1. \A d \in Calls : call'[d].reset = y <=> d # c /\ call[d].reset = y
      BY <1>4, <1>5, <2>2
    <3>2. \A d \in Calls : call[d].reset = y => d # c /\ call'[d] = call[d]
      BY <1>4, <2>2
    <3> QED
      BY <1>4, <1>6, <2>1, <2>2, <3>1, <3>2 DEF ResetOK
  <2>3. CASE y = x
    <3>1. \A d \in Calls : call'[d].reset = call[d].reset
      BY <1>4, <1>5
    <3>2. ASSUME ~reset'[x].broken
          PROVE  /\ reset'[x].uses = 1
                 /\ \A d \in Calls : call[d].reset = x => d = c
      <4>1. ~reset[x].broken
        BY <1>3, <1>6, <3>2
      <4> QED
        BY <1>1, <1>6, <2>1, <2>3, <4>1 DEF ResetOK
    <3> QED
      BY <1>3, <1>5, <1>6, <2>1, <2>3, <3>1, <3>2 DEF ResetOK
  <2> QED
    BY <2>2, <2>3
<1> QED
  BY <1>1, <1>7, <1>9, <1>10 DEF IInv

\* A handler that confirms puts its link down: marked, or broken, or unused.
LEMMA LinkPutDown ==
  ASSUME IInv, NEW c \in Calls, call[c].pc \in Confirmations, Ends(c),
         UNCHANGED <<panel, pass, event, admins, changes>>,
         NEW w \in [st: {"none", "sent", "expired", "used"}, who: People \cup {Nobody},
                    uses: 0..2, broken: BOOLEAN],
         reset' = [reset EXCEPT ![call[c].reset] = w],
         w.uses = reset[call[c].reset].uses,
         ~w.broken => ~reset[call[c].reset].broken,
         w.st # "none",
         call[c].pc = "mark" => w.st = "used" \/ w.broken,
         call[c].pc = "reset" => w.st = reset[call[c].reset].st
  PROVE  IInv'
<1> DEFINE x == call[c].reset
<1>1. TypeOK /\ call[c] \in CallRecord /\ CallOK(c)
  BY CallsHaveTypes DEF IInv
<1>2. x \in Resets
  BY <1>1 DEF CallRecord, CallOK
<1>3. /\ call' \in [Calls -> CallRecord] /\ call'[c] = Idle
      /\ \A d \in Calls \ {c} : call'[d] = call[d]
  BY <1>1, EndsEffect
<1>4. /\ reset' \in [Resets -> [st: {"none", "sent", "expired", "used"},
                             who: People \cup {Nobody}, uses: 0..2, broken: BOOLEAN]]
      /\ reset'[x] = w /\ \A y \in Resets \ {x} : reset'[y] = reset[y]
  BY <1>1, <1>2 DEF TypeOK
<1>5. TypeOK'
  BY <1>1, <1>3, <1>4 DEF TypeOK, CallRecord
<1>6. CallOK(c)'
  BY <1>3 DEF CallOK, Idle, Grants, Pages, Confirmations
<1>7. \A d \in Calls : CallOK(d)'
  BY <1>3, <1>6, OthersStay
<1>8. Idle.reset = NoReset /\ Idle.pc = "idle"
  BY DEF Idle
<1>9. ASSUME NEW y \in Resets PROVE ResetOK(y)'
  <2>1. ResetOK(y)
    BY DEF IInv
  <2>2. \A d \in Calls : call'[d].reset = y => d # c /\ call'[d] = call[d]
    BY <1>3, <1>8, ResetsAssumption
  <2>3. CASE y # x
    <3>1. \A d \in Calls : call[d].reset = y => d # c /\ call'[d] = call[d]
      BY <1>3, <2>3
    <3> QED
      BY <1>4, <2>1, <2>2, <2>3, <3>1 DEF ResetOK
  <2>4. CASE y = x
    <3>1. ASSUME ~w.broken PROVE \A d \in Calls : call'[d].reset # x
      BY <2>1, <2>2, <2>4, <3>1 DEF ResetOK
    <3>2. ASSUME ~w.broken PROVE w.uses <= 1 /\ (w.uses > 0 => w.st = "used")
      <4>1. CASE call[c].pc = "mark"
        BY <2>1, <2>4, <3>2, <4>1 DEF ResetOK
      <4>2. CASE call[c].pc = "reset"
        <5>1. w.uses = 0
          BY <2>1, <2>4, <3>2, <4>2 DEF ResetOK
        <5> QED
          BY <5>1
      <4> QED
        BY <4>1, <4>2 DEF Confirmations
    <3> QED
      BY <1>4, <2>4, <3>1, <3>2 DEF ResetOK
  <2> QED
    BY <2>3, <2>4
<1> QED
  BY <1>5, <1>7, <1>9 DEF IInv

LEMMA ConfirmMarksIInv == ASSUME IInv, NEW c \in Calls, ConfirmMarks(c) PROVE IInv'
<1> DEFINE x == call[c].reset
           w == [reset[x] EXCEPT !.st = "used"]
<1>1. /\ call[c].pc = "mark" /\ Ends(c) /\ UNCHANGED <<panel, pass, event, admins, changes>>
      /\ reset' = [reset EXCEPT ![x].st = "used"]
  BY DEF ConfirmMarks
<1>2. x \in Resets
  BY <1>1, CallsHaveTypes DEF IInv, CallRecord, CallOK, Confirmations
<1>3. reset[x] \in [st: {"none", "sent", "expired", "used"}, who: People \cup {Nobody},
                    uses: 0..2, broken: BOOLEAN]
  BY <1>2 DEF IInv, TypeOK
<1>4. /\ w \in [st: {"none", "sent", "expired", "used"}, who: People \cup {Nobody},
                uses: 0..2, broken: BOOLEAN]
      /\ w.st = "used" /\ w.uses = reset[x].uses /\ w.broken = reset[x].broken
  BY <1>3
<1>5. reset' = [reset EXCEPT ![x] = w]
  BY <1>1
<1> HIDE DEF w
<1> QED
  BY <1>1, <1>4, <1>5, LinkPutDown DEF Confirmations

LEMMA FailsIInv == ASSUME IInv, NEW c \in Calls, Fails(c) PROVE IInv'
<1> DEFINE x == call[c].reset
           w == IF call[c].pc = "mark" THEN [reset[x] EXCEPT !.broken = TRUE] ELSE reset[x]
<1>1. Ends(c) /\ UNCHANGED <<panel, pass, event, admins, changes>> /\ TypeOK
  BY DEF Fails, IInv
<1>2. CASE call[c].pc \notin Confirmations
  BY <1>1, <1>2, EndsIInv DEF Fails, Confirmations, TypeOK
<1>3. CASE call[c].pc \in Confirmations
  <2>1. x \in Resets
    BY <1>3, CallsHaveTypes DEF IInv, CallRecord, CallOK
  <2>2. reset[x] \in [st: {"none", "sent", "expired", "used"}, who: People \cup {Nobody},
                      uses: 0..2, broken: BOOLEAN]
    BY <1>1, <2>1 DEF TypeOK
  <2>3. reset[x].st # "none"
    BY <2>1 DEF IInv, ResetOK
  <2>4. /\ w \in [st: {"none", "sent", "expired", "used"}, who: People \cup {Nobody},
                  uses: 0..2, broken: BOOLEAN]
        /\ w.st = reset[x].st /\ w.uses = reset[x].uses
        /\ call[c].pc = "mark" => w.broken
        /\ call[c].pc # "mark" => w = reset[x]
    BY <2>2
  <2>5. reset' = [reset EXCEPT ![x] = w]
    BY <1>1, <2>1 DEF Fails, TypeOK
  <2> HIDE DEF w
  <2> QED
    BY <1>1, <1>3, <2>3, <2>4, <2>5, LinkPutDown DEF Confirmations
<1> QED
  BY <1>2, <1>3

-----------------------------------------------------------------------------
(* The order's event.                                                      *)

LEMMA EventStepsIInv ==
  ASSUME IInv,
         EventSteps("open", "captured") \/ EventSteps("captured", "closed")
            \/ EventSteps("closed", "erased")
  PROVE  IInv'
<1>1. UNCHANGED <<panel, pass, reset, admins, call, changes>>
  BY DEF EventSteps
<1>2. /\ event # "none" /\ event' # "none"
      /\ Exists(event)' => Exists(event)
      /\ event \in {"closed", "erased"} => event' = "erased"
      /\ event # "erased" /\ event' \in {"captured", "closed", "erased"}
  BY DEF EventSteps, Exists
<1>3. TypeOK'
  BY <1>1, <1>2 DEF IInv, TypeOK
<1>4. \A c \in Calls : CallOK(c)'
  BY <1>1, <1>2 DEF IInv, CallOK, HasOpenEvent
<1>5. \A x \in Resets : ResetOK(x)'
  BY <1>1 DEF IInv, ResetOK
<1> QED
  BY <1>2, <1>3, <1>4, <1>5 DEF IInv

\* Somebody becomes a host of an event that is open, or is opened for him.
LEMMA BecomesHostIInv ==
  ASSUME IInv, NEW p \in People, BecomesHost(p), UNCHANGED <<panel, reset, changes>>,
         \/ event = "none" /\ event' = "open"
         \/ Exists(event) /\ event' = event
  PROVE  IInv'
<1> DEFINE hit(c) == call[c].pc = "password" /\ call[c].who = p
<1>1. /\ \A c \in Calls :
           /\ hit(c) => call'[c] = [call[c] EXCEPT !.joined = TRUE]
           /\ ~hit(c) => call'[c] = call[c]
      /\ admins' = admins \cup {p}
      /\ pass' = [pass EXCEPT ![p] = IF @ = "none" THEN "own" ELSE @]
  BY DEF BecomesHost
<1>2. \A c \in Calls : call[c] \in CallRecord
  BY CallsHaveTypes DEF IInv
<1>3. call' \in [Calls -> CallRecord]
  <2>1. \A c \in Calls : [call[c] EXCEPT !.joined = TRUE] \in CallRecord
    BY <1>2 DEF CallRecord
  <2> QED
    BY <1>2, <2>1 DEF BecomesHost
<1>4. TypeOK'
  BY <1>1, <1>3 DEF IInv, TypeOK, CallRecord
<1>5. \A c \in Calls :
         /\ call'[c].pc = call[c].pc /\ call'[c].who = call[c].who
         /\ call'[c].reset = call[c].reset /\ call'[c].prices = call[c].prices
         /\ call'[c].there = call[c].there /\ call'[c].detail = call[c].detail
         /\ call'[c].account = call[c].account /\ call'[c].revoked = call[c].revoked
         /\ hit(c) => call'[c].joined
         /\ call[c].joined => call'[c].joined
  BY <1>1, <1>2 DEF CallRecord
<1>6. ASSUME NEW c \in Calls PROVE CallOK(c)'
  <2>1. CallOK(c)
    BY DEF IInv
  <2>2. call'[c].pc = "password" => ~HasOpenEvent(call[c].who)' \/ call'[c].joined
    <3>1. CASE hit(c)
      BY <1>5, <3>1
    <3>2. CASE ~hit(c) /\ call[c].pc = "password"
      <4>1. call[c].who \in admins' => call[c].who \in admins
        BY <1>1, <3>2
      <4>2. event = "none" => admins = {}
        BY DEF IInv
      <4> QED
        BY <1>5, <2>1, <3>2, <4>1, <4>2 DEF CallOK, HasOpenEvent, Exists
    <3> QED
      BY <1>5, <3>1, <3>2
  <2> QED
    BY <1>5, <2>1, <2>2 DEF CallOK, Exists
<1>7. \A x \in Resets : ResetOK(x)'
  BY <1>5, LinksStay
<1> QED
  BY <1>4, <1>6, <1>7 DEF IInv, Exists

-----------------------------------------------------------------------------
(* The pages.                                                              *)

LEMMA OpensPageIInv ==
  ASSUME IInv, NEW c \in Calls, NEW p \in People, NEW detail \in BOOLEAN,
         OpensPage(c, p, detail)
  PROVE  IInv'
<1> DEFINE sees == event \notin {"none", "erased"}
           v == [Idle EXCEPT !.pc = "order", !.who = p, !.detail = detail, !.there = sees]
<1>1. /\ call[c].pc = "idle" /\ MayOpenPanel(p)
      /\ call' = [call EXCEPT ![c] = v]
      /\ UNCHANGED <<panel, pass, reset, event, admins, changes>>
  BY DEF OpensPage
<1>2. TypeOK /\ CallOK(c)
  BY DEF IInv
<1>3. sees \in BOOLEAN
  OBVIOUS
<1> HIDE DEF sees
<1>4. /\ v \in CallRecord /\ v.pc = "order" /\ v.who = p /\ v.reset = NoReset
      /\ ~v.prices /\ v.there = sees
  BY <1>3 DEF Idle, CallRecord, CallPcs
<1> HIDE DEF v
<1>5. /\ call' \in [Calls -> CallRecord] /\ call'[c] = v
      /\ \A d \in Calls \ {c} : call'[d] = call[d]
  BY <1>1, <1>2, <1>4, SetEffect
<1>6. CallOK(c)'
  BY <1>1, <1>4, <1>5 DEF CallOK, Grants, Pages, Confirmations, MayOpenPanel, IsOrderAdmin, sees
<1>7. changes' \in 0..MaxChanges /\ pass' \in [People -> {"none", "own", "panel"}]
  BY <1>1, <1>2 DEF TypeOK
<1>8. call[c].reset = NoReset
  BY <1>1, <1>2 DEF CallOK, Confirmations
<1> QED
  BY <1>1, <1>4, <1>5, <1>6, <1>7, <1>8, CallStep DEF Confirmations

\* A page goes on with what it has found out.
LEMMA PageGoesOn ==
  ASSUME IInv, NEW c \in Calls, call[c].pc \in Pages,
         NEW v \in CallRecord, call' = [call EXCEPT ![c] = v],
         UNCHANGED <<panel, pass, reset, event, admins, changes>>,
         v.pc \in Pages \ {"order"}, v.who = call[c].who, v.reset = call[c].reset,
         v.there = call[c].there, v.detail = call[c].detail, v.revoked = call[c].revoked,
         v.prices => call[c].who \in Supers \/ call[c].revoked,
         v.pc = "snapshot" /\ v.there => event \in {"closed", "erased"},
         v.pc = "shown" /\ v.detail /\ v.account = "none" => ~v.there \/ event = "erased"
  PROVE  IInv'
<1>1. TypeOK /\ CallOK(c)
  BY DEF IInv
<1>2. /\ call' \in [Calls -> CallRecord] /\ call'[c] = v
      /\ \A d \in Calls \ {c} : call'[d] = call[d]
  BY <1>1, SetEffect
<1>3. CallOK(c)'
  BY <1>1, <1>2 DEF CallOK, Grants, Pages, Confirmations
<1>4. changes' \in 0..MaxChanges /\ pass' \in [People -> {"none", "own", "panel"}]
  BY <1>1 DEF TypeOK
<1> QED
  BY <1>1, <1>2, <1>3, <1>4, CallStep DEF Pages, Confirmations

LEMMA ReadsOrderIInv == ASSUME IInv, NEW c \in Calls, ReadsOrder(c) PROVE IInv'
<1> DEFINE prices == ~Restricted(call[c].who)
           next == IF call[c].detail THEN "active" ELSE "shown"
           v == [call[c] EXCEPT !.prices = prices, !.pc = next]
<1>1. /\ call[c].pc = "order" /\ call' = [call EXCEPT ![c] = v]
      /\ UNCHANGED <<panel, pass, reset, event, admins, changes>>
  BY DEF ReadsOrder, Shows
<1>2. call[c] \in CallRecord /\ CallOK(c)
  BY CallsHaveTypes DEF IInv
<1>3. prices \in BOOLEAN /\ (prices => call[c].who \in Supers \/ call[c].revoked)
  BY <1>1, <1>2 DEF CallOK, Restricted, IsOrderAdmin
<1> HIDE DEF prices
<1>4. next \in {"active", "shown"} /\ (next = "shown" => ~call[c].detail)
  OBVIOUS
<1> HIDE DEF next
<1>5. /\ v \in CallRecord /\ v.pc = next /\ v.prices = prices /\ v.who = call[c].who
      /\ v.reset = call[c].reset /\ v.there = call[c].there /\ v.detail = call[c].detail
      /\ v.revoked = call[c].revoked
  BY <1>2, <1>3, <1>4 DEF CallRecord, CallPcs
<1> HIDE DEF v
<1>6. v.pc \in Pages \ {"order"} /\ v.pc # "snapshot" /\ (v.pc = "shown" => ~v.detail)
  BY <1>4, <1>5 DEF Pages
<1> QED
  BY <1>1, <1>3, <1>5, <1>6, PageGoesOn DEF Pages

LEMMA PageReadsIInv ==
  ASSUME IInv, NEW c \in Calls, ReadsActive(c) \/ ReadsMetrics(c) \/ ReadsSnapshot(c)
  PROVE  IInv'
<1>1. /\ call[c] \in CallRecord /\ CallOK(c) /\ TypeOK
      /\ UNCHANGED <<panel, pass, reset, event, admins, changes>>
  BY CallsHaveTypes DEF IInv, ReadsActive, ReadsMetrics, ReadsSnapshot
<1>2. CASE ReadsActive(c)
  <2> DEFINE next == IF Exists(event) THEN "metrics" ELSE "snapshot"
             v == [call[c] EXCEPT !.pc = next]
  <2>1. call[c].pc = "active" /\ call' = [call EXCEPT ![c] = v]
    BY <1>2 DEF ReadsActive, Goto
  <2>2. /\ next \in {"metrics", "snapshot"}
        /\ next = "snapshot" /\ call[c].there => event \in {"closed", "erased"}
    BY <1>1 DEF Exists, TypeOK, CallOK
  <2> HIDE DEF next
  <2>3. /\ v \in CallRecord /\ v.pc = next /\ v.prices = call[c].prices
        /\ v.who = call[c].who /\ v.reset = call[c].reset /\ v.there = call[c].there
        /\ v.detail = call[c].detail /\ v.revoked = call[c].revoked
    BY <1>1, <2>2 DEF CallRecord, CallPcs
  <2> HIDE DEF v
  <2>4. /\ v.pc \in Pages \ {"order"} /\ v.pc # "shown"
        /\ v.prices => call[c].who \in Supers \/ call[c].revoked
    BY <1>1, <2>2, <2>3 DEF Pages, CallOK
  <2> QED
    BY <1>1, <2>1, <2>2, <2>3, <2>4, PageGoesOn DEF Pages
<1>3. CASE ReadsMetrics(c) /\ Exists(event)
  <2> DEFINE v == [call[c] EXCEPT !.pc = "shown", !.account = "live"]
  <2>1. call[c].pc = "metrics" /\ call' = [call EXCEPT ![c] = v]
    BY <1>3 DEF ReadsMetrics
  <2>2. /\ v \in CallRecord /\ v.pc = "shown" /\ v.prices = call[c].prices
        /\ v.who = call[c].who /\ v.reset = call[c].reset /\ v.there = call[c].there
        /\ v.detail = call[c].detail /\ v.revoked = call[c].revoked /\ v.account = "live"
    BY <1>1 DEF CallRecord, CallPcs
  <2> HIDE DEF v
  <2>3. v.pc \in Pages \ {"order"} /\ (v.prices => call[c].who \in Supers \/ call[c].revoked)
    BY <1>1, <2>2 DEF Pages, CallOK
  <2> QED
    BY <1>1, <2>1, <2>2, <2>3, PageGoesOn DEF Pages
<1>4. CASE ReadsMetrics(c) /\ ~Exists(event)
  BY <1>1, <1>4, EndsIInv DEF ReadsMetrics, Confirmations, TypeOK
<1>5. CASE ReadsSnapshot(c)
  <2> DEFINE found == IF event = "closed" THEN "snapshot" ELSE "none"
             v == [call[c] EXCEPT !.pc = "shown", !.account = found]
  <2>1. call[c].pc = "snapshot" /\ call' = [call EXCEPT ![c] = v]
    BY <1>5 DEF ReadsSnapshot
  <2>2. /\ found \in {"snapshot", "none"}
        /\ found = "none" => ~call[c].there \/ event = "erased"
    BY <1>1, <2>1 DEF CallOK
  <2> HIDE DEF found
  <2>3. /\ v \in CallRecord /\ v.pc = "shown" /\ v.prices = call[c].prices
        /\ v.who = call[c].who /\ v.reset = call[c].reset /\ v.there = call[c].there
        /\ v.detail = call[c].detail /\ v.revoked = call[c].revoked /\ v.account = found
    BY <1>1, <2>2 DEF CallRecord, CallPcs
  <2> HIDE DEF v
  <2>4. v.pc \in Pages \ {"order"} /\ (v.prices => call[c].who \in Supers \/ call[c].revoked)
    BY <1>1, <2>3 DEF Pages, CallOK
  <2> QED
    BY <1>1, <2>1, <2>2, <2>3, <2>4, PageGoesOn DEF Pages
<1> QED
  BY <1>2, <1>3, <1>4, <1>5

LEMMA PageSentIInv == ASSUME IInv, NEW c \in Calls, PageSent(c) PROVE IInv'
BY EndsIInv DEF PageSent, Confirmations, IInv, TypeOK

-----------------------------------------------------------------------------

LEMMA NextIInv == IInv /\ [Next]_vars => IInv'
<1> SUFFICES ASSUME IInv, [Next]_vars PROVE IInv'
  OBVIOUS
<1>1. ASSUME NEW c \in Calls, Granting(c) PROVE IInv'
  BY <1>1, GrantCreatesIInv, GrantLooksActiveIInv, GrantLooksEventIInv,
     GrantSetsPasswordIInv, GrantInsertsIInv DEF Granting
<1>2. ASSUME NEW c \in Calls, Paging(c) PROVE IInv'
  BY <1>2, ReadsOrderIInv, PageReadsIInv, PageSentIInv DEF Paging
<1>3. ASSUME NEW c \in Calls, Confirming(c) \/ Fails(c) PROVE IInv'
  BY <1>3, ConfirmSetsPasswordIInv, ConfirmMarksIInv, FailsIInv DEF Confirming
<1>4. ASSUME NEW c \in Calls, NEW p \in Staff, GrantLooks(c, p) PROVE IInv'
  BY <1>4, GrantLooksIInv
<1>5. ASSUME NEW c \in Calls, NEW p \in People, NEW detail \in BOOLEAN,
             OpensPage(c, p, detail)
      PROVE  IInv'
  BY <1>5, OpensPageIInv
<1>6. ASSUME NEW c \in Calls, NEW x \in Resets, ConfirmReads(c, x) PROVE IInv'
  BY <1>6, ConfirmReadsIInv
<1>7. ASSUME NEW p \in People, Revoke(p) PROVE IInv'
  BY <1>7, RevokeIInv
<1>8. ASSUME NEW p \in People, EventOpens(p) \/ Joins(p) PROVE IInv'
  BY <1>8, BecomesHostIInv DEF EventOpens, Joins
<1>9. ASSUME NEW p \in People, NEW x \in Resets, RequestReset(x, p) \/ ResetExpires(x)
      PROVE  IInv'
  BY <1>9, RequestResetIInv, ResetExpiresIInv
<1>10. ASSUME NEW x \in Resets, ResetExpires(x) PROVE IInv'
  BY <1>10, ResetExpiresIInv
<1>11. CASE EventCaptured \/ EventCloses \/ EventErased
  BY <1>11, EventStepsIInv DEF EventCaptured, EventCloses, EventErased
<1>12. CASE UNCHANGED vars
  BY <1>12 DEF vars, IInv, TypeOK, CallOK, ResetOK, HasOpenEvent, Exists
<1> QED
  BY <1>1, <1>2, <1>3, <1>4, <1>5, <1>6, <1>7, <1>8, <1>9, <1>10, <1>11, <1>12 DEF Next

LEMMA Invariant == Spec => []IInv
BY InitIInv, NextIInv, PTL DEF Spec

\* TypeOK holds in every reachable state.
THEOREM TypeCorrect == Spec => []TypeOK
<1>1. IInv => TypeOK
  BY DEF IInv
<1> QED
  BY <1>1, Invariant, PTL

\* PricesForSuperAdmins: nobody who comes by the panel role alone is shown the
\* prices, unless he loses the role while his page is being made.
THEOREM PricesStayWithSuperAdmins == Spec => []PricesForSuperAdmins
<1>1. IInv => PricesForSuperAdmins
  BY DEF IInv, CallOK, PricesForSuperAdmins
<1> QED
  BY <1>1, Invariant, PTL

\* AccountNeverBlank: however the closing of the event and the statements of the
\* page interleave, the page finds the event or its snapshot.
THEOREM AccountsAreNeverBlank == Spec => []AccountNeverBlank
<1>1. IInv => AccountNeverBlank
  BY DEF IInv, CallOK, AccountNeverBlank
<1> QED
  BY <1>1, Invariant, PTL

\* LinkWorksOnce: a reset link sets one password, but for overlapping
\* confirmations and a mark that failed.
THEOREM LinksWorkOnce == Spec => []LinkWorksOnce
<1>1. IInv => LinkWorksOnce
  BY DEF IInv, ResetOK, LinkWorksOnce
<1> QED
  BY <1>1, Invariant, PTL

\* HostKeepsPassword: only a grant that found no open event sets a password that
\* was there, so that a host loses it only by becoming one after that look.
THEOREM HostsKeepPasswords == Spec => HostKeepsPassword
<1> DEFINE Keeps == \A p \in People :
             pass[p] = "own" /\ pass'[p] = "panel"
                => ~HasOpenEvent(p) \/ \E c \in Calls : call[c].who = p /\ call[c].joined
<1>1. IInv /\ [Next]_vars => [Keeps]_vars
  <2> SUFFICES ASSUME IInv, Next, NEW p \in People, pass[p] = "own", pass'[p] = "panel"
               PROVE  ~HasOpenEvent(p) \/ \E c \in Calls : call[c].who = p /\ call[c].joined
    BY DEF Keeps
  <2>1. pass \in [People -> {"none", "own", "panel"}]
    BY DEF IInv, TypeOK
  <2>2. PICK c \in Calls : GrantCreates(c) \/ GrantSetsPassword(c)
    <3>1. \A c \in Calls : Fails(c) \/ Paging(c) => pass' = pass
      BY DEF Fails, Paging, ReadsOrder, Shows, ReadsActive, ReadsMetrics, ReadsSnapshot,
             PageSent
    <3>2. \A c \in Calls : GrantLooksActive(c) \/ GrantLooksEvent(c) \/ GrantInserts(c)
                              => pass' = pass
      BY DEF GrantLooksActive, GrantLooksEvent, GrantInserts
    <3>3. \A c \in Calls : Confirming(c) => pass'[p] # "panel"
      BY <2>1 DEF Confirming, ConfirmSetsPassword, ConfirmMarks
    <3>4. \A q \in People : EventOpens(q) \/ Joins(q) => pass'[p] # "panel"
      BY <2>1 DEF EventOpens, Joins, BecomesHost
    <3>5. /\ \A c \in Calls, q \in Staff : GrantLooks(c, q) => pass' = pass
          /\ \A c \in Calls, x \in Resets : ConfirmReads(c, x) => pass' = pass
          /\ \A q \in People : Revoke(q) => pass' = pass
          /\ \A q \in People, x \in Resets : RequestReset(x, q) => pass' = pass
          /\ \A c \in Calls, q \in People, detail \in BOOLEAN :
                OpensPage(c, q, detail) => pass' = pass
      BY DEF GrantLooks, ConfirmReads, Reads, Revoke, RequestReset, OpensPage
    <3>6. /\ \A x \in Resets : ResetExpires(x) => pass' = pass
          /\ EventCaptured \/ EventCloses \/ EventErased => pass' = pass
      BY DEF ResetExpires, EventCaptured, EventCloses, EventErased, EventSteps
    <3>7. pass' # pass
      OBVIOUS
    <3>8. \E c \in Calls : Granting(c)
      BY <3>1, <3>3, <3>4, <3>5, <3>6, <3>7 DEF Next
    <3> QED
      BY <3>2, <3>7, <3>8 DEF Granting
  <2>3. CASE GrantCreates(c)
    BY <2>1, <2>3 DEF GrantCreates
  <2>4. CASE GrantSetsPassword(c)
    <3>1. call[c].pc = "password" /\ call[c].who = p
      BY <2>1, <2>4 DEF GrantSetsPassword
    <3> QED
      BY <3>1 DEF IInv, CallOK
  <2> QED
    BY <2>2, <2>3, <2>4
<1>2. HostKeepsPassword <=> [][Keeps]_vars
  BY PTL DEF HostKeepsPassword
<1> QED
  BY <1>1, <1>2, Invariant, PTL DEF Spec
=============================================================================
