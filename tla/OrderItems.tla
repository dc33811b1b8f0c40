------------------------------ MODULE OrderItems ------------------------------
(***************************************************************************)
(* The items of one paid order on their way to the buyer: the status the   *)
(* payment callback gives them, the configuration the buyer hands in       *)
(* (SubmitBuyerConfig), what the panel writes (UpdateItem), and the Nova    *)
(* Poshta waybills that are made behind them.                              *)
(*                                                                         *)
(* A waybill is two calls to Nova Poshta and an UPDATE, in a goroutine     *)
(* nobody waits for; none of the three looks whether the item has one      *)
(* already.  SubmitBuyerConfig reads the status in one query and writes    *)
(* the item in another.                                                    *)
(***************************************************************************)
EXTENDS Integers, Sequences, FiniteSets

CONSTANTS
    Items,      \* cart_items.uid values of the order
    Physical,   \* those whose product's fullfillment_type is physical
    Configs,    \* buyer_config values
    NoConfig,   \* an empty buyer_config
    NoItem,
    Submits,    \* SubmitBuyerConfig calls that may run at the same time
    Jobs,       \* waybill creations that may run at the same time
    PanelSets,  \* the statuses the panel sets
    MaxDocs,    \* bound: documents made at Nova Poshta
    MaxEdits    \* bound: what the panel does

ASSUME ItemsAssumption == Physical \subseteq Items /\ NoItem \notin Items
ASSUME ConfigsAssumption == NoConfig \notin Configs
ASSUME PanelAssumption ==
    PanelSets \subseteq {"pending", "purchased", "client-action", "admin-action", "shipped",
                        "fulfilled", "cancelled"}
ASSUME BoundsAssumption == MaxDocs \in Nat /\ MaxEdits \in Nat

VARIABLES
    address,    \* purchase_info has what a waybill needs, and so has the env
    orderEvent, \* the order's event: "none", "open" or "closed"
    cb,         \* how far the payment callback has come
    seen,       \* the buyer_config values it has read
    item,       \* the cart_items rows
    docs,       \* the documents made at Nova Poshta
    submit,     \* SubmitBuyerConfig calls
    job,        \* waybill creations
    again,      \* history: items that were given another chance to be sent
    lost,       \* history: documents whose answer or UPDATE failed
    edits

itemVars == <<address, orderEvent, cb, seen, item, docs, submit, job, again, lost, edits>>

Status == {"pending", "purchased", "client-action", "admin-action", "shipped",
           "fulfilled", "cancelled"}
Numbers == 1..MaxDocs
NoDoc == 0
Typed == -1   \* a tracking number the panel typed in

Item == [status: Status, config: Configs \cup {NoConfig},
         tracking: Numbers \cup {NoDoc, Typed}, ref: Numbers \cup {NoDoc}]
Document == [item: Items, config: Configs \cup {NoConfig}]
IdleJob == [pc |-> "idle", item |-> NoItem, config |-> NoConfig, doc |-> NoDoc]
IdleSubmit == [pc |-> "idle", item |-> NoItem, stale |-> FALSE]

ItemsInit ==
    /\ address \in BOOLEAN
    /\ orderEvent = "none"
    /\ cb = "rows"
    /\ seen = [i \in Items |-> NoConfig]
    /\ item \in [Items -> [status: {"pending"}, config: Configs \cup {NoConfig},
                           tracking: {NoDoc}, ref: {NoDoc}]]
    /\ \A i \in Items \ Physical : item[i].config = NoConfig
    /\ docs = <<>>
    /\ submit = [s \in Submits |-> IdleSubmit]
    /\ job = [j \in Jobs |-> IdleJob]
    /\ again = {}
    /\ lost = {}
    /\ edits = 0

-----------------------------------------------------------------------------
(* Making a waybill: tryCreateNPWaybill, retryWaybillForItem.              *)

\* Jobs for the items of "todo", each with its configuration, all started at
\* once.  Without an address they end at once.
Starts(pc, todo, config) ==
    IF ~address THEN UNCHANGED job
    ELSE \E pick \in [todo -> {j \in Jobs : job[j].pc = "idle"}] :
            /\ \A i, k \in todo : pick[i] = pick[k] => i = k
            /\ job' = [j \in Jobs |->
                         IF \E i \in todo : pick[i] = j
                         THEN LET i == CHOOSE i \in todo : pick[i] = j
                              IN  [IdleJob EXCEPT !.pc = pc, !.item = i,
                                                  !.config = config[i]]
                         ELSE job[j]]

\* The goroutine of SubmitBuyerConfig fetches the address of an open event.
FetchAddress(j) ==
    /\ job[j].pc = "fetch"
    /\ job' = [job EXCEPT ![j] = IF orderEvent = "open" THEN [@ EXCEPT !.pc = "recipient"]
                                 ELSE IdleJob]
    /\ UNCHANGED <<address, orderEvent, cb, seen, item, docs, submit, again, lost, edits>>

\* createRecipient
CreateRecipient(j) ==
    /\ job[j].pc = "recipient"
    /\ job' = [job EXCEPT ![j].pc = "document"]
    /\ UNCHANGED <<address, orderEvent, cb, seen, item, docs, submit, again, lost, edits>>

\* CreateWaybill; the answer may get lost after the document is made.
CreateWaybill(j) ==
    /\ job[j].pc = "document"
    /\ Len(docs) < MaxDocs
    /\ docs' = Append(docs, [item |-> job[j].item, config |-> job[j].config])
    /\ \/ /\ job' = [job EXCEPT ![j].pc = "record", ![j].doc = Len(docs) + 1]
          /\ UNCHANGED lost
       \/ /\ job' = [job EXCEPT ![j] = IdleJob]
          /\ lost' = lost \cup {Len(docs) + 1}
    /\ UNCHANGED <<address, orderEvent, cb, seen, item, submit, again, edits>>

\* Mutant of RecordWaybill: the item is taken to be ready for the panel again
RecordWaybillReady(j) ==
    /\ job[j].pc = "record"
    /\ item' = [item EXCEPT ![job[j].item].tracking = job[j].doc,
                            ![job[j].item].ref = job[j].doc,
                            ![job[j].item].status = "admin-action"]
    /\ job' = [job EXCEPT ![j] = IdleJob]
    /\ UNCHANGED <<address, orderEvent, cb, seen, docs, submit, again, lost, edits>>

\* Mutant of RecordWaybill: an item that has a tracking number is left alone
RecordWaybillOnce(j) ==
    /\ job[j].pc = "record"
    /\ item' = [item EXCEPT ![job[j].item] =
                  IF @.tracking = NoDoc
                  THEN [@ EXCEPT !.tracking = job[j].doc, !.ref = job[j].doc] ELSE @]
    /\ job' = [job EXCEPT ![j] = IdleJob]
    /\ UNCHANGED <<address, orderEvent, cb, seen, docs, submit, again, lost, edits>>

RecordWaybill(j) ==
    /\ job[j].pc = "record"
    /\ item' = [item EXCEPT ![job[j].item].tracking = job[j].doc,
                            ![job[j].item].ref = job[j].doc]
    /\ job' = [job EXCEPT ![j] = IdleJob]
    /\ UNCHANGED <<address, orderEvent, cb, seen, docs, submit, again, lost, edits>>

\* A call or a query fails; it is logged and that is all.
JobFails(j) ==
    /\ job[j].pc # "idle"
    /\ job' = [job EXCEPT ![j] = IdleJob]
    /\ lost' = lost \cup ({job[j].doc} \ {NoDoc})
    /\ UNCHANGED <<address, orderEvent, cb, seen, item, docs, submit, again, edits>>

-----------------------------------------------------------------------------
(* The payment callback, once it has recorded the payment.                 *)

Configured == {i \in Physical : seen[i] # NoConfig}

CbReads ==
    /\ cb = "rows"
    /\ seen' = [i \in Items |-> item[i].config]
    /\ cb' = "digital"
    /\ UNCHANGED <<address, orderEvent, item, docs, submit, job, again, lost, edits>>

SetsStatus(todo, status) ==
    item' = [i \in Items |-> IF i \in todo THEN [item[i] EXCEPT !.status = status]
                             ELSE item[i]]

CbDigital ==
    /\ cb = "digital"
    /\ SetsStatus(Items \ Physical, "purchased")
    /\ cb' = "configured"
    /\ UNCHANGED <<address, orderEvent, seen, docs, submit, job, again, lost, edits>>

CbConfigured ==
    /\ cb = "configured"
    /\ SetsStatus(Configured, "admin-action")
    /\ Starts("recipient", Configured, seen)
    /\ cb' = "unconfigured"
    /\ UNCHANGED <<address, orderEvent, seen, docs, submit, again, lost, edits>>

CbUnconfigured ==
    /\ cb = "unconfigured"
    /\ SetsStatus(Physical \ Configured, "client-action")
    /\ cb' = "done"
    /\ UNCHANGED <<address, orderEvent, seen, docs, submit, job, again, lost, edits>>

\* A statement fails: the notification that follows finds the order processed.
CbFails ==
    /\ cb \in {"rows", "digital", "configured", "unconfigured"}
    /\ cb' = "broken"
    /\ UNCHANGED <<address, orderEvent, seen, item, docs, submit, job, again, lost, edits>>

-----------------------------------------------------------------------------
(* The buyer.                                                              *)

\* Signing up with the paid order opens its event; it is closed in the end.
OrderEventOpens ==
    /\ orderEvent = "none"
    /\ orderEvent' = "open"
    /\ UNCHANGED <<address, cb, seen, item, docs, submit, job, again, lost, edits>>

OrderEventCloses ==
    /\ orderEvent = "open"
    /\ orderEvent' = "closed"
    /\ UNCHANGED <<address, cb, seen, item, docs, submit, job, again, lost, edits>>

\* Mutant of SubmitReads: every item of the host's event can be configured
SubmitReadsAny(s, i) ==
    /\ submit[s].pc = "idle"
    /\ orderEvent = "open"
    /\ submit' = [submit EXCEPT ![s] = [pc |-> "write", item |-> i, stale |-> FALSE]]
    /\ UNCHANGED <<address, orderEvent, cb, seen, item, docs, job, again, lost, edits>>

SubmitReads(s, i) ==
    /\ submit[s].pc = "idle"
    /\ orderEvent = "open"
    /\ item[i].status = "client-action"
    /\ submit' = [submit EXCEPT ![s] = [pc |-> "write", item |-> i, stale |-> FALSE]]
    /\ UNCHANGED <<address, orderEvent, cb, seen, item, docs, job, again, lost, edits>>

\* Mutant of SubmitWrites: the waybill is made from the row as it was
SubmitWritesOld(s) ==
    /\ submit[s].pc = "write"
    /\ \E c \in Configs \cup {NoConfig} :
          item' = [item EXCEPT ![submit[s].item].config = c,
                               ![submit[s].item].status = "admin-action"]
    /\ Starts("fetch", {submit[s].item}, [i \in Items |-> item[i].config])
    /\ again' = again \cup {submit[t].item : t \in {u \in Submits \ {s} :
                               submit[u].pc = "write" /\ submit[u].item = submit[s].item}}
    /\ submit' = [submit EXCEPT ![s] = IdleSubmit]
    /\ UNCHANGED <<address, orderEvent, cb, seen, docs, lost, edits>>

\* Whatever the buyer sends is stored; the waybill follows in a goroutine.
\* Another call that has read the status is about to do all of it again.
SubmitWrites(s) ==
    /\ submit[s].pc = "write"
    /\ \E c \in Configs \cup {NoConfig} :
          /\ item' = [item EXCEPT ![submit[s].item].config = c,
                                  ![submit[s].item].status = "admin-action"]
          /\ Starts("fetch", {submit[s].item}, [i \in Items |-> c])
    /\ again' = again \cup {submit[t].item : t \in {u \in Submits \ {s} :
                               submit[u].pc = "write" /\ submit[u].item = submit[s].item}}
    /\ submit' = [submit EXCEPT ![s] = IdleSubmit]
    /\ UNCHANGED <<address, orderEvent, cb, seen, docs, lost, edits>>

SubmitFails(s) ==
    /\ submit[s].pc = "write"
    /\ submit' = [submit EXCEPT ![s] = IdleSubmit]
    /\ UNCHANGED <<address, orderEvent, cb, seen, item, docs, job, again, lost, edits>>

-----------------------------------------------------------------------------
(* The panel.                                                              *)

\* UpdateItem: any of status and tracking_number, whatever the item has now.
UpdateItem(i) ==
    /\ edits < MaxEdits
    /\ edits' = edits + 1
    /\ \E status \in PanelSets \cup {item[i].status}, typed \in BOOLEAN :
          /\ item' = [item EXCEPT ![i].status = status,
                                  ![i].tracking = IF typed THEN Typed ELSE @]
          /\ again' = IF status = "client-action" THEN again \cup {i} ELSE again
          /\ submit' = [s \in Submits |->
                          IF submit[s].item = i /\ status # "client-action"
                          THEN [submit[s] EXCEPT !.stale = TRUE] ELSE submit[s]]
    /\ UNCHANGED <<address, orderEvent, cb, seen, docs, job, lost>>

\* RetryWaybill: with the address, but not the buyer's configuration, and
\* whether or not the item has a waybill.
RetryWaybill(i) ==
    /\ edits < MaxEdits
    /\ edits' = edits + 1
    /\ Starts("recipient", {i}, [k \in Items |-> NoConfig])
    /\ again' = again \cup {i}
    /\ UNCHANGED <<address, orderEvent, cb, seen, item, docs, submit, lost>>

-----------------------------------------------------------------------------
Restart ==
    /\ cb' = IF cb = "done" THEN cb ELSE "broken"
    /\ submit' = [s \in Submits |-> IdleSubmit]
    /\ job' = [j \in Jobs |-> IdleJob]
    /\ lost' = lost \cup ({job[j].doc : j \in Jobs} \ {NoDoc})
    /\ UNCHANGED <<address, orderEvent, seen, item, docs, again, edits>>

ItemsNext ==
    \/ CbReads \/ CbDigital \/ CbConfigured \/ CbUnconfigured \/ CbFails
    \/ OrderEventOpens \/ OrderEventCloses
    \/ \E s \in Submits, i \in Items : SubmitReads(s, i)
    \/ \E s \in Submits : SubmitWrites(s) \/ SubmitFails(s)
    \/ \E j \in Jobs : \/ FetchAddress(j) \/ CreateRecipient(j) \/ CreateWaybill(j)
                       \/ RecordWaybill(j) \/ JobFails(j)
    \/ \E i \in Items : UpdateItem(i) \/ RetryWaybill(i)
    \/ Restart

ItemsSpec == ItemsInit /\ [][ItemsNext]_itemVars

-----------------------------------------------------------------------------
(* Properties.                                                             *)

ItemsTypeOK ==
    /\ address \in BOOLEAN
    /\ orderEvent \in {"none", "open", "closed"}
    /\ cb \in {"rows", "digital", "configured", "unconfigured", "done", "broken"}
    /\ seen \in [Items -> Configs \cup {NoConfig}]
    /\ item \in [Items -> Item]
    /\ docs \in Seq(Document) /\ Len(docs) <= MaxDocs
    /\ submit \in [Submits -> [pc: {"idle", "write"}, item: Items \cup {NoItem},
                               stale: BOOLEAN]]
    /\ job \in [Jobs -> [pc: {"idle", "fetch", "recipient", "document", "record"},
                         item: Items \cup {NoItem}, config: Configs \cup {NoConfig},
                         doc: Numbers \cup {NoDoc}]]
    /\ again \in SUBSET Items
    /\ lost \in SUBSET Numbers
    /\ edits \in 0..MaxEdits

Made == 1..Len(docs)

\* Nobody looks for an earlier waybill, but the statuses alone see to it that
\* an item is sent once: either the callback or one submission starts its
\* waybill, unless two submissions overlap, the panel asks for another, or it
\* hands the item back to the buyer.
OneWaybill ==
    \A i \in Items \ again :
        /\ \A d, e \in Made : docs[d].item = i /\ docs[e].item = i => d = e
        /\ \A d \in Made, j \in Jobs :
              docs[d].item = i /\ job[j].item = i => job[j].doc = d

\* The parcel's label names what the item's configuration says, whoever made it.
LabelFitsItem ==
    \A i \in Items \ again :
        item[i].ref # NoDoc => docs[item[i].ref] = [item |-> i, config |-> item[i].config]

\* A document is on record at its item, or its job is about to record it, or a
\* call failed or the server stopped ("non-fatal"), or the item was sent again.
DocumentsAreKnown ==
    \A d \in Made :
        \/ item[docs[d].item].ref = d
        \/ \E j \in Jobs : job[j].doc = d
        \/ d \in lost
        \/ docs[d].item \in again /\ item[docs[d].item].ref # NoDoc

\* What the panel has settled is not reopened by the buyer or a waybill, except
\* by a submission that had read the status before the panel changed it, and
\* by a callback that was still at work.
PanelDecides ==
    [][\A i \in Items :
         (item[i].status \in {"shipped", "fulfilled", "cancelled"}
            /\ item'[i].status # item[i].status)
         => \/ edits' # edits
            \/ cb' # cb
            \/ \E s \in Submits : submit[s].item = i /\ submit[s].stale /\ submit'[s] # submit[s]
      ]_itemVars
=============================================================================
