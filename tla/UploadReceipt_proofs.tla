------------------------ MODULE UploadReceipt_proofs ------------------------
(***************************************************************************)
(* Proofs about guest uploads, for any number of uploads and of resolvers  *)
(* that run at the same time.  BaseInv holds under every fault; KeepInv    *)
(* needs a browser whose PUTs end before it gives up on them.              *)
(***************************************************************************)
EXTENDS UploadReceipt, TLAPS

\* What HEAD finds has landed, and a resolver past HEAD with a file to keep
\* has seen one that landed and is not empty.
LandedInv ==
    /\ \A u \in object : put[u] = "landed"
    /\ \A r \in Resolvers : pc[r] \in {"query", "compare", "mark"} =>
          put[at[r]] = "landed" /\ file[at[r]] # EmptyFile

BaseInv == TypeOK /\ LandedInv /\ ReceivedLanded

-----------------------------------------------------------------------------
(* Types.                                                                  *)

LEMMA InitTypeOK == Init => TypeOK
BY NoUploadAssumption DEF Init, TypeOK

LEMMA EnterTypeOK ==
  ASSUME TypeOK, NEW r \in Resolvers, NEW u \in Uploads, NEW d \in BOOLEAN,
         Enter(r, u, d)
  PROVE  /\ pc' = [pc EXCEPT ![r] = "head"]
         /\ at' = [at EXCEPT ![r] = u]
         /\ at' \in [Resolvers -> Uploads \cup {NoUpload}]
         /\ \A q \in Resolvers : pc'[q] # "idle" => at'[q] \in Uploads
         /\ done' \in [Resolvers -> BOOLEAN]
         /\ UNCHANGED <<cand, reason>>
BY DEF Enter, TypeOK

LEMMA LeaveTypeOK ==
  ASSUME TypeOK, NEW r \in Resolvers, Leave(r)
  PROVE  /\ pc' \in [Resolvers -> {"idle", "head", "query", "compare", "mark",
                                   "drop", "rm"}]
         /\ at' \in [Resolvers -> Uploads \cup {NoUpload}]
         /\ \A q \in Resolvers : pc'[q] # "idle" => at'[q] \in Uploads
         /\ done' \in [Resolvers -> BOOLEAN]
         /\ cand' \in [Resolvers -> SUBSET Uploads]
         /\ reason' \in [Resolvers -> {"none", "duplicate", "empty", "missing"}]
BY DEF Leave, TypeOK

LEMMA NextTypeOK == TypeOK /\ [Next]_vars => TypeOK'
<1> SUFFICES ASSUME TypeOK, [Next]_vars PROVE TypeOK'
  OBVIOUS
<1> USE DEF Resolvers
<1>1. ASSUME NEW u \in Uploads, Presign(u) PROVE TypeOK'
  BY <1>1 DEF Presign, TypeOK, guest, work, history
<1>2. ASSUME NEW u \in Uploads, SendPut(u) PROVE TypeOK'
  BY <1>2 DEF SendPut, TypeOK, work, history
<1>3. ASSUME NEW u \in Uploads, PutLands(u) PROVE TypeOK'
  BY <1>3 DEF PutLands, TypeOK, work, history
<1>4. ASSUME NEW u \in Uploads, PutEnds(u) PROVE TypeOK'
  BY <1>4 DEF PutEnds, TypeOK, work, history
<1>5. ASSUME NEW u \in Uploads, Ages(u) PROVE TypeOK'
  BY <1>5 DEF Ages, TypeOK, work, history
<1>6. ASSUME NEW u \in Uploads, SweepNext(u) PROVE TypeOK'
  <2>1. Enter(Sweep, u, FALSE) /\ list' = list \ {u}
    BY <1>6 DEF SweepNext
  <2>2. UNCHANGED <<row, trashed, object, file, age, older, put, seen, removing, assured,
                    leaked, crossed>>
    BY <1>6 DEF SweepNext, guest, history
  <2> QED
    BY <2>1, <2>2, EnterTypeOK DEF TypeOK
<1>7. ASSUME NEW u \in Uploads, Trash(u) PROVE TypeOK'
  BY <1>7 DEF Trash, TypeOK, guest, work, history
<1>8. ASSUME NEW u \in Uploads, Restore(u) PROVE TypeOK'
  BY <1>8 DEF Restore, TypeOK, guest, work, history
<1>9. ASSUME NEW u \in Uploads, HostDelete(u) PROVE TypeOK'
  BY <1>9 DEF HostDelete, TypeOK, guest, work, history
<1>10. ASSUME NEW u \in Uploads, HostRemoves(u) PROVE TypeOK'
  BY <1>10 DEF HostRemoves, TypeOK, guest, work
<1>11. ASSUME NEW r \in Confirmers, NEW u \in Uploads, Confirm(r, u) PROVE TypeOK'
  <2>1. UNCHANGED <<row, trashed, object, file, age, older, put, seen, list, removing,
                    leaked, crossed>>
    BY <1>11 DEF Confirm, guest
  <2>2. CASE row[u] = "received"
    BY <1>11, <2>1, <2>2 DEF Confirm, TypeOK, work
  <2>3. CASE row[u] = "pending"
    <3>1. Enter(r, u, seen[u] = "failed") /\ assured' = assured
      BY <1>11, <2>3 DEF Confirm
    <3> QED
      BY <2>1, <3>1, EnterTypeOK DEF TypeOK
  <2> QED
    BY <1>11, <2>2, <2>3 DEF Confirm
<1>12. CASE SweepReads
  BY <1>12 DEF SweepReads, Due, TypeOK, guest, work, history
<1>13. ASSUME NEW r \in Resolvers, Head(r) PROVE TypeOK'
  <2>1. UNCHANGED <<row, trashed, object, file, age, older, put, seen, list, removing,
                    assured, leaked, crossed>>
    BY <1>13 DEF Head, guest, history
  <2>2. CASE Leave(r)
    BY <2>1, <2>2, LeaveTypeOK DEF TypeOK
  <2>3. CASE ~Leave(r)
    BY <1>13, <2>1, <2>3 DEF Head, Goto, TypeOK
  <2> QED
    BY <2>2, <2>3
<1>14. ASSUME NEW r \in Resolvers, Query(r) PROVE TypeOK'
  <2>1. DuplicateCandidates(at[r]) \subseteq Uploads
    BY DEF DuplicateCandidates
  <2> QED
    BY <1>14, <2>1 DEF Query, Goto, TypeOK, guest, history
<1>15. ASSUME NEW r \in Resolvers, Compare(r) PROVE TypeOK'
  BY <1>15 DEF Compare, Goto, TypeOK, guest, history
<1>16. ASSUME NEW r \in Resolvers, Mark(r) PROVE TypeOK'
  <2>1. /\ UNCHANGED <<trashed, object, file, age, older, put, seen, list, removing,
                        leaked, crossed>>
        /\ Leave(r) /\ Assure(r) /\ pc[r] = "mark"
        /\ row' = IF row[at[r]] = "pending"
                  THEN [row EXCEPT ![at[r]] = "received"] ELSE row
    BY <1>16 DEF Mark, guest
  <2>2. assured' \in SUBSET Uploads
    BY <2>1 DEF Assure, TypeOK
  <2> QED
    BY <2>1, <2>2, LeaveTypeOK DEF TypeOK
<1>17. ASSUME NEW r \in Resolvers, Drop(r) PROVE TypeOK'
  <2>1. UNCHANGED <<trashed, object, file, age, older, put, seen, list, removing, assured,
                    leaked, crossed>>
    BY <1>17 DEF Drop, guest, history
  <2>2. row' \in [Uploads -> {"none", "pending", "received", "dropped", "deleted"}]
    BY <1>17 DEF Drop, TypeOK
  <2>3. CASE Leave(r)
    BY <2>1, <2>2, <2>3, LeaveTypeOK DEF TypeOK
  <2>4. CASE ~Leave(r)
    BY <1>17, <2>1, <2>2, <2>4 DEF Drop, Goto, TypeOK
  <2> QED
    BY <2>3, <2>4
<1>18. ASSUME NEW r \in Resolvers, Remove(r) PROVE TypeOK'
  <2>1. UNCHANGED <<row, trashed, file, age, older, put, seen, list, removing>>
    BY <1>18 DEF Remove, guest
  <2>2. /\ object' \in SUBSET Uploads /\ leaked' \in SUBSET Uploads
        /\ crossed' \in SUBSET Uploads
    BY <1>18 DEF Remove, TypeOK
  <2>3. assured' \in SUBSET Uploads
    BY <1>18 DEF Remove, Assure, TypeOK
  <2>4. Leave(r)
    BY <1>18 DEF Remove
  <2> QED
    BY <2>1, <2>2, <2>3, <2>4, LeaveTypeOK DEF TypeOK
<1>19. ASSUME NEW r \in Resolvers, ResolveFails(r) PROVE TypeOK'
  <2>1. UNCHANGED <<row, trashed, object, file, age, older, put, seen, list, removing,
                    assured, leaked, crossed>> /\ Leave(r)
    BY <1>19 DEF ResolveFails, guest, history
  <2> QED
    BY <2>1, LeaveTypeOK DEF TypeOK
<1>20. CASE Restart
  <2>1. leaked' \in SUBSET Uploads
    BY <1>20 DEF Restart, TypeOK
  <2> QED
    BY <1>20, <2>1 DEF Restart, TypeOK, guest
<1>21. CASE UNCHANGED vars
  BY <1>21 DEF vars, TypeOK
<1> QED
  BY <1>1, <1>2, <1>3, <1>4, <1>5, <1>6, <1>7, <1>8, <1>9, <1>10, <1>11, <1>12,
     <1>13, <1>14, <1>15, <1>16, <1>17, <1>18, <1>19, <1>20, <1>21
     DEF Next, Resolving

\* The types of the upload state, whatever the guests, the resolvers and the
\* host do (GuestUpload, Resolve, RunOnce, Delete).
THEOREM TypeCorrect == Spec => []TypeOK
BY InitTypeOK, NextTypeOK, PTL DEF Spec

-----------------------------------------------------------------------------
(* What holds under every fault.                                           *)

\* The steps of everybody but the resolvers.
OthersStep(u) ==
    \/ Presign(u) \/ SendPut(u) \/ PutLands(u) \/ PutEnds(u) \/ Ages(u)
    \/ Trash(u) \/ Restore(u) \/ HostDelete(u) \/ HostRemoves(u)

\* The next-state relation as a list, for case distinctions.
LEMMA NextCases ==
  ASSUME [Next]_vars
  PROVE  \/ \E u \in Uploads : OthersStep(u)
         \/ \E u \in Uploads : SweepNext(u)
         \/ \E r \in Confirmers, u \in Uploads : Confirm(r, u)
         \/ SweepReads
         \/ \E r \in Resolvers : \/ Head(r) \/ Query(r) \/ Compare(r) \/ Mark(r)
                                 \/ Drop(r) \/ Remove(r) \/ ResolveFails(r)
         \/ Restart
         \/ UNCHANGED vars
BY DEF Next, Resolving, OthersStep

\* What a step may do to a row: the guest, a resolver or the host.
LEMMA RowSteps ==
  ASSUME TypeOK, [Next]_vars, NEW u \in Uploads
  PROVE  \/ row'[u] = row[u]
         \/ row[u] = "none" /\ row'[u] = "pending"
         \/ row[u] = "received" /\ row'[u] = "deleted" /\ u \in removing'
         \/ /\ row[u] = "pending" /\ row'[u] = "received"
            /\ \E r \in Resolvers : Mark(r) /\ u = at[r]
         \/ /\ row[u] = "pending" /\ row'[u] = "dropped"
            /\ \E r \in Resolvers : Drop(r) /\ u = at[r]
<1>1. ASSUME NEW w \in Uploads, Presign(w)
      PROVE  \/ row'[u] = row[u]
             \/ row[u] = "none" /\ row'[u] = "pending"
  BY <1>1 DEF Presign, TypeOK
<1>2. ASSUME NEW w \in Uploads, HostDelete(w)
      PROVE  \/ row'[u] = row[u]
             \/ row[u] = "received" /\ row'[u] = "deleted" /\ u \in removing'
  BY <1>2 DEF HostDelete, TypeOK
<1>3. ASSUME NEW w \in Uploads, OthersStep(w)
      PROVE  row' = row \/ Presign(w) \/ HostDelete(w)
  BY <1>3 DEF OthersStep, SendPut, PutLands, PutEnds, Ages, Trash, Restore, HostRemoves
<1>4. ASSUME NEW r \in Resolvers, Mark(r)
      PROVE  row'[u] = row[u] \/ /\ row[u] = "pending" /\ row'[u] = "received"
                                 /\ u = at[r]
  BY <1>4 DEF Mark, TypeOK
<1>5. ASSUME NEW r \in Resolvers, Drop(r)
      PROVE  row'[u] = row[u] \/ /\ row[u] = "pending" /\ row'[u] = "dropped"
                                 /\ u = at[r]
  BY <1>5 DEF Drop, TypeOK
<1>6. CASE \E w \in Uploads : OthersStep(w)
  BY <1>1, <1>2, <1>3, <1>6
<1>7. CASE \E r \in Resolvers : Mark(r) \/ Drop(r)
  BY <1>4, <1>5, <1>7
<1>8. CASE row' = row
  BY <1>8
<1>9. ASSUME NEW r \in Resolvers, Head(r) \/ Query(r) \/ Compare(r) \/ Remove(r)
                                  \/ ResolveFails(r)
      PROVE  row' = row
  BY <1>9 DEF Head, Query, Compare, Remove, ResolveFails
<1>10. ASSUME NEW w \in Uploads, SweepNext(w) PROVE row' = row
  BY <1>10 DEF SweepNext
<1>11. ASSUME NEW r \in Confirmers, NEW w \in Uploads, Confirm(r, w) PROVE row' = row
  BY <1>11 DEF Confirm
<1>12. SweepReads \/ Restart \/ UNCHANGED vars => row' = row
  BY DEF SweepReads, Restart, vars
<1> QED
  BY NextCases, <1>6, <1>7, <1>8, <1>9, <1>10, <1>11, <1>12

\* What a step may do to the browser's side and to the objects.
LEMMA GuestSteps ==
  ASSUME TypeOK, [Next]_vars
  PROVE  /\ file' = file
         /\ \A u \in Uploads :
              /\ put'[u] # put[u] => \/ /\ row[u] # "none"
                                        /\ put[u] = "none" /\ put'[u] = "sent"
                                     \/ PutLands(u) /\ put'[u] = "landed"
              /\ seen'[u] # seen[u] => seen[u] = "waiting"
              /\ u \in object' => u \in object \/ PutLands(u)
<1>1. ASSUME NEW w \in Uploads, SendPut(w) \/ PutLands(w)
      PROVE  /\ file' = file /\ seen' = seen
             /\ \A u \in Uploads :
                  /\ put'[u] # put[u] => \/ /\ row[u] # "none"
                                            /\ put[u] = "none" /\ put'[u] = "sent"
                                         \/ PutLands(u) /\ put'[u] = "landed"
                  /\ u \in object' => u \in object \/ PutLands(u)
  <2>1. CASE SendPut(w)
    BY <2>1 DEF SendPut, TypeOK
  <2>2. CASE PutLands(w)
    <3>1. /\ put' = [put EXCEPT ![w] = "landed"] /\ object' = object \cup {w}
          /\ UNCHANGED <<file, seen>>
      BY <2>2 DEF PutLands
    <3> QED
      BY <2>2, <3>1 DEF TypeOK
  <2> QED
    BY <1>1, <2>1, <2>2
<1>2. ASSUME NEW w \in Uploads, PutEnds(w)
      PROVE  /\ UNCHANGED <<file, put, object>>
             /\ \A u \in Uploads : seen'[u] # seen[u] => seen[u] = "waiting"
  BY <1>2 DEF PutEnds, TypeOK
<1>3. ASSUME NEW w \in Uploads, Presign(w) \/ Ages(w) \/ Trash(w) \/ Restore(w)
                                \/ HostDelete(w) \/ HostRemoves(w) \/ SweepNext(w)
      PROVE  UNCHANGED <<file, put, seen>> /\ object' \subseteq object
  BY <1>3 DEF Presign, Ages, Trash, Restore, HostDelete, HostRemoves, SweepNext, guest
<1>4. ASSUME NEW r \in Confirmers, NEW w \in Uploads, Confirm(r, w)
      PROVE  UNCHANGED <<file, put, seen, object>>
  BY <1>4 DEF Confirm, guest
<1>5. ASSUME NEW r \in Resolvers, \/ Head(r) \/ Query(r) \/ Compare(r) \/ Mark(r)
                                  \/ Drop(r) \/ Remove(r) \/ ResolveFails(r)
      PROVE  UNCHANGED <<file, put, seen>> /\ object' \subseteq object
  BY <1>5 DEF Head, Query, Compare, Mark, Drop, Remove, ResolveFails, guest
<1>6. SweepReads \/ Restart \/ UNCHANGED vars => UNCHANGED <<file, put, seen, object>>
  BY DEF SweepReads, Restart, vars, guest
<1>7. CASE UNCHANGED <<file, put, seen>> /\ object' \subseteq object
  BY <1>7
<1>8. CASE \E w \in Uploads : OthersStep(w)
  BY <1>1, <1>2, <1>3, <1>7, <1>8 DEF OthersStep
<1>9. CASE ~ \E w \in Uploads : OthersStep(w)
  <2>1. UNCHANGED <<file, put, seen>> /\ object' \subseteq object
    BY NextCases, <1>3, <1>4, <1>5, <1>6, <1>9
  <2> QED
    BY <1>7, <2>1
<1> QED
  BY <1>8, <1>9

\* ReceivedRowStays: neither a resolver nor anybody but the host ends a
\* received row (Mark_upload_received, Drop_pending_upload, Delete).
THEOREM ReceivedRowsStay == Spec => ReceivedRowStays
<1>1. TypeOK /\ [Next]_vars =>
        [\A u \in Uploads : row[u] = "received" /\ row'[u] # "received" =>
             row'[u] = "deleted" /\ u \in removing']_vars
  <2> SUFFICES ASSUME TypeOK, [Next]_vars, NEW u \in Uploads,
                      row[u] = "received", row'[u] # "received"
               PROVE  row'[u] = "deleted" /\ u \in removing'
    OBVIOUS
  <2> QED
    BY RowSteps
<1> QED
  BY <1>1, TypeCorrect, PTL DEF Spec, ReceivedRowStays

\* A resolver's upload and its place in Resolve change with its own calls only.
LEMMA ResolverFacts ==
  ASSUME TypeOK, [Next]_vars, NEW r \in Resolvers,
         pc'[r] \in {"query", "compare", "mark"}
  PROVE  /\ at'[r] = at[r] /\ at[r] \in Uploads
         /\ \/ pc[r] \in {"query", "compare", "mark"}
            \/ pc[r] = "head" /\ at[r] \in object /\ file[at[r]] # EmptyFile
<1>1. ASSUME NEW u \in Uploads, Presign(u) \/ SendPut(u) \/ PutLands(u) \/ PutEnds(u)
                                \/ Ages(u) \/ Trash(u) \/ Restore(u)
                                \/ HostDelete(u) \/ HostRemoves(u)
      PROVE  UNCHANGED work
  BY <1>1 DEF Presign, SendPut, PutLands, PutEnds, Ages, Trash, Restore, HostDelete,
              HostRemoves
<1>2. CASE UNCHANGED work
  BY <1>2 DEF work, TypeOK
<1>3. CASE SweepReads \/ UNCHANGED vars
  BY <1>2, <1>3 DEF SweepReads, vars, work
<1>4. ASSUME NEW u \in Uploads, SweepNext(u)
      PROVE  pc' = [pc EXCEPT ![Sweep] = "head"] /\ at' = [at EXCEPT ![Sweep] = u]
  BY <1>4 DEF SweepNext, Enter
<1>5. ASSUME NEW q \in Confirmers, NEW u \in Uploads, Confirm(q, u)
      PROVE  \/ UNCHANGED work
             \/ pc' = [pc EXCEPT ![q] = "head"] /\ at' = [at EXCEPT ![q] = u]
  BY <1>5 DEF Confirm, Enter
<1>6. CASE \E u \in Uploads : SweepNext(u)
  BY <1>4, <1>6 DEF TypeOK, Resolvers
<1>7. CASE \E q \in Confirmers, u \in Uploads : Confirm(q, u)
  BY <1>2, <1>5, <1>7 DEF TypeOK, Resolvers
<1>8. ASSUME NEW q \in Resolvers, Leave(q)
      PROVE  at'[r] = at[r] /\ pc'[r] = pc[r] /\ pc[r] # "idle"
  BY <1>8 DEF Leave, TypeOK
<1>9. CASE \E q \in Resolvers : Mark(q) \/ Remove(q) \/ ResolveFails(q)
  BY <1>8, <1>9 DEF Mark, Remove, ResolveFails, TypeOK
<1>10. CASE \E q \in Resolvers : Drop(q)
  BY <1>8, <1>10 DEF Drop, Goto, TypeOK
<1>11. CASE \E q \in Resolvers : Head(q)
  BY <1>8, <1>11 DEF Head, Goto, TypeOK
<1>12. CASE \E q \in Resolvers : Query(q) \/ Compare(q)
  BY <1>12 DEF Query, Compare, Goto, TypeOK
<1>13. CASE Restart
  BY <1>13 DEF Restart
<1> QED
  BY <1>1, <1>2, <1>3, <1>6, <1>7, <1>9, <1>10, <1>11, <1>12, <1>13
     DEF Next, Resolving

LEMMA NextBaseInv == BaseInv /\ [Next]_vars => BaseInv'
<1> SUFFICES ASSUME BaseInv, [Next]_vars PROVE BaseInv'
  OBVIOUS
<1> USE DEF BaseInv
<1>1. TypeOK'
  BY NextTypeOK
<1>2. ASSUME NEW u \in Uploads, put[u] = "landed"
      PROVE  put'[u] = "landed"
  BY <1>2, GuestSteps
<1>3. ASSUME NEW u \in object'
      PROVE  put'[u] = "landed"
  <2>1. u \in Uploads
    BY <1>1 DEF TypeOK
  <2>2. CASE u \in object
    BY <1>2, <2>1, <2>2 DEF LandedInv
  <2>3. CASE PutLands(u)
    BY <2>1, <2>3 DEF PutLands, TypeOK
  <2> QED
    BY <2>1, <2>2, <2>3, GuestSteps
<1>4. ASSUME NEW r \in Resolvers, pc'[r] \in {"query", "compare", "mark"}
      PROVE  put'[at'[r]] = "landed" /\ file'[at'[r]] # EmptyFile
  <2>1. /\ at'[r] = at[r] /\ at[r] \in Uploads
        /\ \/ pc[r] \in {"query", "compare", "mark"}
           \/ pc[r] = "head" /\ at[r] \in object /\ file[at[r]] # EmptyFile
    BY <1>4, ResolverFacts
  <2> QED
    BY <1>2, <2>1, GuestSteps DEF LandedInv
<1>5. ASSUME NEW u \in Uploads, row'[u] = "received"
      PROVE  put'[u] = "landed" /\ file'[u] # EmptyFile
  <2>1. CASE row[u] = "received"
    BY <1>2, <2>1, GuestSteps DEF ReceivedLanded
  <2>2. CASE row[u] # "received"
    <3>1. PICK r \in Resolvers : Mark(r) /\ u = at[r]
      BY <1>5, <2>2, RowSteps
    <3> QED
      BY <1>2, <3>1, GuestSteps DEF Mark, LandedInv
  <2> QED
    BY <2>1, <2>2
<1> QED
  BY <1>1, <1>3, <1>4, <1>5 DEF LandedInv, ReceivedLanded

LEMMA InitBaseInv == Init => BaseInv
BY InitTypeOK DEF Init, BaseInv, LandedInv, ReceivedLanded

LEMMA BaseInvariant == Spec => []BaseInv
BY InitBaseInv, NextBaseInv, PTL DEF Spec

\* ReceivedLanded: Resolve makes a row visible only for a file that HEAD found
\* with a size, late PUTs included.
THEOREM ReceivedRowsLanded == Spec => []ReceivedLanded
<1>1. BaseInv => ReceivedLanded
  BY DEF BaseInv
<1> QED
  BY <1>1, BaseInvariant, PTL

\* An object goes away by the resolver that dropped its row or by the host.
LEMMA ObjectSteps ==
  ASSUME TypeOK, [Next]_vars, NEW u \in object
  PROVE  /\ u \notin object' => \/ u \in removing
                                \/ \E r \in Resolvers : Remove(r) /\ u = at[r]
         /\ u \in leaked => u \in leaked'
<1>1. ASSUME NEW w \in Uploads, OthersStep(w)
      PROVE  /\ u \notin object' => u \in removing
             /\ u \in leaked => u \in leaked'
  <2>1. CASE HostRemoves(w)
    BY <2>1 DEF HostRemoves
  <2>2. CASE PutLands(w)
    BY <2>2 DEF PutLands, history
  <2>3. CASE ~PutLands(w) /\ ~HostRemoves(w)
    BY <1>1, <2>3 DEF OthersStep, Presign, SendPut, PutEnds, Ages, Trash, Restore,
                      HostDelete, history
  <2> QED
    BY <2>1, <2>2, <2>3
<1>2. ASSUME NEW w \in Uploads, SweepNext(w) PROVE UNCHANGED <<object, leaked>>
  BY <1>2 DEF SweepNext, history
<1>3. ASSUME NEW r \in Confirmers, NEW w \in Uploads, Confirm(r, w)
      PROVE  UNCHANGED <<object, leaked>>
  BY <1>3 DEF Confirm
<1>4. ASSUME NEW r \in Resolvers, \/ Head(r) \/ Query(r) \/ Compare(r) \/ Mark(r)
                                  \/ Drop(r) \/ ResolveFails(r)
      PROVE  UNCHANGED <<object, leaked>>
  BY <1>4 DEF Head, Query, Compare, Mark, Drop, ResolveFails, history
<1>5. ASSUME NEW r \in Resolvers, Remove(r)
      PROVE  /\ u \notin object' => u = at[r]
             /\ u \in leaked => u \in leaked'
  BY <1>5 DEF Remove
<1>6. SweepReads \/ Restart \/ UNCHANGED vars =>
        object' = object /\ leaked \subseteq leaked'
  BY DEF SweepReads, Restart, vars, history
<1> QED
  BY NextCases, <1>1, <1>2, <1>3, <1>4, <1>5, <1>6

\* What a step may add to the rows a removal or the sweep is about to take.
LEMMA ListSteps ==
  ASSUME TypeOK, [Next]_vars, NEW u \in Uploads
  PROVE  /\ u \in removing' => u \in removing \/ row'[u] = "deleted"
         /\ u \in list' => u \in list \/ row[u] = "pending"
<1>1. ASSUME NEW w \in Uploads, OthersStep(w)
      PROVE  list' = list /\ (u \in removing' => u \in removing \/ row'[u] = "deleted")
  <2>1. CASE HostDelete(w)
    BY <2>1 DEF HostDelete, TypeOK
  <2>2. CASE HostRemoves(w)
    BY <2>2 DEF HostRemoves
  <2>3. CASE ~HostDelete(w) /\ ~HostRemoves(w)
    BY <1>1, <2>3 DEF OthersStep, Presign, SendPut, PutLands, PutEnds, Ages, Trash,
                      Restore
  <2> QED
    BY <2>1, <2>2, <2>3
<1>2. ASSUME NEW w \in Uploads, SweepNext(w)
      PROVE  removing' = removing /\ list' \subseteq list
  BY <1>2 DEF SweepNext
<1>3. ASSUME NEW r \in Confirmers, NEW w \in Uploads, Confirm(r, w)
      PROVE  UNCHANGED <<removing, list>>
  BY <1>3 DEF Confirm
<1>4. ASSUME NEW r \in Resolvers, \/ Head(r) \/ Query(r) \/ Compare(r) \/ Mark(r)
                                  \/ Drop(r) \/ Remove(r) \/ ResolveFails(r)
      PROVE  UNCHANGED <<removing, list>>
  BY <1>4 DEF Head, Query, Compare, Mark, Drop, Remove, ResolveFails
<1>5. Restart \/ UNCHANGED vars => removing' \subseteq removing /\ list' \subseteq list
  BY DEF Restart, vars
<1>6. SweepReads => /\ removing' = removing
                    /\ u \in list' => row[u] = "pending"
  BY DEF SweepReads, Due
<1> QED
  BY NextCases, <1>1, <1>2, <1>3, <1>4, <1>5, <1>6

-----------------------------------------------------------------------------
(* The only copy of a file.                                                *)

\* Resolve may take the object of u away: there is another upload of the file, or
\* nothing in it.
Pointless(u) ==
    \/ file[u] = EmptyFile
    \/ \E v \in Uploads : v # u /\ SameFile(u, v)

CopyResolver(r) ==
    /\ pc[r] # "compare" => cand[r] = {}
    /\ at[r] \notin cand[r]
    /\ pc[r] = "drop" => reason[r] = "missing" \/ Pointless(at[r])
    /\ pc[r] = "rm" => Pointless(at[r])

\* A file that landed stays until the host deletes it, unless it is pointless.
CopyInv ==
    /\ BaseInv
    /\ \A r \in Resolvers : CopyResolver(r)
    /\ \A u \in removing : row[u] = "deleted"
    /\ \A u \in Uploads :
          put[u] = "landed" => u \in object \/ row[u] = "deleted" \/ Pointless(u)

LEMMA InitCopyInv == Init => CopyInv
BY InitBaseInv, NoUploadAssumption DEF Init, CopyInv, CopyResolver

LEMMA PointlessStays ==
  ASSUME TypeOK, [Next]_vars, NEW u \in Uploads, Pointless(u)
  PROVE  Pointless(u)'
BY GuestSteps DEF Pointless, SameFile

LEMMA NextCopyResolver ==
  ASSUME CopyInv, [Next]_vars, NEW r \in Resolvers
  PROVE  CopyResolver(r)'
<1> DEFINE Same == /\ pc'[r] = pc[r] /\ at'[r] = at[r] /\ cand'[r] = cand[r]
                   /\ reason'[r] = reason[r]
           Away == pc'[r] \in {"idle", "head"} /\ cand'[r] = {}
<1>0. TypeOK /\ TypeOK' /\ CopyResolver(r)
  BY NextTypeOK DEF CopyInv, BaseInv
<1>1. CASE Same
  <2>1. file' = file
    BY <1>0, GuestSteps
  <2> QED
    BY <1>0, <1>1, <2>1 DEF CopyResolver, Pointless, SameFile
<1>2. CASE Away
  BY <1>2 DEF CopyResolver
<1>3. UNCHANGED work => Same
  BY DEF work
<1>4. ASSUME NEW u \in Uploads, OthersStep(u) PROVE Same
  BY <1>3, <1>4 DEF OthersStep, Presign, SendPut, PutLands, PutEnds, Ages, Trash,
                    Restore, HostDelete, HostRemoves
<1>5. SweepReads \/ UNCHANGED vars => Same
  BY <1>3 DEF SweepReads, vars, work
<1>6. ASSUME NEW q \in Resolvers, NEW u \in Uploads, NEW d \in BOOLEAN,
             pc[q] = "idle", Enter(q, u, d)
      PROVE  Same \/ Away
  BY <1>0, <1>6 DEF Enter, TypeOK, CopyResolver
<1>7. ASSUME NEW u \in Uploads, SweepNext(u) PROVE Same \/ Away
  BY <1>6, <1>7 DEF SweepNext, Resolvers
<1>8. ASSUME NEW q \in Confirmers, NEW u \in Uploads, Confirm(q, u) PROVE Same \/ Away
  BY <1>3, <1>6, <1>8 DEF Confirm, Resolvers
<1>9. ASSUME NEW q \in Resolvers, Leave(q) PROVE Same \/ Away
  BY <1>0, <1>9 DEF Leave, TypeOK
<1>10. ASSUME NEW q \in Resolvers, Head(q) PROVE CopyResolver(r)'
  <2>1. CASE Leave(q)
    BY <1>1, <1>2, <1>9, <2>1
  <2>2. CASE ~Leave(q)
    <3>1. /\ UNCHANGED <<at, cand, file>> /\ pc[q] = "head"
          /\ \/ pc' = [pc EXCEPT ![q] = "query"] /\ reason' = reason
             \/ /\ pc' = [pc EXCEPT ![q] = "drop"] /\ file[at[q]] = EmptyFile
                /\ reason' = [reason EXCEPT ![q] = "empty"]
             \/ /\ pc' = [pc EXCEPT ![q] = "drop"]
                /\ reason' = [reason EXCEPT ![q] = "missing"]
      BY <1>10, <2>2 DEF Head, Goto, guest
    <3>2. CASE q # r
      BY <1>0, <1>1, <3>1, <3>2 DEF TypeOK
    <3>3. CASE q = r
      BY <1>0, <3>1, <3>3 DEF TypeOK, CopyResolver, Pointless
    <3> QED
      BY <3>2, <3>3
  <2> QED
    BY <2>1, <2>2
<1>11. ASSUME NEW q \in Resolvers, Query(q) PROVE CopyResolver(r)'
  <2>1. /\ UNCHANGED <<at, reason>> /\ pc' = [pc EXCEPT ![q] = "compare"]
        /\ cand' = [cand EXCEPT ![q] = DuplicateCandidates(at[q])]
    BY <1>11 DEF Query, Goto
  <2>2. at[q] \notin DuplicateCandidates(at[q])
    BY DEF DuplicateCandidates
  <2>3. CASE q # r
    BY <1>0, <1>1, <2>1, <2>3 DEF TypeOK
  <2>4. CASE q = r
    BY <1>0, <2>1, <2>2, <2>4 DEF TypeOK, CopyResolver
  <2> QED
    BY <2>3, <2>4
<1>12. ASSUME NEW q \in Resolvers, Compare(q) PROVE CopyResolver(r)'
  <2>1. /\ UNCHANGED <<at, file>> /\ cand' = [cand EXCEPT ![q] = {}]
        /\ \/ /\ pc' = [pc EXCEPT ![q] = "drop"]
              /\ {c \in cand[q] \cap object : file[c] = file[at[q]]} # {}
           \/ pc' = [pc EXCEPT ![q] = "mark"]
        /\ UNCHANGED reason \/ reason' = [reason EXCEPT ![q] = "duplicate"]
    BY <1>12 DEF Compare, Goto, guest
  <2>2. CASE q # r
    BY <1>0, <1>1, <2>1, <2>2 DEF TypeOK
  <2>3. CASE q = r
    <3>1. ASSUME NEW c \in cand[r], file[c] = file[at[r]] PROVE Pointless(at[r])'
      BY <1>0, <2>1, <3>1 DEF TypeOK, CopyResolver, Pointless, SameFile
    <3> QED
      BY <1>0, <2>1, <2>3, <3>1 DEF TypeOK, CopyResolver, Pointless
  <2> QED
    BY <2>2, <2>3
<1>13. ASSUME NEW q \in Resolvers, Drop(q) PROVE CopyResolver(r)'
  <2>1. CASE Leave(q)
    BY <1>1, <1>2, <1>9, <2>1
  <2>2. CASE ~Leave(q)
    <3>1. /\ UNCHANGED <<at, done, cand, reason, file>> /\ pc[q] = "drop"
          /\ pc' = [pc EXCEPT ![q] = "rm"] /\ reason[q] # "missing"
      BY <1>13, <2>2 DEF Drop, Goto, guest
    <3>2. CASE q # r
      BY <1>0, <1>1, <3>1, <3>2 DEF TypeOK
    <3>3. CASE q = r
      BY <1>0, <3>1, <3>3 DEF TypeOK, CopyResolver, Pointless, SameFile
    <3> QED
      BY <3>2, <3>3
  <2> QED
    BY <2>1, <2>2
<1>14. ASSUME NEW q \in Resolvers, Mark(q) \/ Remove(q) \/ ResolveFails(q)
       PROVE  CopyResolver(r)'
  BY <1>1, <1>2, <1>9, <1>14 DEF Mark, Remove, ResolveFails
<1>15. CASE Restart
  BY <1>2, <1>15 DEF Restart
<1> QED
  BY NextCases, <1>1, <1>2, <1>4, <1>5, <1>7, <1>8, <1>10, <1>11, <1>12, <1>13, <1>14,
     <1>15

LEMMA NextCopyInv == CopyInv /\ [Next]_vars => CopyInv'
<1> SUFFICES ASSUME CopyInv, [Next]_vars PROVE CopyInv'
  OBVIOUS
<1>0. TypeOK /\ BaseInv'
  BY NextBaseInv DEF CopyInv, BaseInv
<1>1. \A r \in Resolvers : CopyResolver(r)'
  BY NextCopyResolver
<1>2. ASSUME NEW u \in removing' PROVE row'[u] = "deleted"
  <2>1. u \in Uploads
    BY <1>0, <1>2 DEF BaseInv, TypeOK
  <2>2. row[u] = "deleted" => row'[u] = "deleted"
    BY <1>0, <2>1, RowSteps
  <2> QED
    BY <1>0, <1>2, <2>1, <2>2, ListSteps DEF CopyInv
<1>3. ASSUME NEW u \in Uploads, put'[u] = "landed"
      PROVE  u \in object' \/ row'[u] = "deleted" \/ Pointless(u)'
  <2>1. row[u] = "deleted" => row'[u] = "deleted"
    BY <1>0, RowSteps
  <2>2. Pointless(u) => Pointless(u)'
    BY <1>0, PointlessStays
  <2>3. CASE put[u] # "landed"
    <3>1. PutLands(u)
      BY <1>0, <1>3, <2>3, GuestSteps
    <3> QED
      BY <3>1 DEF PutLands
  <2>4. CASE put[u] = "landed" /\ u \in object /\ u \notin object'
    <3>1. CASE u \in removing
      BY <2>1, <3>1 DEF CopyInv
    <3>2. ASSUME NEW r \in Resolvers, Remove(r), u = at[r] PROVE Pointless(u)
      BY <3>2 DEF Remove, CopyInv, CopyResolver
    <3> QED
      BY <1>0, <2>2, <2>4, <3>1, <3>2, ObjectSteps
  <2> QED
    BY <2>1, <2>2, <2>3, <2>4 DEF CopyInv
<1> QED
  BY <1>0, <1>1, <1>2, <1>3 DEF CopyInv

\* OnlyCopyHasObject: a photo in the gallery whose file nobody uploaded again has its
\* object, under every fault, late PUTs included (Resolve, Drop_pending_upload,
\* Delete).
THEOREM OnlyCopiesStay == Spec => []OnlyCopyHasObject
<1>1. Init => CopyInv
  BY InitCopyInv
<1>2. CopyInv /\ [Next]_vars => CopyInv'
  BY NextCopyInv
<1>3. CopyInv => OnlyCopyHasObject
  BY DEF CopyInv, BaseInv, ReceivedLanded, OnlyCopyHasObject, Visible, Pointless
<1> QED
  BY <1>1, <1>2, <1>3, PTL DEF Spec

-----------------------------------------------------------------------------
(* What holds when no PUT lands after the browser gave up on it.           *)

NoLatePut == "late" \notin Faults

\* The file of u has, or had until the host deleted it, a row in the gallery -
\* that of another upload.
Held(u) == \E v \in Uploads : SameFile(u, v) /\ row[v] \in {"received", "deleted"}
Elsewhere(u) ==
    \E v \in Uploads : v # u /\ SameFile(u, v) /\ row[v] \in {"received", "deleted"}

\* The file of u will never arrive.
GivenUp(u) == put[u] # "landed" /\ seen[u] = "failed"

\* Why a resolver may drop the row it works on.
Verdict(r) ==
    \/ reason[r] = "duplicate" /\ put[at[r]] = "landed" /\ Elsewhere(at[r])
    \/ reason[r] = "empty" /\ put[at[r]] = "landed" /\ file[at[r]] = EmptyFile
    \/ /\ reason[r] = "missing" /\ pc[r] = "drop"
       /\ row[at[r]] = "pending" => GivenUp(at[r])

ResolverInv ==
    \A r \in Resolvers : pc[r] # "idle" =>
        /\ row[at[r]] # "none"
        /\ done[r] => seen[at[r]] = "failed"
        /\ pc[r] \in {"drop", "rm"} => Verdict(r)
        /\ pc[r] = "rm" => row[at[r]] # "pending"

CandInv ==
    \A r \in Resolvers : \A c \in cand[r] : row[c] \in {"received", "deleted"}

\* A row was dropped because its file is kept elsewhere, is empty or will
\* never come; the object of a row that waits for its receipt is not touched.
RowInv ==
    \A u \in Uploads :
        /\ row[u] = "none" => put[u] = "none"
        /\ row[u] = "pending" /\ put[u] = "landed" => u \in object
        /\ row[u] = "deleted" => put[u] = "landed"
        /\ row[u] = "dropped" =>
              \/ put[u] = "landed" /\ (Held(u) \/ file[u] = EmptyFile)
              \/ GivenUp(u)
        /\ u \in removing => row[u] = "deleted"
        /\ u \in list => row[u] # "none"

\* The object of a received row is there, or was taken away because another row
\* has the file.
StoreInv ==
    /\ \A u \in Uploads : row[u] = "received" => u \in object \/ u \in crossed
    /\ \A u \in crossed : row[u] \in {"received", "deleted"} /\ Elsewhere(u)

AssuredHeld == \A u \in assured : Held(u)

KeepInv ==
    /\ BaseInv
    /\ CopyInv
    /\ ResolverInv
    /\ CandInv
    /\ RowInv
    /\ NoOrphanObject
    /\ StoreInv
    /\ AssuredHeld

LEMMA InitKeepInv == Init => KeepInv
BY InitBaseInv, InitCopyInv
   DEF Init, KeepInv, ResolverInv, CandInv, RowInv, NoOrphanObject, StoreInv, AssuredHeld

\* Whoever has a row in the gallery has a copy in the storage: a copy that was
\* taken away names another one, and two that were taken away are the exception.
LEMMA HeldIsKept ==
  ASSUME KeepInv, NEW u \in Uploads, Held(u)
  PROVE  Kept(u)
<1>1. PICK v \in Uploads : SameFile(u, v) /\ row[v] \in {"received", "deleted"}
  BY DEF Held
<1>2. CASE row[v] = "deleted" \/ v \in object
  BY <1>1, <1>2 DEF Kept
<1>3. CASE row[v] = "received" /\ v \notin object
  <2>1. v \in crossed /\ Elsewhere(v)
    BY <1>3 DEF KeepInv, StoreInv
  <2>2. PICK w \in Uploads : /\ w # v /\ SameFile(v, w)
                             /\ row[w] \in {"received", "deleted"}
    BY <2>1 DEF Elsewhere
  <2>3. SameFile(u, w)
    BY <1>1, <2>2 DEF SameFile
  <2>4. row[w] = "deleted" \/ w \in object \/ w \in crossed
    BY <2>2 DEF KeepInv, StoreInv
  <2> QED
    BY <1>1, <2>1, <2>2, <2>3, <2>4 DEF Kept
<1> QED
  BY <1>1, <1>2, <1>3

LEMMA ElsewhereIsHeld ==
  ASSUME NEW u \in Uploads, Elsewhere(u)
  PROVE  Held(u)
BY DEF Elsewhere, Held

\* What no step undoes.
LEMMA Stable ==
  ASSUME TypeOK, NoLatePut, [Next]_vars, NEW u \in Uploads
  PROVE  /\ row[u] # "none" => row'[u] # "none"
         /\ row[u] \notin {"none", "pending"} => row'[u] \notin {"none", "pending"}
         /\ row[u] \in {"received", "deleted"} => row'[u] \in {"received", "deleted"}
         /\ put[u] = "landed" => put'[u] = "landed"
         /\ seen[u] = "failed" => seen'[u] = "failed"
         /\ GivenUp(u) => GivenUp(u)'
         /\ Held(u) => Held(u)'
         /\ Elsewhere(u) => Elsewhere(u)'
         /\ file'[u] = file[u]
<1>1. /\ row[u] # "none" => row'[u] # "none"
      /\ row[u] \notin {"none", "pending"} => row'[u] \notin {"none", "pending"}
  BY RowSteps
<1>2. \A v \in Uploads : row[v] \in {"received", "deleted"} =>
                            row'[v] \in {"received", "deleted"}
  BY RowSteps
<1>3. /\ put[u] = "landed" => put'[u] = "landed"
      /\ seen[u] = "failed" => seen'[u] = "failed"
      /\ file' = file
  BY GuestSteps
<1>4. ASSUME GivenUp(u) PROVE GivenUp(u)'
  <2>1. ~PutLands(u)
    BY <1>4 DEF GivenUp, PutLands, NoLatePut
  <2> QED
    BY <1>3, <1>4, <2>1, GuestSteps DEF GivenUp
<1>5. /\ Held(u) => Held(u)'
      /\ Elsewhere(u) => Elsewhere(u)'
  BY <1>2, <1>3 DEF Held, Elsewhere, SameFile
<1> QED
  BY <1>1, <1>2, <1>3, <1>4, <1>5

\* What a step may do to one resolver.
LEMMA ResolverSteps ==
  ASSUME KeepInv, [Next]_vars, NEW r \in Resolvers
  PROVE  \/ /\ pc'[r] = pc[r] /\ at'[r] = at[r] /\ done'[r] = done[r]
            /\ cand'[r] = cand[r] /\ reason'[r] = reason[r]
         \/ /\ pc'[r] = "idle" /\ cand'[r] = {}
            /\ pc[r] = "rm" => Remove(r) \/ Restart
         \/ /\ pc[r] = "idle" /\ pc'[r] = "head"
            /\ at'[r] \in Uploads /\ row[at'[r]] # "none"
            /\ done'[r] => seen[at'[r]] = "failed"
            /\ cand'[r] = cand[r]
         \/ /\ at'[r] = at[r] /\ done'[r] = done[r]
            /\ Head(r) \/ Query(r) \/ Compare(r) \/ Drop(r)
<1> DEFINE Same == /\ pc'[r] = pc[r] /\ at'[r] = at[r] /\ done'[r] = done[r]
                   /\ cand'[r] = cand[r] /\ reason'[r] = reason[r]
           Ended == pc'[r] = "idle" /\ cand'[r] = {}
           Entered == /\ pc[r] = "idle" /\ pc'[r] = "head"
                      /\ at'[r] \in Uploads /\ row[at'[r]] # "none"
                      /\ done'[r] => seen[at'[r]] = "failed"
                      /\ cand'[r] = cand[r]
           Moved == /\ at'[r] = at[r] /\ done'[r] = done[r]
                    /\ Head(r) \/ Query(r) \/ Compare(r) \/ Drop(r)
<1>0. TypeOK
  BY DEF KeepInv, BaseInv
<1>1. UNCHANGED work => Same
  BY DEF work
<1>2. ASSUME NEW u \in Uploads, OthersStep(u) PROVE Same
  BY <1>1, <1>2 DEF OthersStep, Presign, SendPut, PutLands, PutEnds, Ages, Trash,
                    Restore, HostDelete, HostRemoves
<1>3. SweepReads \/ UNCHANGED vars => Same
  BY <1>1 DEF SweepReads, vars, work
<1>4. ASSUME NEW q \in Resolvers, NEW u \in Uploads, NEW d \in BOOLEAN,
             pc[q] = "idle", row[u] # "none", d => seen[u] = "failed",
             Enter(q, u, d)
      PROVE  Same \/ Entered
  BY <1>0, <1>4 DEF Enter, TypeOK
<1>5. ASSUME NEW u \in Uploads, SweepNext(u) PROVE Same \/ Entered
  BY <1>4, <1>5 DEF SweepNext, KeepInv, RowInv, Resolvers
<1>6. ASSUME NEW q \in Confirmers, NEW u \in Uploads, Confirm(q, u)
      PROVE  Same \/ Entered
  <2>1. CASE UNCHANGED work
    BY <1>1, <2>1
  <2>2. CASE row[u] = "pending" /\ Enter(q, u, seen[u] = "failed")
    BY <1>4, <1>6, <2>2 DEF Confirm, Resolvers
  <2> QED
    BY <1>6, <2>1, <2>2 DEF Confirm
<1>7. ASSUME NEW q \in Resolvers, Leave(q) PROVE Same \/ (q = r /\ Ended)
  BY <1>0, <1>7 DEF Leave, TypeOK
<1>8. ASSUME NEW q \in Resolvers, Mark(q) \/ ResolveFails(q)
      PROVE  Same \/ (Ended /\ pc[r] # "rm")
  BY <1>7, <1>8 DEF Mark, ResolveFails
<1>9. ASSUME NEW q \in Resolvers, Remove(q) PROVE Same \/ (Ended /\ Remove(r))
  BY <1>7, <1>9 DEF Remove
<1>10. ASSUME NEW q \in Resolvers, Head(q)
       PROVE  Same \/ Moved \/ (Ended /\ pc[r] # "rm")
  <2>1. CASE Leave(q)
    BY <1>7, <1>10, <2>1 DEF Head
  <2>2. CASE ~Leave(q)
    <3>1. /\ UNCHANGED <<at, done, cand>>
          /\ pc' = [pc EXCEPT ![q] = "query"] \/ pc' = [pc EXCEPT ![q] = "drop"]
          /\ \/ UNCHANGED reason
             \/ reason' = [reason EXCEPT ![q] = "empty"]
             \/ reason' = [reason EXCEPT ![q] = "missing"]
      BY <1>10, <2>2 DEF Head, Goto
    <3> QED
      BY <1>0, <1>10, <3>1 DEF TypeOK
  <2> QED
    BY <2>1, <2>2
<1>11. ASSUME NEW q \in Resolvers, Query(q) PROVE Same \/ Moved
  <2>1. /\ UNCHANGED <<at, done, reason>> /\ pc' = [pc EXCEPT ![q] = "compare"]
        /\ cand' = [cand EXCEPT ![q] = DuplicateCandidates(at[q])]
    BY <1>11 DEF Query, Goto
  <2> QED
    BY <1>0, <1>11, <2>1 DEF TypeOK
<1>12. ASSUME NEW q \in Resolvers, Compare(q) PROVE Same \/ Moved
  <2>1. /\ UNCHANGED <<at, done>> /\ cand' = [cand EXCEPT ![q] = {}]
        /\ pc' = [pc EXCEPT ![q] = "drop"] \/ pc' = [pc EXCEPT ![q] = "mark"]
        /\ UNCHANGED reason \/ reason' = [reason EXCEPT ![q] = "duplicate"]
    BY <1>12 DEF Compare, Goto
  <2> QED
    BY <1>0, <1>12, <2>1 DEF TypeOK
<1>13. ASSUME NEW q \in Resolvers, Drop(q)
       PROVE  Same \/ Moved \/ (Ended /\ pc[r] # "rm")
  <2>1. CASE Leave(q)
    BY <1>7, <1>13, <2>1 DEF Drop
  <2>2. CASE ~Leave(q)
    <3>1. UNCHANGED <<at, done, cand, reason>> /\ pc' = [pc EXCEPT ![q] = "rm"]
      BY <1>13, <2>2 DEF Drop, Goto
    <3> QED
      BY <1>0, <1>13, <3>1 DEF TypeOK
  <2> QED
    BY <2>1, <2>2
<1>14. CASE Restart
  BY <1>14 DEF Restart
<1> QED
  BY NextCases, <1>2, <1>3, <1>5, <1>6, <1>8, <1>9, <1>10, <1>11, <1>12, <1>13, <1>14

LEMMA NextResolverInv ==
  ASSUME NoLatePut, KeepInv, [Next]_vars, NEW r \in Resolvers, pc'[r] # "idle"
  PROVE  /\ row'[at'[r]] # "none"
         /\ done'[r] => seen'[at'[r]] = "failed"
         /\ pc'[r] \in {"drop", "rm"} => Verdict(r)'
         /\ pc'[r] = "rm" => row'[at'[r]] # "pending"
<1>0. TypeOK /\ TypeOK'
  BY NextTypeOK DEF KeepInv, BaseInv
<1>1. CASE /\ pc'[r] = pc[r] /\ at'[r] = at[r] /\ done'[r] = done[r]
           /\ cand'[r] = cand[r] /\ reason'[r] = reason[r]
  <2>1. at[r] \in Uploads /\ pc[r] # "idle"
    BY <1>0, <1>1 DEF TypeOK
  <2>2. /\ row[at[r]] # "none"
        /\ done[r] => seen[at[r]] = "failed"
        /\ pc[r] \in {"drop", "rm"} => Verdict(r)
        /\ pc[r] = "rm" => row[at[r]] # "pending"
    BY <2>1 DEF KeepInv, ResolverInv
  <2>3. ASSUME Verdict(r) PROVE Verdict(r)'
    <3>1. row'[at[r]] = "pending" => row[at[r]] \in {"none", "pending"}
      BY <1>0, <2>1, Stable
    <3>2. row'[at[r]] = "pending" => row[at[r]] = "pending"
      BY <2>2, <3>1
    <3>3. \A u \in Uploads : GivenUp(u) => GivenUp(u)'
      BY <1>0, Stable
    <3>4. \A u \in Uploads : Elsewhere(u) => Elsewhere(u)'
      BY <1>0, Stable
    <3>5. put[at[r]] = "landed" => put'[at[r]] = "landed"
      BY <1>0, <2>1, Stable
    <3>6. file' = file
      BY <1>0, GuestSteps
    <3>7. CASE reason[r] = "duplicate"
      BY <1>1, <2>1, <2>3, <3>4, <3>5, <3>7 DEF Verdict, Elsewhere
    <3>8. CASE reason[r] = "empty"
      BY <1>1, <2>3, <3>5, <3>6, <3>8 DEF Verdict
    <3>9. CASE reason[r] = "missing"
      BY <1>1, <2>1, <2>3, <3>2, <3>3, <3>9 DEF Verdict, GivenUp
    <3> QED
      BY <2>3, <3>7, <3>8, <3>9 DEF Verdict
  <2>4. /\ row'[at[r]] # "none"
        /\ seen[at[r]] = "failed" => seen'[at[r]] = "failed"
        /\ row[at[r]] # "pending" => row'[at[r]] # "pending"
    BY <1>0, <2>1, <2>2, Stable
  <2> QED
    BY <1>1, <2>2, <2>3, <2>4
<1>2. CASE /\ pc[r] = "idle" /\ pc'[r] = "head"
           /\ at'[r] \in Uploads /\ row[at'[r]] # "none"
           /\ done'[r] => seen[at'[r]] = "failed"
  BY <1>0, <1>2, Stable
<1>3. CASE /\ at'[r] = at[r] /\ done'[r] = done[r]
           /\ Head(r) \/ Query(r) \/ Compare(r) \/ Drop(r)
  <2>1. at[r] \in Uploads /\ pc[r] # "idle" /\ pc[r] # "rm"
    BY <1>0, <1>3 DEF Head, Query, Compare, Drop, TypeOK
  <2>2. /\ row[at[r]] # "none"
        /\ done[r] => seen[at[r]] = "failed"
        /\ pc[r] = "drop" => Verdict(r)
    BY <2>1 DEF KeepInv, ResolverInv
  <2>3. /\ row'[at[r]] # "none"
        /\ done'[r] => seen'[at[r]] = "failed"
    BY <1>0, <1>3, <2>1, <2>2, Stable
  <2>4. CASE Head(r)
    <3>1. UNCHANGED <<row, put, seen, file>>
      BY <2>4 DEF Head, guest
    <3>2. pc'[r] # "rm"
      BY <1>0, <2>4 DEF Head, Goto, Leave, TypeOK
    <3>3. ASSUME pc'[r] = "drop" PROVE Verdict(r)'
      <4>1. \/ /\ at[r] \in object /\ file[at[r]] = EmptyFile
               /\ reason'[r] = "empty"
            \/ /\ at[r] \notin object /\ done[r] /\ reason'[r] = "missing"
        BY <1>0, <2>4, <3>3 DEF Head, Goto, Leave, TypeOK
      <4>2. CASE at[r] \in object /\ file[at[r]] = EmptyFile /\ reason'[r] = "empty"
        BY <1>3, <3>1, <4>2 DEF Verdict, KeepInv, BaseInv, LandedInv
      <4>3. CASE at[r] \notin object /\ done[r] /\ reason'[r] = "missing"
        <5>1. row[at[r]] = "pending" => put[at[r]] # "landed" /\ seen[at[r]] = "failed"
          BY <2>1, <2>2, <4>3 DEF KeepInv, RowInv
        <5> QED
          BY <1>3, <3>1, <3>3, <4>3, <5>1 DEF Verdict, GivenUp
      <4> QED
        BY <4>1, <4>2, <4>3
    <3> QED
      BY <1>3, <2>3, <3>2, <3>3
  <2>5. CASE Query(r)
    <3>1. pc'[r] = "compare"
      BY <1>0, <2>5 DEF Query, Goto, TypeOK
    <3> QED
      BY <1>3, <2>3, <3>1
  <2>6. CASE Compare(r)
    <3>1. /\ UNCHANGED <<row, put, file>> /\ pc[r] = "compare"
          /\ pc'[r] \in {"drop", "mark"}
      BY <1>0, <2>6 DEF Compare, Goto, TypeOK, guest
    <3>2. ASSUME pc'[r] = "drop" PROVE Verdict(r)'
      <4>1. /\ reason'[r] = "duplicate"
            /\ \E c \in cand[r] : file[c] = file[at[r]]
        BY <1>0, <2>6, <3>2 DEF Compare, Goto, TypeOK
      <4>2. PICK c \in cand[r] : file[c] = file[at[r]]
        BY <4>1
      <4>3. c \in Uploads /\ c # at[r] /\ row[c] \in {"received", "deleted"}
        BY <1>0, <4>2 DEF KeepInv, CandInv, CopyInv, CopyResolver, TypeOK
      <4>4. put[at[r]] = "landed"
        BY <3>1 DEF KeepInv, BaseInv, LandedInv
      <4> QED
        BY <1>3, <3>1, <4>1, <4>2, <4>3, <4>4 DEF Verdict, Elsewhere, SameFile
    <3> QED
      BY <1>3, <2>3, <3>1, <3>2
  <2>7. CASE Drop(r)
    <3>1. /\ pc[r] = "drop" /\ reason[r] # "missing"
          /\ pc'[r] = "rm" /\ UNCHANGED <<reason, put, file>>
      BY <1>0, <2>7 DEF Drop, Goto, Leave, TypeOK, guest
    <3>2. row'[at[r]] # "pending"
      BY <1>0, <2>1, <2>7 DEF Drop, TypeOK
    <3>3. \A u \in Uploads : Elsewhere(u) => Elsewhere(u)'
      BY <1>0, Stable
    <3>4. Verdict(r)'
      BY <1>3, <2>1, <2>2, <3>1, <3>3 DEF Verdict, Elsewhere
    <3> QED
      BY <1>3, <2>3, <3>1, <3>2, <3>4
  <2> QED
    BY <1>3, <2>4, <2>5, <2>6, <2>7
<1> QED
  BY ResolverSteps, <1>1, <1>2, <1>3

LEMMA NextCandInv ==
  ASSUME NoLatePut, KeepInv, [Next]_vars, NEW r \in Resolvers, NEW c \in cand'[r]
  PROVE  row'[c] \in {"received", "deleted"}
<1>0. TypeOK /\ TypeOK'
  BY NextTypeOK DEF KeepInv, BaseInv
<1>1. c \in Uploads
  BY <1>0 DEF TypeOK
<1>2. c \in cand[r] \/ row[c] = "received"
  <2>1. CASE Query(r)
    BY <1>0, <2>1 DEF Query, DuplicateCandidates, Visible, TypeOK
  <2>2. CASE Head(r) \/ Compare(r) \/ Drop(r)
    BY <1>0, <2>2 DEF Head, Compare, Drop, Leave, Goto, TypeOK
  <2> QED
    BY ResolverSteps, <2>1, <2>2
<1> QED
  BY <1>0, <1>1, <1>2, Stable DEF KeepInv, CandInv

LEMMA NextRowInv ==
  ASSUME NoLatePut, KeepInv, [Next]_vars, NEW u \in Uploads
  PROVE  /\ row'[u] = "none" => put'[u] = "none"
         /\ row'[u] = "pending" /\ put'[u] = "landed" => u \in object'
         /\ row'[u] = "deleted" => put'[u] = "landed"
         /\ row'[u] = "dropped" =>
               \/ put'[u] = "landed" /\ (Held(u)' \/ file'[u] = EmptyFile)
               \/ GivenUp(u)'
         /\ u \in removing' => row'[u] = "deleted"
         /\ u \in list' => row'[u] # "none"
<1>0. TypeOK /\ TypeOK'
  BY NextTypeOK DEF KeepInv, BaseInv
<1>1. /\ row[u] = "none" => put[u] = "none"
      /\ row[u] = "pending" /\ put[u] = "landed" => u \in object
      /\ row[u] = "deleted" => put[u] = "landed"
      /\ row[u] = "dropped" =>
            \/ put[u] = "landed" /\ (Held(u) \/ file[u] = EmptyFile)
            \/ GivenUp(u)
      /\ u \in removing => row[u] = "deleted"
      /\ u \in list => row[u] # "none"
  BY DEF KeepInv, RowInv
<1>2. row'[u] = "none" => put'[u] = "none"
  <2>1. ASSUME row'[u] = "none" PROVE row[u] = "none"
    BY <1>0, <2>1, Stable
  <2>2. PutLands(u) => put[u] = "sent"
    BY DEF PutLands
  <2> QED
    BY <1>0, <1>1, <2>1, <2>2, GuestSteps
<1>3. ASSUME row'[u] = "pending", put'[u] = "landed" PROVE u \in object'
  <2>1. CASE put[u] # "landed"
    <3>1. PutLands(u)
      BY <1>0, <1>3, <2>1, GuestSteps
    <3> QED
      BY <3>1 DEF PutLands
  <2>2. CASE put[u] = "landed"
    <3>1. row[u] = "pending"
      BY <1>0, <1>1, <1>3, <2>2, RowSteps
    <3>2. u \in object /\ u \notin removing
      BY <1>1, <2>2, <3>1
    <3>3. ASSUME NEW r \in Resolvers, Remove(r) PROVE u # at[r]
      BY <3>1, <3>3 DEF Remove, KeepInv, ResolverInv
    <3> QED
      BY <1>0, <3>2, <3>3, ObjectSteps
  <2> QED
    BY <2>1, <2>2
<1>4. ASSUME row'[u] = "deleted" PROVE put'[u] = "landed"
  <2>1. row[u] = "deleted" \/ row[u] = "received"
    BY <1>0, <1>4, RowSteps
  <2>2. put[u] = "landed"
    BY <1>1, <2>1 DEF KeepInv, BaseInv, ReceivedLanded
  <2> QED
    BY <1>0, <2>2, Stable
<1>5. ASSUME row'[u] = "dropped"
      PROVE  \/ put'[u] = "landed" /\ (Held(u)' \/ file'[u] = EmptyFile)
             \/ GivenUp(u)'
  <2>1. \/ put[u] = "landed" /\ (Held(u) \/ file[u] = EmptyFile)
        \/ GivenUp(u)
    <3>1. CASE row[u] = "dropped"
      BY <1>1, <3>1
    <3>2. CASE row[u] # "dropped"
      <4>1. PICK r \in Resolvers : Drop(r) /\ u = at[r] /\ row[u] = "pending"
        BY <1>0, <1>5, <3>2, RowSteps
      <4>2. Verdict(r)
        BY <4>1 DEF Drop, KeepInv, ResolverInv
      <4> QED
        BY <4>1, <4>2, ElsewhereIsHeld DEF Verdict
    <3> QED
      BY <3>1, <3>2
  <2> QED
    BY <1>0, <2>1, Stable
<1>6. u \in removing' => row'[u] = "deleted"
  <2>1. row[u] = "deleted" => row'[u] = "deleted"
    BY <1>0, RowSteps
  <2> QED
    BY <1>0, <1>1, <2>1, ListSteps
<1>7. u \in list' => row'[u] # "none"
  BY <1>0, <1>1, ListSteps, Stable
<1> QED
  BY <1>2, <1>3, <1>4, <1>5, <1>6, <1>7

LEMMA NextNoOrphan ==
  ASSUME NoLatePut, KeepInv, [Next]_vars, NEW u \in object' \ leaked'
  PROVE  \/ Exists(u)'
         \/ u \in removing'
         \/ \E r \in Resolvers : at'[r] = u /\ pc'[r] = "rm"
<1>0. TypeOK /\ TypeOK' /\ u \in Uploads
  BY NextTypeOK DEF KeepInv, BaseInv, TypeOK
<1>1. CASE u \notin object
  <2>1. PutLands(u)
    BY <1>0, <1>1, GuestSteps
  <2>2. row[u] \in {"pending", "received"}
    BY <1>0, <2>1 DEF PutLands, KeepInv, RowInv, GivenUp, NoLatePut, TypeOK
  <2> QED
    BY <2>1, <2>2 DEF PutLands, Exists
<1>2. CASE u \in object
  <2>1. u \notin leaked /\ put[u] = "landed"
    BY <1>0, <1>2, ObjectSteps DEF KeepInv, BaseInv, LandedInv
  <2>2. CASE Exists(u)
    <3>1. CASE \E r \in Resolvers : Drop(r) /\ u = at[r] /\ row[u] = "pending"
      <4>1. PICK r \in Resolvers : Drop(r) /\ u = at[r] /\ row[u] = "pending"
        BY <3>1
      <4>2. Verdict(r)
        BY <4>1 DEF Drop, KeepInv, ResolverInv
      <4>3. reason[r] # "missing"
        BY <2>1, <4>1, <4>2 DEF Verdict, GivenUp
      <4> QED
        BY <1>0, <4>1, <4>3 DEF Drop, Goto, TypeOK
    <3> QED
      BY <1>0, <2>2, <3>1, RowSteps DEF Exists
  <2>3. CASE u \in removing
    <3>1. ASSUME NEW w \in Uploads, HostRemoves(w), u \notin removing' PROVE FALSE
      BY <1>0, <2>3, <3>1 DEF HostRemoves
    <3>2. ASSUME NEW w \in Uploads, OthersStep(w), u \notin removing' PROVE FALSE
      BY <2>3, <3>1, <3>2 DEF OthersStep, Presign, SendPut, PutLands, PutEnds, Ages,
                              Trash, Restore, HostDelete
    <3>3. ~Restart
      BY <1>0, <2>3 DEF Restart
    <3> QED
      BY NextCases, <2>3, <3>2, <3>3 DEF SweepNext, Confirm, SweepReads, Head, Query,
                   Compare, Mark, Drop, Remove, ResolveFails, vars
  <2>4. CASE \E r \in Resolvers : at[r] = u /\ pc[r] = "rm"
    <3>1. PICK r \in Resolvers : at[r] = u /\ pc[r] = "rm"
      BY <2>4
    <3>2. ~Remove(r)
      BY <1>0, <3>1 DEF Remove
    <3>3. ~Restart
      BY <1>0, <3>1 DEF Restart
    <3>4. ~Head(r) /\ ~Query(r) /\ ~Compare(r) /\ ~Drop(r)
      BY <3>1 DEF Head, Query, Compare, Drop
    <3> QED
      BY <3>1, <3>2, <3>3, <3>4, ResolverSteps
  <2> QED
    BY <1>2, <2>1, <2>2, <2>3, <2>4 DEF KeepInv, NoOrphanObject
<1> QED
  BY <1>1, <1>2

LEMMA NextAssured ==
  ASSUME NoLatePut, KeepInv, [Next]_vars, NEW u \in assured'
  PROVE  Held(u)'
<1>0. TypeOK /\ TypeOK' /\ u \in Uploads
  BY NextTypeOK DEF KeepInv, BaseInv, TypeOK
<1>1. CASE u \in assured
  <2>1. Held(u)
    BY <1>1 DEF KeepInv, AssuredHeld
  <2> QED
    BY <1>0, <2>1, Stable
<1>2. ASSUME NEW r \in Confirmers, Confirm(r, u), row[u] = "received" PROVE Held(u)'
  <2>1. row'[u] = "received"
    BY <1>2 DEF Confirm
  <2> QED
    BY <1>0, <2>1 DEF Held, SameFile
<1>3. ASSUME NEW r \in Resolvers, Mark(r), u = at[r] PROVE Held(u)'
  <2>1. /\ pc[r] = "mark" /\ put[u] = "landed" /\ file[u] # EmptyFile
        /\ row[u] # "none"
    BY <1>3 DEF Mark, KeepInv, BaseInv, LandedInv, ResolverInv
  <2>2. CASE row[u] = "dropped"
    <3>1. Held(u)
      BY <1>0, <2>1, <2>2 DEF KeepInv, RowInv, GivenUp
    <3> QED
      BY <1>0, <3>1, Stable
  <2>3. CASE row[u] # "dropped"
    <3>1. row'[u] \in {"received", "deleted"}
      BY <1>0, <1>3, <2>1, <2>3 DEF Mark, TypeOK
    <3> QED
      BY <1>0, <3>1 DEF Held, SameFile
  <2> QED
    BY <2>2, <2>3
<1>4. ASSUME NEW r \in Resolvers, Remove(r), u = at[r], reason[r] = "duplicate"
      PROVE  Held(u)'
  <2>1. Held(u)
    BY <1>0, <1>4, ElsewhereIsHeld DEF Remove, KeepInv, ResolverInv, Verdict
  <2> QED
    BY <1>0, <2>1, Stable
<1>5. CASE u \notin assured
  <2>1. ASSUME NEW w \in Uploads, OthersStep(w) PROVE assured' = assured
    BY <2>1 DEF OthersStep, Presign, SendPut, PutLands, PutEnds, Ages, Trash, Restore,
                HostDelete, HostRemoves, history
  <2>2. ASSUME NEW w \in Uploads, SweepNext(w) PROVE assured' = assured
    BY <2>2 DEF SweepNext, history
  <2>3. ASSUME NEW r \in Confirmers, NEW w \in Uploads, Confirm(r, w)
        PROVE  Held(u)'
    BY <1>2, <1>5, <2>3 DEF Confirm
  <2>4. ASSUME NEW r \in Resolvers, \/ Head(r) \/ Query(r) \/ Compare(r) \/ Drop(r)
                                    \/ ResolveFails(r)
        PROVE  assured' = assured
    BY <2>4 DEF Head, Query, Compare, Drop, ResolveFails, history
  <2>5. ASSUME NEW r \in Resolvers, Mark(r) PROVE Held(u)'
    BY <1>3, <1>5, <2>5 DEF Mark, Assure
  <2>6. ASSUME NEW r \in Resolvers, Remove(r) PROVE Held(u)'
    BY <1>4, <1>5, <2>6 DEF Remove, Assure
  <2>7. SweepReads \/ Restart \/ UNCHANGED vars => assured' = assured
    BY DEF SweepReads, Restart, vars, history
  <2> QED
    BY NextCases, <1>5, <2>1, <2>2, <2>3, <2>4, <2>5, <2>6, <2>7
<1> QED
  BY <1>1, <1>5

\* An object that a resolver takes from a received row is that of a duplicate.
LEMMA RemoveReceived ==
  ASSUME KeepInv, NEW r \in Resolvers, Remove(r), row[at[r]] = "received"
  PROVE  at[r] \in Uploads /\ Elsewhere(at[r])
<1>1. pc[r] = "rm" /\ at[r] \in Uploads
  BY DEF Remove, KeepInv, BaseInv, TypeOK
<1>2. Verdict(r)
  BY <1>1 DEF KeepInv, ResolverInv
<1>3. file[at[r]] # EmptyFile
  BY <1>1 DEF KeepInv, BaseInv, ReceivedLanded
<1> QED
  BY <1>1, <1>2, <1>3 DEF Verdict

\* What a step may add to the copies that were taken away.
LEMMA CrossedSteps ==
  ASSUME KeepInv, [Next]_vars, NEW u \in Uploads
  PROVE  /\ u \in crossed => u \in crossed'
         /\ u \in crossed' => \/ u \in crossed
                              \/ row[u] = "received" /\ Elsewhere(u)
         /\ \A r \in Resolvers : Remove(r) /\ u = at[r] /\ row[u] = "received" =>
               u \in crossed' \/ (u \in object => u \in object')
<1>1. ASSUME NEW w \in Uploads, OthersStep(w) PROVE crossed' = crossed
  BY <1>1 DEF OthersStep, Presign, SendPut, PutLands, PutEnds, Ages, Trash, Restore,
              HostDelete, HostRemoves, history
<1>2. ASSUME NEW w \in Uploads, SweepNext(w) PROVE crossed' = crossed
  BY <1>2 DEF SweepNext, history
<1>3. ASSUME NEW r \in Confirmers, NEW w \in Uploads, Confirm(r, w)
      PROVE  crossed' = crossed
  BY <1>3 DEF Confirm
<1>4. ASSUME NEW r \in Resolvers, \/ Head(r) \/ Query(r) \/ Compare(r) \/ Mark(r)
                                  \/ Drop(r) \/ ResolveFails(r)
      PROVE  crossed' = crossed
  BY <1>4 DEF Head, Query, Compare, Mark, Drop, ResolveFails, history
<1>5. ASSUME NEW r \in Resolvers, Remove(r)
      PROVE  /\ crossed \subseteq crossed'
             /\ u \in crossed' => \/ u \in crossed
                                  \/ row[u] = "received" /\ Elsewhere(u)
             /\ u = at[r] /\ row[u] = "received" => u \in crossed' \/ object' = object
  <2>1. \/ crossed' = crossed \cup {at[r]} /\ row[at[r]] = "received"
        \/ crossed' = crossed /\ (row[at[r]] # "received" \/ object' = object)
    BY <1>5 DEF Remove
  <2>2. CASE u = at[r]
    <3>1. row[u] = "received" => Elsewhere(u)
      BY <1>5, <2>2, RemoveReceived
    <3>2. \/ crossed' = crossed \cup {u} /\ row[u] = "received"
          \/ crossed' = crossed /\ (row[u] # "received" \/ object' = object)
      BY <2>1, <2>2
    <3> QED
      BY <2>2, <3>1, <3>2
  <2>3. CASE u # at[r]
    <3>1. crossed \subseteq crossed' /\ (u \in crossed' => u \in crossed)
      BY <2>1, <2>3
    <3> QED
      BY <2>3, <3>1
  <2> QED
    BY <2>2, <2>3
<1>6. SweepReads \/ Restart \/ UNCHANGED vars => crossed' = crossed
  BY DEF SweepReads, Restart, vars, history
<1>7. CASE \E r \in Resolvers : Remove(r)
  BY <1>5, <1>7
<1>8. CASE ~ \E r \in Resolvers : Remove(r)
  <2>1. crossed' = crossed
    BY NextCases, <1>1, <1>2, <1>3, <1>4, <1>6, <1>8
  <2> QED
    BY <1>8, <2>1
<1> QED
  BY <1>7, <1>8

LEMMA NextStoreInv ==
  ASSUME NoLatePut, KeepInv, [Next]_vars
  PROVE  StoreInv'
<1>0. TypeOK /\ TypeOK'
  BY NextTypeOK DEF KeepInv, BaseInv
<1>1. ASSUME NEW u \in Uploads, row'[u] = "received"
      PROVE  u \in object' \/ u \in crossed'
  <2>1. u \in object \/ u \in crossed
    <3>1. CASE row[u] = "received"
      BY <3>1 DEF KeepInv, StoreInv
    <3>2. CASE row[u] # "received"
      <4>1. PICK r \in Resolvers : Mark(r) /\ u = at[r] /\ row[u] = "pending"
        BY <1>0, <1>1, <3>2, RowSteps
      <4>2. put[u] = "landed"
        BY <4>1 DEF Mark, KeepInv, BaseInv, LandedInv
      <4> QED
        BY <4>1, <4>2 DEF KeepInv, RowInv
    <3> QED
      BY <3>1, <3>2
  <2>2. row[u] \in {"pending", "received"}
    BY <1>0, <1>1, RowSteps
  <2>3. u \notin removing
    BY <2>2 DEF KeepInv, RowInv
  <2>4. ASSUME NEW r \in Resolvers, Remove(r), u = at[r] PROVE row[u] = "received"
    BY <2>2, <2>4 DEF Remove, KeepInv, ResolverInv
  <2>5. CASE u \in crossed
    BY <1>0, <2>5, CrossedSteps
  <2>6. CASE u \in object /\ u \notin object'
    <3>1. PICK r \in Resolvers : Remove(r) /\ u = at[r]
      BY <1>0, <2>3, <2>6, ObjectSteps
    <3> QED
      BY <1>0, <2>4, <2>6, <3>1, CrossedSteps
  <2> QED
    BY <2>1, <2>5, <2>6
<1>2. ASSUME NEW u \in crossed'
      PROVE  row'[u] \in {"received", "deleted"} /\ Elsewhere(u)'
  <2>1. u \in Uploads
    BY <1>0, <1>2 DEF TypeOK
  <2>2. row[u] \in {"received", "deleted"} /\ Elsewhere(u)
    BY <1>2, <2>1, CrossedSteps DEF KeepInv, StoreInv
  <2> QED
    BY <1>0, <2>1, <2>2, Stable
<1> QED
  BY <1>1, <1>2 DEF StoreInv

LEMMA NextKeepInv ==
  ASSUME NoLatePut, KeepInv, [Next]_vars
  PROVE  KeepInv'
<1>1. BaseInv'
  BY NextBaseInv DEF KeepInv
<1>2. ResolverInv'
  BY NextResolverInv DEF ResolverInv
<1>3. CandInv'
  BY NextCandInv DEF CandInv
<1>4. RowInv'
  BY NextRowInv DEF RowInv
<1>5. NoOrphanObject'
  BY NextNoOrphan DEF NoOrphanObject
<1>6. AssuredHeld'
  BY NextAssured DEF AssuredHeld
<1>7. CopyInv' /\ StoreInv'
  BY NextCopyInv, NextStoreInv DEF KeepInv
<1> QED
  BY <1>1, <1>2, <1>3, <1>4, <1>5, <1>6, <1>7 DEF KeepInv

\* AssuredIsKept: as long as a PUT that the browser gave up on does not land,
\* whoever was told "received" or "duplicate" by GuestUploadConfirm has an object of
\* the file in S3 until the host deletes one - unless Resolve took two received
\* copies of it away.
THEOREM AssuredFilesAreKept ==
  ASSUME NoLatePut
  PROVE  Spec => []AssuredIsKept
<1>1. Init => KeepInv
  BY InitKeepInv
<1>2. KeepInv /\ [Next]_vars => KeepInv'
  BY NextKeepInv
<1>3. KeepInv => AssuredIsKept
  BY HeldIsKept DEF KeepInv, BaseInv, TypeOK, AssuredHeld, AssuredIsKept
<1> QED
  BY <1>1, <1>2, <1>3, PTL DEF Spec

\* NoOrphanObject: under the same assumption Resolve and Delete forget no object.
THEOREM ObjectsAreNotForgotten ==
  ASSUME NoLatePut
  PROVE  Spec => []NoOrphanObject
<1>1. Init => KeepInv
  BY InitKeepInv
<1>2. KeepInv /\ [Next]_vars => KeepInv'
  BY NextKeepInv
<1>3. KeepInv => NoOrphanObject
  BY DEF KeepInv
<1> QED
  BY <1>1, <1>2, <1>3, PTL DEF Spec
-----------------------------------------------------------------------------
(* UploadReceipt implements Receipt.                                       *)

Arrived == {u \in Uploads : put[u] = "landed"}
NeverComes == {u \in Uploads : GivenUp(u)}

LEMMA SameOutcomes ==
  ASSUME UNCHANGED <<put, seen>>
  PROVE  Arrived' = Arrived /\ NeverComes' = NeverComes
BY DEF Arrived, NeverComes, GivenUp

LEMMA InitImplements == Init => Abstract!Init
BY DEF Init, Abstract!Init

\* What the guests, the browsers and the host do.
LEMMA OthersImplement ==
  ASSUME NoLatePut, KeepInv, NEW u \in Uploads, OthersStep(u)
  PROVE  Abstract!Next \/ UNCHANGED Abstract!vars
<1>0. TypeOK /\ (put[u] # "none" => row[u] # "none")
  BY DEF KeepInv, BaseInv, RowInv
<1>1. CASE Presign(u)
  <2>1. /\ UNCHANGED <<file, put, seen, object, assured, crossed>>
        /\ Arrived' = Arrived /\ NeverComes' = NeverComes
    BY <1>1, SameOutcomes DEF Presign, history
  <2> QED
    BY <1>1, <2>1 DEF Presign, Abstract!Next, Abstract!Ask, Arrived, NeverComes, GivenUp
<1>2. CASE HostDelete(u)
  <2>1. /\ UNCHANGED <<file, put, seen, object, assured, crossed>>
        /\ Arrived' = Arrived /\ NeverComes' = NeverComes
    BY <1>2, SameOutcomes DEF HostDelete, guest, history
  <2> QED
    BY <1>2, <2>1 DEF HostDelete, Abstract!Next, Abstract!Delete, Arrived, NeverComes, GivenUp
<1>3. CASE PutLands(u)
  <2>1. /\ put[u] = "sent" /\ seen[u] = "waiting"
        /\ put' = [put EXCEPT ![u] = "landed"] /\ object' = object \cup {u}
        /\ UNCHANGED <<file, row, seen, assured, crossed>>
    BY <1>3 DEF PutLands, NoLatePut, history
  <2>2. Arrived' = Arrived \cup {u} /\ u \notin Arrived
    BY <1>0, <2>1 DEF Arrived, TypeOK
  <2>3. NeverComes' = NeverComes /\ u \notin NeverComes
    BY <1>0, <2>1 DEF NeverComes, GivenUp, TypeOK
  <2> QED
    BY <1>0, <2>1, <2>2, <2>3
       DEF Abstract!Next, Abstract!Arrive, Arrived, NeverComes, GivenUp
<1>4. CASE PutEnds(u) /\ put[u] # "landed" /\ seen' = [seen EXCEPT ![u] = "failed"]
  <2>1. put[u] # "none" /\ UNCHANGED <<file, row, put, object, assured, crossed>>
    BY <1>4 DEF PutEnds, history
  <2>2. Arrived' = Arrived /\ u \notin Arrived
    BY <1>4, <2>1 DEF Arrived
  <2>3. NeverComes' = NeverComes \cup {u}
    BY <1>0, <1>4, <2>1 DEF NeverComes, GivenUp, TypeOK
  <2> QED
    BY <1>0, <2>1, <2>2, <2>3
       DEF Abstract!Next, Abstract!GiveUp, Arrived, NeverComes, GivenUp
<1>5. CASE PutEnds(u) /\ (put[u] = "landed" \/ seen' = [seen EXCEPT ![u] = "ok"])
  <2>1. put[u] = "landed" /\ UNCHANGED <<file, row, put, object, assured, crossed>>
    BY <1>5, <1>0 DEF PutEnds, history, TypeOK
  <2>2. NeverComes' = NeverComes
    BY <1>0, <1>5, <2>1 DEF PutEnds, NeverComes, GivenUp, TypeOK
  <2> QED
    BY <2>1, <2>2 DEF Abstract!vars, Arrived, NeverComes, GivenUp
<1>6. CASE SendPut(u)
  <2>1. /\ put[u] = "none" /\ put' = [put EXCEPT ![u] = "sent"]
        /\ UNCHANGED <<file, row, seen, object, assured, crossed>>
    BY <1>6 DEF SendPut, history
  <2>2. Arrived' = Arrived /\ NeverComes' = NeverComes
    BY <1>0, <2>1 DEF Arrived, NeverComes, GivenUp, TypeOK
  <2> QED
    BY <2>1, <2>2 DEF Abstract!vars, Arrived, NeverComes, GivenUp
<1>7. CASE Ages(u) \/ Trash(u) \/ Restore(u)
  <2>1. UNCHANGED <<file, row, put, seen, object, assured, crossed>>
    BY <1>7 DEF Ages, Trash, Restore, guest, history
  <2> QED
    BY <2>1 DEF Abstract!vars
<1>8. CASE HostRemoves(u)
  <2>1. /\ UNCHANGED <<file, row, put, seen, assured, crossed>>
        /\ object' = object \/ object' = object \ {u}
        /\ row[u] = "deleted"
    BY <1>8 DEF HostRemoves, guest, KeepInv, RowInv
  <2>2. CASE object' = object
    BY <2>1, <2>2 DEF Abstract!vars
  <2>3. CASE object' = object \ {u}
    <3>1. Abstract!Discard(u)
      BY <2>1, <2>3 DEF Abstract!Discard
    <3> QED
      BY <3>1 DEF Abstract!Next
  <2> QED
    BY <2>1, <2>2, <2>3
<1> QED
  BY <1>1, <1>2, <1>3, <1>4, <1>5, <1>6, <1>7, <1>8 DEF OthersStep, PutEnds

\* Receipt means the same by a kept file.
LEMMA SameKept ==
  ASSUME NEW u \in Uploads
  PROVE  Abstract!Kept(u) <=> Kept(u)
BY DEF Abstract!Kept, Abstract!SameFile, Kept, SameFile

\* An answer of /confirm is a Tell, whatever row it is about.
LEMMA AnswerImplements ==
  ASSUME KeepInv, NEW u \in Uploads, Held(u),
         UNCHANGED <<file, row, put, seen, object, crossed>>,
         assured' = assured \cup {u}
  PROVE  Abstract!Next
<1>1. Abstract!Kept(u)
  BY HeldIsKept, SameKept
<1>2. Abstract!Tell(u)
  BY <1>1 DEF Abstract!Tell
<1> QED
  BY <1>2 DEF Abstract!Next

LEMMA ConfirmImplements ==
  ASSUME KeepInv, NEW r \in Confirmers, NEW u \in Uploads, Confirm(r, u)
  PROVE  Abstract!Next \/ UNCHANGED Abstract!vars
<1>1. UNCHANGED <<file, row, put, seen, object, crossed>>
  BY DEF Confirm, guest
<1>2. CASE row[u] = "received" /\ assured' = assured \cup {u}
  BY <1>1, <1>2, AnswerImplements DEF Held, SameFile
<1>3. CASE assured' = assured
  BY <1>1, <1>3 DEF Abstract!vars
<1> QED
  BY <1>2, <1>3 DEF Confirm

\* Mark receives a pending row, and otherwise only tells.
LEMMA MarkImplements ==
  ASSUME NoLatePut, KeepInv, [Next]_vars, NEW r \in Resolvers, Mark(r),
         NEW u \in Uploads, u = at[r]
  PROVE  Abstract!Next \/ UNCHANGED Abstract!vars
<1>1. TypeOK
  BY DEF KeepInv, BaseInv
<1>2. /\ pc[r] = "mark" /\ Assure(r) /\ UNCHANGED <<file, put, seen, object, crossed>>
      /\ row' = IF row[u] = "pending" THEN [row EXCEPT ![u] = "received"] ELSE row
  BY DEF Mark, guest
<1>3. assured' = assured \/ assured' = assured \cup {u}
  BY <1>2 DEF Assure
<1>4. CASE row[u] = "pending"
  <2>1. put[u] = "landed" /\ file[u] # EmptyFile
    BY <1>2 DEF KeepInv, BaseInv, LandedInv
  <2>2. row' = [row EXCEPT ![u] = "received"] /\ u \in object
    BY <1>2, <1>4, <2>1 DEF KeepInv, RowInv
  <2>3. Arrived' = Arrived /\ NeverComes' = NeverComes
    BY <1>1, <1>2, <2>1, SameOutcomes
  <2>4. Abstract!Receive(u)
    BY <1>2, <1>3, <1>4, <2>1, <2>2, <2>3
       DEF Abstract!Receive, Arrived, NeverComes, GivenUp
  <2> QED
    BY <1>1, <2>4 DEF Abstract!Next
<1>5. CASE row[u] # "pending" /\ assured' = assured \cup {u}
  <2>1. row' = row
    BY <1>2, <1>5
  <2>2. Held(u)'
    BY <1>1, <1>5, NextAssured
  <2>3. Held(u)
    BY <1>2, <2>1, <2>2 DEF Held, SameFile
  <2> QED
    BY <1>1, <1>2, <1>5, <2>1, <2>3, AnswerImplements
<1>6. CASE row[u] # "pending" /\ assured' = assured
  BY <1>2, <1>6 DEF Abstract!vars
<1> QED
  BY <1>3, <1>4, <1>5, <1>6

\* Drop rejects a pending row for one of the reasons in Verdict.
LEMMA DropImplements ==
  ASSUME KeepInv, NEW r \in Resolvers, Drop(r),
         NEW u \in Uploads, u = at[r]
  PROVE  Abstract!Next \/ UNCHANGED Abstract!vars
<1>1. TypeOK
  BY DEF KeepInv, BaseInv
<1>2. /\ pc[r] = "drop" /\ UNCHANGED <<file, put, seen, object, assured, crossed>>
      /\ row' = IF row[u] = "pending" THEN [row EXCEPT ![u] = "dropped"] ELSE row
  BY DEF Drop, guest, history
<1>3. CASE row[u] = "pending"
  <2>1. Verdict(r)
    BY <1>2 DEF KeepInv, ResolverInv
  <2>2. Elsewhere(u) => Abstract!Kept(u)
    BY ElsewhereIsHeld, HeldIsKept, SameKept
  <2>3. u \in NeverComes \/ (u \in Arrived /\ (file[u] = EmptyFile \/ Abstract!Kept(u)))
    BY <1>1, <1>3, <2>1, <2>2 DEF Verdict, NeverComes, Arrived
  <2>4. Arrived' = Arrived /\ NeverComes' = NeverComes
    BY <1>2, SameOutcomes
  <2>5. Abstract!Reject(u)
    BY <1>2, <1>3, <2>3, <2>4 DEF Abstract!Reject, Arrived, NeverComes, GivenUp
  <2> QED
    BY <1>1, <2>5 DEF Abstract!Next
<1>4. CASE row[u] # "pending"
  BY <1>2, <1>4 DEF Abstract!vars
<1> QED
  BY <1>3, <1>4

\* Remove discards what was turned away or deleted, and takes a received copy.
LEMMA RemoveImplements ==
  ASSUME KeepInv, NEW r \in Resolvers, Remove(r),
         NEW u \in Uploads, u = at[r]
  PROVE  Abstract!Next \/ UNCHANGED Abstract!vars
<1>1. /\ UNCHANGED <<file, row, put, seen>> /\ pc[r] = "rm"
      /\ \/ /\ object' = object \ {u}
            /\ crossed' = IF row[u] = "received" THEN crossed \cup {u} ELSE crossed
         \/ UNCHANGED <<object, crossed>>
  BY DEF Remove, guest
<1>2. \/ assured' = assured
      \/ assured' = assured \cup {u} /\ reason[r] = "duplicate"
  BY DEF Remove, Assure
<1>3. /\ Verdict(r)
      /\ row[u] \in {"received", "dropped", "deleted"}
  BY <1>1 DEF KeepInv, ResolverInv, BaseInv, TypeOK
<1>4. assured' # assured => Held(u)
  BY <1>2, <1>3, ElsewhereIsHeld DEF Verdict
<1>5. CASE UNCHANGED <<object, crossed>> /\ assured' = assured
  BY <1>1, <1>5 DEF Abstract!vars
<1>6. CASE UNCHANGED <<object, crossed>> /\ assured' # assured
  BY <1>1, <1>2, <1>4, <1>6, AnswerImplements
<1>7. CASE /\ row[u] # "received" /\ object' = object \ {u} /\ crossed' = crossed
  <2>1. assured' # assured => Abstract!Kept(u)
    BY <1>4, HeldIsKept, SameKept
  <2>2. Abstract!Discard(u)
    BY <1>1, <1>2, <1>3, <1>7, <2>1 DEF Abstract!Discard
  <2> QED
    BY <2>2 DEF Abstract!Next
<1>8. CASE /\ row[u] = "received" /\ object' = object \ {u}
           /\ crossed' = crossed \cup {u}
  <2>1. Elsewhere(u)
    BY <1>8, RemoveReceived
  <2>2. \E v \in Uploads \ {u} : /\ Abstract!SameFile(u, v)
                                /\ row[v] \in {"received", "deleted"}
    BY <2>1 DEF Elsewhere, SameFile, Abstract!SameFile
  <2>3. Abstract!Take(u)
    BY <1>1, <1>2, <1>8, <2>2 DEF Abstract!Take
  <2> QED
    BY <2>3 DEF Abstract!Next
<1> QED
  BY <1>1, <1>5, <1>6, <1>7, <1>8

LEMMA NextImplements ==
  ASSUME NoLatePut, KeepInv, [Next]_vars
  PROVE  [Abstract!Next]_(Abstract!vars)
<1> SUFFICES Abstract!Next \/ UNCHANGED Abstract!vars
  OBVIOUS
<1>1. ASSUME NEW u \in Uploads, OthersStep(u)
      PROVE  Abstract!Next \/ UNCHANGED Abstract!vars
  BY <1>1, OthersImplement
<1>2. ASSUME NEW r \in Confirmers, NEW u \in Uploads, Confirm(r, u)
      PROVE  Abstract!Next \/ UNCHANGED Abstract!vars
  BY <1>2, ConfirmImplements
<1>3. ASSUME NEW r \in Resolvers, Mark(r) \/ Drop(r) \/ Remove(r)
      PROVE  Abstract!Next \/ UNCHANGED Abstract!vars
  <2>1. at[r] \in Uploads
    BY <1>3 DEF Mark, Drop, Remove, KeepInv, BaseInv, TypeOK
  <2> QED
    BY <1>3, <2>1, MarkImplements, DropImplements, RemoveImplements
<1>4. ASSUME NEW r \in Resolvers, Head(r) \/ Query(r) \/ Compare(r) \/ ResolveFails(r)
      PROVE  UNCHANGED <<file, row, put, seen, object, assured, crossed>>
  BY <1>4 DEF Head, Query, Compare, ResolveFails, guest, history
<1>5. ASSUME NEW u \in Uploads, SweepNext(u)
      PROVE  UNCHANGED <<file, row, put, seen, object, assured, crossed>>
  BY <1>5 DEF SweepNext, guest, history
<1>6. SweepReads \/ Restart \/ UNCHANGED vars =>
         UNCHANGED <<file, row, put, seen, object, assured, crossed>>
  BY DEF SweepReads, Restart, vars, guest, history
<1>7. UNCHANGED <<file, row, put, seen, object, assured, crossed>> =>
         UNCHANGED Abstract!vars
  BY DEF Abstract!vars
<1> QED
  BY NextCases, <1>1, <1>2, <1>3, <1>4, <1>5, <1>6, <1>7

\* ImplementsReceipt: without late PUTs every behaviour of the resolvers, however
\* they overlap, fail and restart, is one of Receipt - Resolve decides an upload
\* once, drops a row only if its file is kept elsewhere, empty or not coming, and
\* takes the object of a received row only for a duplicate's sake.
THEOREM UploadReceiptImplementsReceipt ==
  ASSUME NoLatePut
  PROVE  Spec => ImplementsReceipt
<1>1. Init => Abstract!Init
  BY InitImplements
<1>2. Init => KeepInv
  BY InitKeepInv
<1>3. KeepInv /\ [Next]_vars => KeepInv'
  BY NextKeepInv
<1>4. KeepInv /\ [Next]_vars => [Abstract!Next]_(Abstract!vars)
  BY NextImplements
<1> QED
  BY <1>1, <1>2, <1>3, <1>4, PTL DEF Spec, ImplementsReceipt, Abstract!Spec

=============================================================================
