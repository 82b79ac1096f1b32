---------------------------- MODULE LettingProofs ----------------------------
(***************************************************************************)
(* Proofs about Letting for any calendar, any papers and any number of     *)
(* requests under way.                                                     *)
(*                                                                         *)
(* Apart is what the constraints keep over the lettings; it needs only     *)
(* that every write of an active row passes them.  Earned is what nothing  *)
(* keeps for the UPDATE that activates: a request between the gate and the *)
(* UPDATE still has its lease, its handover and its first day, because     *)
(* none of them is ever taken back.  A lease could only be relinked by a   *)
(* second opening of it, and the document's lock leaves one at a time.     *)
(*                                                                         *)
(* BooksAgree rests on three invariants.  LogInv: a letting that stands    *)
(* has no end in its log, and an ending under way was drawn while the      *)
(* letting was active.  OptionInv: an option taken is on the row until a   *)
(* paper moves the date.  PapersInv: a stamped paper is promoted, so it is *)
(* not signed again; while no two requests overlap, what a request has     *)
(* read still stands, and a copy that moves nothing finds its own date, or *)
(* an option, there.                                                       *)
(***************************************************************************)
EXTENDS Letting, TLAPS

Typed ==
  /\ startOf \in [Leases -> Days]
  /\ reading \in [Documents -> [signed: Days \cup {NoDay}, promoted: BOOLEAN]]
  /\ linked \in [Documents -> Days \cup {NoDay}]
  /\ letting \in [Days -> Tenancy]
  /\ request \in [Requests -> Request]

Apart ==
  /\ \A k \in Days : Active(k) => PeriodIsOrdered(k, letting[k])
  /\ OneHouseholdPerDay

Opening(r) == request[r].pc \in {"open", "write"}
Earned ==
  /\ today \in Nat
  /\ \A r \in Requests : Opening(r) =>
       request[r].doc \in Leases /\ linked[request[r].doc] = NoDay
  /\ \A r, q \in Requests :
       Opening(r) /\ Opening(q) /\ request[r].doc = request[q].doc => r = q
  /\ \A r \in Requests : At(r, "activate") =>
       /\ request[r].key \in Days
       /\ DocumentsHeld(request[r].key) /\ request[r].key <= today
  /\ ActivationIsEarned

LEMMA DaysAreNat == Days \subseteq Nat \ {0} /\ NoDay = 0
BY BoundsAssumption DEF Days, NoDay

LEMMA InitTyped == Init => Typed /\ Apart /\ Earned
<1> SUFFICES ASSUME Init PROVE Typed /\ Apart /\ Earned
  OBVIOUS
<1>1. Idle \in Request /\ NoTenancy \in Tenancy
  BY DEF Idle, Request, NoTenancy, Tenancy
<1>2. Typed
  BY <1>1 DEF Init, Typed
<1>3. Apart
  BY DEF Init, Apart, OneHouseholdPerDay, Active, NoTenancy
<1>4. Earned
  BY DEF Init, Earned, Opening, At, Idle, ActivationIsEarned, NoTenancy
<1> QED BY <1>2, <1>3, <1>4

-----------------------------------------------------------------------------
(* One row written: if it is active, the constraints let it through.       *)
LEMMA RowLands ==
  ASSUME Typed, Apart, NEW k \in Days, NEW new \in Tenancy,
         new.status = "ACTIVE" => Allowed(k, new),
         letting' = [letting EXCEPT ![k] = new]
  PROVE  Apart'
<1>1. \A j \in Days : letting'[j] = IF j = k THEN new ELSE letting[j]
  BY DEF Typed
<1>2. \A j \in Days : letting[j].end \in Nat /\ new.end \in Nat /\ j \in Nat
  <2>1. \A t \in Tenancy : t.end \in Days \cup {NoDay}
    BY DEF Tenancy
  <2>2. \A j \in Days : letting[j] \in Tenancy
    BY DEF Typed
  <2>3. \A e \in Days \cup {NoDay} : e \in Nat
    BY DaysAreNat
  <2> QED BY <2>1, <2>2, <2>3
<1>3. ASSUME NEW j \in Days, Active(j)'
      PROVE  PeriodIsOrdered(j, letting[j])'
  BY <1>1, <1>3 DEF Apart, Active, Allowed, PeriodIsOrdered
<1>4. ASSUME NEW i \in Days, NEW j \in Days, i < j, Active(i)', Active(j)'
      PROVE  letting'[i].end < j
  <2>1. CASE i # k /\ j # k
    BY <1>1, <1>4, <2>1 DEF Apart, OneHouseholdPerDay, Active
  <2>2. CASE i = k
    <3>1. Active(j) /\ letting'[i] = new /\ new.status = "ACTIVE"
      BY <1>1, <1>4, <2>2, <1>2 DEF Active
    <3>2. ~Overlap(i, new, j) /\ PeriodIsOrdered(j, letting[j])
      BY <3>1, <2>2, <1>4, <1>2 DEF Allowed, Apart
    <3> QED BY <3>1, <3>2, <1>2, <1>4 DEF Overlap, PeriodIsOrdered
  <2>3. CASE j = k
    <3>1. Active(i) /\ letting'[i] = letting[i] /\ new.status = "ACTIVE"
      BY <1>1, <1>4, <2>3, <1>2 DEF Active
    <3>2. ~Overlap(j, new, i) /\ PeriodIsOrdered(j, new)
      BY <3>1, <2>3, <1>4, <1>2 DEF Allowed
    <3> QED BY <3>1, <3>2, <1>2, <1>4 DEF Overlap, PeriodIsOrdered
  <2> QED BY <2>1, <2>2, <2>3
<1> QED BY <1>3, <1>4 DEF Apart, OneHouseholdPerDay

(* A step that leaves the gate's facts, and moves no request to a gate.    *)
LEMMA FactsStand ==
  ASSUME Typed, Earned,
         today' \in Nat, today <= today', handover \subseteq handover',
         rewritten \subseteq rewritten',
         \A d \in Leases : linked[d] # NoDay => linked'[d] = linked[d],
         \A k \in Days : letting'[k].status \notin {"none", "DRAFT"} =>
           \/ letting[k].status \notin {"none", "DRAFT"} \/ k \in rewritten'
           \/ DocumentsHeld(k) /\ k <= today,
         \A r \in Requests : Opening(r)' =>
           /\ Opening(r) /\ request'[r].doc = request[r].doc
           /\ linked'[request[r].doc] = NoDay,
         \A r \in Requests : At(r, "activate")' =>
           At(r, "activate") /\ request'[r].key = request[r].key
  PROVE  Earned'
<1>1. ASSUME NEW k \in Days, DocumentsHeld(k), k <= today
      PROVE  DocumentsHeld(k)' /\ k <= today'
  BY <1>1, DaysAreNat DEF DocumentsHeld, Earned
<1>2. ActivationIsEarned'
  BY <1>1 DEF ActivationIsEarned, Earned
<1>3. \A r \in Requests : At(r, "activate")' =>
        /\ request'[r].key \in Days
        /\ DocumentsHeld(request[r].key)' /\ request[r].key <= today'
  BY <1>1 DEF Earned
<1> QED BY <1>2, <1>3 DEF Earned, DocumentsHeld

LEMMA RequestFields ==
  ASSUME Typed, NEW r \in Requests
  PROVE  /\ request[r] \in Request /\ Idle \in Request
         /\ request[r].day \in Days \cup {NoDay}
         /\ request[r].first \in Days \cup {NoDay}
         /\ request[r].doc \in Documents \cup {Nobody}
BY DEF Typed, Request, Idle

(* A request that is given its next step, not a gate and not an opening it *)
(* had not begun, leaves the others where they were.                       *)
LEMMA Moved ==
  ASSUME Typed, NEW r \in Requests, NEW new \in Request, Goto(r, new)
  PROVE  /\ request' \in [Requests -> Request]
         /\ \A q \in Requests :
              request'[q] = IF q = r THEN new ELSE request[q]
BY DEF Goto, Typed

(* What a promotion has read is a request again: it copies now.            *)
LEMMA PromotionRead ==
  ASSUME Typed, NEW r \in Requests, ReadPromotion(r)
  PROVE  \E new \in Request : new.pc = "copy" /\ Goto(r, new)
<1> DEFINE d == request[r].doc
           k == request[r].key
           day == IF request[r].signs THEN request[r].day ELSE reading[d].signed
           moves == /\ ~SameValueHeld(k, d, letting[k].end, day)
                    /\ letting[k].end # day
           new == [request[r] EXCEPT !.pc = "copy", !.day = day,
                     !.stamped = reading[d].promoted, !.moves = moves]
<1>1. d \in Documents
  BY RequestFields DEF ReadPromotion, At, Request, Documents
<1>2. reading[d] \in [signed: Days \cup {NoDay}, promoted: BOOLEAN]
  BY <1>1 DEF Typed
<1>3. moves \in BOOLEAN /\ day \in Days \cup {NoDay}
  BY <1>2, RequestFields
<1>4. new \in Request /\ new.pc = "copy"
  <2> HIDE DEF moves, day
  <2> QED BY <1>2, <1>3, RequestFields DEF Request
<1>5. Goto(r, new)
  BY DEF ReadPromotion
<1> HIDE DEF new
<1> QED BY <1>4, <1>5

LEMMA CopyLands ==
  ASSUME Typed, Apart, NEW r \in Requests, Copy(r)
  PROVE  /\ letting' \in [Days -> Tenancy] /\ Apart'
         /\ \A k \in Days : letting'[k].status = letting[k].status
<1> DEFINE k == request[r].key
           row == [letting[k] EXCEPT !.end = request[r].day]
<1>1. CASE ~(request[r].moves /\ k \in Days)
  <2>1. letting' = letting
    BY <1>1 DEF Copy, Typed
  <2> QED BY <2>1 DEF Typed, Apart, OneHouseholdPerDay, Active
<1>2. CASE request[r].moves /\ k \in Days
  <2>1. row \in Tenancy /\ row.status = letting[k].status
    BY <1>2, RequestFields DEF Typed, Tenancy
  <2>2. letting' = [letting EXCEPT ![k] = row] /\ Allowed(k, row)
    BY <1>2 DEF Copy
  <2>3. Apart'
    BY <1>2, <2>1, <2>2, RowLands
  <2> HIDE DEF row
  <2> QED BY <1>2, <2>1, <2>2, <2>3 DEF Typed
<1> QED BY <1>1, <1>2

-----------------------------------------------------------------------------
LEMMA StepTypedApart ==
  ASSUME Typed, Apart, Earned, [Next]_vars
  PROVE  Typed' /\ Apart'
<1>0. ASSUME UNCHANGED letting PROVE Apart'
  BY <1>0 DEF Apart, OneHouseholdPerDay, Active
<1>1. ASSUME NEW r \in Requests, NEW new \in Request, Begin(r, new)
      PROVE  Typed' /\ Apart'
  BY <1>1, <1>0 DEF Begin, Typed, paper, records
<1>2. ASSUME NEW r \in Requests, NEW d \in Documents, NEW day \in Days,
             BeginApprove(r, d, day)
      PROVE  Typed' /\ Apart'
  <2>1. [Idle EXCEPT !.pc = "approve", !.doc = d, !.day = day] \in Request
    BY DEF Idle, Request
  <2> QED BY <1>1, <1>2, <2>1 DEF BeginApprove
<1>3. ASSUME NEW r \in Requests, NEW d \in Leases, BeginOpen(r, d)
      PROVE  Typed' /\ Apart'
  <2>1. startOf[d] \in Days /\ reading[d].signed \in Days \cup {NoDay}
    BY DEF Typed, Documents
  <2>2. [Idle EXCEPT !.pc = "open", !.doc = d, !.key = startOf[d],
                     !.first = reading[d].signed] \in Request
    BY <2>1 DEF Idle, Request, Documents
  <2> QED BY <1>1, <1>3, <2>2 DEF BeginOpen
<1>5. ASSUME NEW r \in Requests, ReadPromotion(r)
      PROVE  Typed' /\ Apart'
  <2>1. PICK new \in Request : new.pc = "copy" /\ Goto(r, new)
    BY <1>5, PromotionRead
  <2> QED BY <1>5, <1>0, <2>1, Moved DEF ReadPromotion, Typed, paper, records
<1>6. ASSUME NEW r \in Requests, NEW d \in Amendments, NEW read \in Days,
             BeginAmend(r, d, read)
      PROVE  Typed' /\ Apart'
  <2>1. d \in Documents
    BY DEF Documents
  <2>2. /\ reading[d].signed \in Days \cup {NoDay}
        /\ linked[d] \in Days \cup {NoDay}
    BY <2>1 DEF Typed
  <2>3. \E new \in Request : Begin(r, new)
    BY <1>6, <2>1, <2>2 DEF BeginAmend, Idle, Request
  <2> QED BY <1>1, <1>6, <2>3 DEF BeginAmend
<1>7. ASSUME NEW r \in Requests, NEW k \in Days, BeginActivate(r, k)
      PROVE  Typed' /\ Apart'
  <2>1. [Idle EXCEPT !.pc = "activate", !.key = k] \in Request
    BY DEF Idle, Request
  <2> QED BY <1>1, <1>7, <2>1 DEF BeginActivate
<1>8. ASSUME NEW r \in Requests, NEW k \in Days, NEW moveOut \in Days,
             BeginEnd(r, k, moveOut)
      PROVE  Typed' /\ Apart'
  <2>1. [Idle EXCEPT !.pc = "end", !.key = k, !.day = moveOut] \in Request
    BY DEF Idle, Request
  <2> QED BY <1>1, <1>8, <2>1 DEF BeginEnd
<1>9. ASSUME NEW r \in Requests, ApproveExtractedField(r)
      PROVE  Typed' /\ Apart'
  <2>1. reading' \in [Documents ->
                       [signed: Days \cup {NoDay}, promoted: BOOLEAN]]
    BY <1>9, RequestFields DEF ApproveExtractedField, Typed
  <2> QED BY <1>9, <1>0, <2>1, Moved, RequestFields
          DEF ApproveExtractedField, Finish, Typed, records
<1>10. ASSUME NEW r \in Requests, ReadSigned(r)
       PROVE  Typed' /\ Apart'
  <2>1. request[r].doc \in Documents
    BY <1>10 DEF ReadSigned, At, Earned, Opening, Documents
  <2>2. reading[request[r].doc].signed \in Days \cup {NoDay}
    BY <2>1 DEF Typed
  <2>3. [request[r] EXCEPT !.pc = "write",
           !.day = reading[request[r].doc].signed] \in Request
    BY <2>2, RequestFields DEF Request
  <2> QED BY <1>10, <1>0, <2>3, Moved
          DEF ReadSigned, Typed, paper, records
<1>11. ASSUME NEW r \in Requests, OpenLeaseDraft(r)
       PROVE  Typed' /\ Apart'
  <2> DEFINE d == request[r].doc
             k == request[r].key
             end == IF ~SameValueHeld(k, d, request[r].first, request[r].day)
                    THEN request[r].day ELSE request[r].first
  <2>1. request' \in [Requests -> Request]
    BY <1>11, Moved, RequestFields DEF OpenLeaseDraft, Finish
  <2>2. d \in Documents /\ linked[d] = NoDay
    BY <1>11 DEF OpenLeaseDraft, At, Earned, Opening, Documents
  <2>3. k \in Days \cup {NoDay} /\ end \in Days \cup {NoDay}
    BY RequestFields DEF Request
  <2>4. CASE UNCHANGED <<letting, linked, reading>>
    BY <1>11, <1>0, <2>1, <2>4 DEF OpenLeaseDraft, Typed
  <2>5. CASE /\ letting' = [letting EXCEPT ![k] = Draft(end)]
             /\ linked' = [linked EXCEPT ![d] = k]
             /\ reading' = [reading EXCEPT ![d].promoted = TRUE]
    <3>1. Draft(end) \in Tenancy /\ Draft(end).status # "ACTIVE"
      BY <2>3 DEF Draft, Tenancy, Statuses
    <3>2. Apart'
      <4>1. CASE k \in Days
        BY <4>1, <2>5, <3>1, RowLands
      <4>2. CASE k \notin Days
        BY <4>2, <2>5, <1>0 DEF Typed
      <4> QED BY <4>1, <4>2
    <3>3. letting' \in [Days -> Tenancy]
      BY <2>5, <3>1 DEF Typed
    <3>4. linked' \in [Documents -> Days \cup {NoDay}]
      BY <2>5, <2>3 DEF Typed
    <3>5. reading' \in [Documents ->
                         [signed: Days \cup {NoDay}, promoted: BOOLEAN]]
      BY <2>5 DEF Typed
    <3>6. startOf' = startOf
      BY <1>11 DEF OpenLeaseDraft
    <3> QED BY <2>1, <3>2, <3>3, <3>4, <3>5, <3>6 DEF Typed
  <2> QED BY <1>11, <2>4, <2>5 DEF OpenLeaseDraft
<1>13. ASSUME NEW r \in Requests, ConfirmAmendment(r)
       PROVE  Typed' /\ Apart'
  <2>1. request' \in [Requests -> Request]
    BY <1>13, Moved, RequestFields DEF ConfirmAmendment, Finish
  <2>2. CASE UNCHANGED <<letting, reading>>
    BY <1>13, <1>0, <2>1, <2>2 DEF ConfirmAmendment, Typed
  <2>3. CASE ~request[r].stamped
    <3>1. reading' \in [Documents ->
                         [signed: Days \cup {NoDay}, promoted: BOOLEAN]]
      <4> DEFINE d == request[r].doc
                 new == [signed |-> IF request[r].signs THEN request[r].day
                                                 ELSE reading[d].signed,
                         promoted |-> TRUE]
      <4>1. CASE d \in Documents
        <5>1. reading[d].signed \in Days \cup {NoDay}
          BY <4>1 DEF Typed
        <5>2. new \in [signed: Days \cup {NoDay}, promoted: BOOLEAN]
          BY <5>1, RequestFields
        <5>3. reading' = [reading EXCEPT ![d] = new]
          BY <1>13, <2>3 DEF ConfirmAmendment
        <5> HIDE DEF new
        <5> QED BY <4>1, <5>2, <5>3 DEF Typed
      <4>2. CASE d \notin Documents
        BY <1>13, <2>3, <4>2 DEF ConfirmAmendment, Typed
      <4> QED BY <4>1, <4>2
    <3>2. Copy(r)
      BY <1>13, <2>3 DEF ConfirmAmendment
    <3> QED BY <1>13, <2>1, <3>1, <3>2, CopyLands DEF ConfirmAmendment, Typed
  <2> QED BY <1>13, <2>2, <2>3 DEF ConfirmAmendment
<1>14. ASSUME NEW r \in Requests, CopyRefused(r) \/ Stop(r)
       PROVE  Typed' /\ Apart'
  BY <1>14, <1>0, Moved, RequestFields
     DEF CopyRefused, Stop, Finish, Typed, paper, records
<1>15. ASSUME NEW r \in Requests, ActivateTenancy(r)
       PROVE  Typed' /\ Apart'
  <2> DEFINE k == request[r].key
             new == [letting[k] EXCEPT !.status = "ACTIVE"]
  <2>1. k \in Days
    BY <1>15 DEF ActivateTenancy, At, Earned
  <2>2. new \in Tenancy
    BY <2>1 DEF Typed, Tenancy, Statuses
  <2>3. [request[r] EXCEPT !.pc = "tell"] \in Request
    BY RequestFields DEF Request
  <2>4. request' \in [Requests -> Request]
    BY <1>15, <2>3, Moved, RequestFields DEF ActivateTenancy, Finish
  <2>5. CASE letting' = [letting EXCEPT ![k] = new] /\ Allowed(k, new)
    <3>1. Apart'
      BY <2>1, <2>2, <2>5, RowLands
    <3> HIDE DEF new
    <3> QED BY <1>15, <2>1, <2>2, <2>4, <2>5, <3>1
            DEF ActivateTenancy, Typed, paper
  <2>6. CASE UNCHANGED letting
    BY <1>15, <1>0, <2>4, <2>6 DEF ActivateTenancy, Typed, paper
  <2> QED BY <1>15, <2>5, <2>6 DEF ActivateTenancy
<1>16. ASSUME NEW r \in Requests, TellActivated(r)
       PROVE  Typed' /\ Apart'
  BY <1>16, <1>0, Moved, RequestFields DEF TellActivated, Finish, Typed, paper
<1>26. ASSUME NEW r \in Requests, NEW k \in Days, NEW option \in Days,
              BeginExtend(r, k, option)
       PROVE  Typed' /\ Apart'
  <2>1. [Idle EXCEPT !.pc = "extend", !.key = k, !.day = option] \in Request
    BY DEF Idle, Request
  <2> QED BY <1>1, <1>26, <2>1 DEF BeginExtend
<1>27. ASSUME NEW r \in Requests, ExerciseOption(r)
       PROVE  Typed' /\ Apart'
  <2> DEFINE k == request[r].key
             new == [letting[k] EXCEPT !.end = request[r].day]
  <2>1. [request[r] EXCEPT !.pc = "told"] \in Request
    BY RequestFields DEF Request
  <2>2. request' \in [Requests -> Request]
    BY <1>27, <2>1, Moved, RequestFields DEF ExerciseOption, Finish
  <2>3. CASE /\ k \in Days
             /\ letting' = [letting EXCEPT ![k] = new] /\ Allowed(k, new)
    <3>1. new \in Tenancy
      BY <2>3, RequestFields DEF Typed, Tenancy
    <3>2. Apart'
      BY <2>3, <3>1, RowLands
    <3> HIDE DEF new
    <3> QED BY <1>27, <2>2, <2>3, <3>1, <3>2 DEF ExerciseOption, Typed, paper
  <2>4. CASE UNCHANGED letting
    BY <1>27, <1>0, <2>2, <2>4 DEF ExerciseOption, Typed, paper
  <2>5. k \notin Days => [letting EXCEPT ![k] = new] = letting
    BY DEF Typed
  <2> QED BY <1>27, <2>3, <2>4, <2>5 DEF ExerciseOption
<1>28. ASSUME NEW r \in Requests, TellExtended(r)
       PROVE  Typed' /\ Apart'
  BY <1>28, <1>0, Moved, RequestFields DEF TellExtended, Finish, Typed, paper
<1>17. ASSUME NEW r \in Requests, EndTenancyEarly(r)
       PROVE  Typed' /\ Apart'
  <2> DEFINE k == request[r].key
             new == [letting[k] EXCEPT !.status = "TERMINATED_EARLY",
                                       !.moveOut = request[r].day]
  <2>1. request' \in [Requests -> Request]
    BY <1>17, Moved, RequestFields DEF EndTenancyEarly, Finish
  <2>2. CASE k \in Days /\ MayEnd(k)
    <3>1. new \in Tenancy /\ new.status # "ACTIVE"
      BY <2>2, RequestFields DEF Typed, Tenancy, Statuses
    <3>2. letting' = [letting EXCEPT ![k] = new]
      BY <1>17, <2>2 DEF EndTenancyEarly, Typed
    <3> HIDE DEF new
    <3>3. Apart' /\ letting' \in [Days -> Tenancy]
      BY <2>2, <3>1, <3>2, RowLands DEF Typed
    <3> QED BY <1>17, <2>1, <3>3 DEF EndTenancyEarly, Typed, paper
  <2>3. CASE ~(k \in Days /\ MayEnd(k))
    <3>1. letting' = letting
      BY <1>17, <2>3 DEF EndTenancyEarly, Typed
    <3> QED BY <1>17, <1>0, <2>1, <3>1 DEF EndTenancyEarly, Typed, paper
  <2> QED BY <2>2, <2>3
<1>18. ASSUME ExpireDueTenancies
       PROVE  Typed' /\ Apart'
  <2>1. \A k \in Days :
          /\ letting'[k] = IF Due(k) THEN [letting[k] EXCEPT !.status = "ENDED"]
                                     ELSE letting[k]
          /\ letting[k] \in Tenancy
    BY <1>18 DEF ExpireDueTenancies, Typed
  <2>2. \A k \in Days : /\ letting'[k] \in Tenancy
                        /\ Active(k)' => Active(k)
                        /\ letting'[k].end = letting[k].end
    BY <2>1 DEF Tenancy, Statuses, Active
  <2>3. letting' \in [Days -> Tenancy]
    BY <1>18, <2>2 DEF ExpireDueTenancies
  <2>4. Apart'
    BY <2>2 DEF Apart, OneHouseholdPerDay, PeriodIsOrdered
  <2> QED BY <1>18, <2>3, <2>4 DEF ExpireDueTenancies, Typed, paper
<1>19. ASSUME NEW k \in Days, NEW end \in Days, NEW status \in Statuses,
              ImportRegister(k, end, status)
       PROVE  Typed' /\ Apart'
  <2> DEFINE new == [status |-> status, end |-> end, moveOut |-> NoDay]
  <2>1. new \in Tenancy
    BY DEF Tenancy
  <2>2. letting' = [letting EXCEPT ![k] = new] /\ Allowed(k, new)
    BY <1>19 DEF ImportRegister
  <2> HIDE DEF new
  <2>3. Apart'
    BY <2>1, <2>2, RowLands
  <2>4. letting' \in [Days -> Tenancy]
    BY <2>1, <2>2 DEF Typed
  <2> QED BY <1>19, <2>3, <2>4 DEF ImportRegister, Typed, paper
<1>20. ASSUME NEW d \in Documents, NEW k \in Days,
              linked' = [linked EXCEPT ![d] = k],
              UNCHANGED <<startOf, reading, letting, request>>
       PROVE  Typed' /\ Apart'
  BY <1>20, <1>0 DEF Typed
<1>21. ASSUME NEW d \in Leases, Attach(d)
       PROVE  Typed' /\ Apart'
  BY <1>20, <1>21 DEF Attach, Typed, Documents, records
<1>22. ASSUME NEW d \in Amendments, NEW k \in Days, FileAmendment(d, k)
       PROVE  Typed' /\ Apart'
  BY <1>20, <1>22 DEF FileAmendment, Documents, records
<1>23. ASSUME UNCHANGED <<paper, letting, request>>
       PROVE  Typed' /\ Apart'
  BY <1>23, <1>0 DEF Typed, paper
<1>24. ASSUME NEW k \in Days, Handover(k)
       PROVE  Typed' /\ Apart'
  BY <1>23, <1>24 DEF Handover
<1>25. CASE NextDay \/ UNCHANGED vars
  BY <1>23, <1>25 DEF NextDay, vars, records
<1> QED
  BY <1>2, <1>3, <1>5, <1>6, <1>7, <1>8, <1>9, <1>10, <1>11, <1>13, <1>14,
     <1>15, <1>16, <1>17, <1>18, <1>19, <1>21, <1>22, <1>24, <1>25,
     <1>26, <1>27, <1>28
     DEF Next

-----------------------------------------------------------------------------
(* A step of one request that comes to no gate, and to an opening only from *)
(* one, and links no paper.                                                *)
LEMMA QuietStep ==
  ASSUME Typed, Earned, NEW r \in Requests, NEW new \in Request,
         request' = [request EXCEPT ![r] = new],
         new.pc # "activate",
         new.pc \in {"open", "write"} =>
           Opening(r) /\ new.doc = request[r].doc,
         UNCHANGED <<today, linked, handover, rewritten>>,
         \A k \in Days : letting'[k].status \notin {"none", "DRAFT"} =>
           \/ letting[k].status \notin {"none", "DRAFT"}
           \/ DocumentsHeld(k) /\ k <= today
  PROVE  Earned'
<1>1. \A q \in Requests : request'[q] = IF q = r THEN new ELSE request[q]
  BY DEF Typed
<1>2. \A q \in Requests : Opening(q)' =>
        /\ Opening(q) /\ request'[q].doc = request[q].doc
        /\ linked'[request[q].doc] = NoDay
  BY <1>1 DEF Opening, Earned
<1>3. \A q \in Requests : At(q, "activate")' =>
        At(q, "activate") /\ request'[q].key = request[q].key
  BY <1>1 DEF At
<1>4. today' \in Nat /\ today <= today'
  BY DEF Earned
<1> QED BY <1>2, <1>3, <1>4, FactsStand

(* A step that moves no request and links only what no opening holds.      *)
LEMMA OutsideStep ==
  ASSUME Typed, Earned, UNCHANGED <<request>>,
         today' \in Nat, today <= today', handover \subseteq handover',
         rewritten \subseteq rewritten',
         \A d \in Leases : linked[d] # NoDay => linked'[d] = linked[d],
         \A r \in Requests : Opening(r) => linked'[request[r].doc] = NoDay,
         \A k \in Days : letting'[k].status \notin {"none", "DRAFT"} =>
           letting[k].status \notin {"none", "DRAFT"} \/ k \in rewritten'
  PROVE  Earned'
<1>1. \A q \in Requests : /\ Opening(q)' <=> Opening(q)
                          /\ At(q, "activate")' <=> At(q, "activate")
  BY DEF Opening, At
<1> QED BY <1>1, FactsStand

LEMMA StepEarned ==
  ASSUME Typed, Apart, Earned, [Next]_vars
  PROVE  Earned'
<1>1. ASSUME NEW r \in Requests, NEW new \in Request, Begin(r, new),
             new.pc \notin {"activate", "open", "write"}
      PROVE  Earned'
  BY <1>1, QuietStep DEF Begin, paper, records
<1>2. ASSUME NEW r \in Requests, NEW d \in Documents, NEW day \in Days,
             BeginApprove(r, d, day)
      PROVE  Earned'
  <2> DEFINE new == [Idle EXCEPT !.pc = "approve", !.doc = d, !.day = day]
  <2>1. new \in Request /\ new.pc = "approve"
    BY DEF Idle, Request
  <2>2. Begin(r, new)
    BY <1>2 DEF BeginApprove
  <2> HIDE DEF new
  <2> QED BY <1>1, <2>1, <2>2
<1>3. ASSUME NEW r \in Requests, NEW d \in Leases, BeginOpen(r, d)
      PROVE  Earned'
  <2> DEFINE new == [Idle EXCEPT !.pc = "open", !.doc = d, !.key = startOf[d],
                                 !.first = reading[d].signed]
  <2>1. new.pc = "open" /\ new.doc = d
    BY DEF Idle
  <2>2. /\ request' = [request EXCEPT ![r] = new]
        /\ UNCHANGED <<today, linked, handover, rewritten, letting>>
        /\ linked[d] = NoDay /\ ~Held(d)
    BY <1>3 DEF BeginOpen, Begin, paper, records
  <2> HIDE DEF new
  <2>3. \A q \in Requests : request'[q] = IF q = r THEN new ELSE request[q]
    BY <2>2 DEF Typed
  <2>4. \A q \in Requests : Opening(q) => request[q].doc # d
    BY <2>2 DEF Held, Opening
  <2>5. \A q \in Requests : Opening(q)' =>
          request'[q].doc \in Leases /\ linked'[request'[q].doc] = NoDay
    BY <2>1, <2>2, <2>3 DEF Opening, Earned
  <2>6. \A p, q \in Requests :
          Opening(p)' /\ Opening(q)' /\ request'[p].doc = request'[q].doc
            => p = q
    BY <2>1, <2>3, <2>4 DEF Opening, Earned
  <2>7. \A q \in Requests : At(q, "activate")' =>
          At(q, "activate") /\ request'[q].key = request[q].key
    BY <2>1, <2>3 DEF At
  <2>8. ActivationIsEarned'
    BY <2>2 DEF Earned, ActivationIsEarned, DocumentsHeld
  <2> QED BY <2>2, <2>5, <2>6, <2>7, <2>8 DEF Earned, DocumentsHeld
<1>5. ASSUME NEW r \in Requests, ReadPromotion(r)
      PROVE  Earned'
  <2>1. PICK new \in Request : new.pc = "copy" /\ Goto(r, new)
    BY <1>5, PromotionRead
  <2> QED BY <1>5, <2>1, QuietStep DEF ReadPromotion, Goto, paper, records
<1>6. ASSUME NEW r \in Requests, NEW d \in Amendments, NEW read \in Days,
             BeginAmend(r, d, read)
      PROVE  Earned'
  <2>1. d \in Documents
    BY DEF Documents
  <2>2. /\ reading[d].signed \in Days \cup {NoDay}
        /\ linked[d] \in Days \cup {NoDay}
    BY <2>1 DEF Typed
  <2> DEFINE signs == reading[d].signed = NoDay
             new == [Idle EXCEPT !.pc = "amend", !.doc = d, !.key = linked[d],
                       !.day = IF signs THEN read ELSE reading[d].signed,
                       !.signs = signs]
  <2>3. new \in Request /\ new.pc = "amend"
    BY <2>1, <2>2 DEF Idle, Request
  <2>4. Begin(r, new)
    BY <1>6 DEF BeginAmend
  <2> HIDE DEF new
  <2> QED BY <1>1, <2>3, <2>4
<1>7. ASSUME NEW r \in Requests, NEW k \in Days, BeginActivate(r, k)
      PROVE  Earned'
  <2> DEFINE new == [Idle EXCEPT !.pc = "activate", !.key = k]
  <2>1. new.pc = "activate" /\ new.key = k
    BY DEF Idle
  <2>2. /\ request' = [request EXCEPT ![r] = new]
        /\ UNCHANGED <<today, linked, handover, rewritten, letting>>
        /\ DocumentsHeld(k) /\ k <= today
    BY <1>7 DEF BeginActivate, ActivationGate, Begin, paper, records
  <2> HIDE DEF new
  <2>3. \A q \in Requests : request'[q] = IF q = r THEN new ELSE request[q]
    BY <2>2 DEF Typed
  <2>4. \A q \in Requests : Opening(q)' => Opening(q) /\ q # r
    BY <2>1, <2>3 DEF Opening
  <2>5. \A q \in Requests : At(q, "activate")' =>
          /\ request'[q].key \in Days
          /\ DocumentsHeld(request'[q].key) /\ request'[q].key <= today
    BY <2>1, <2>2, <2>3 DEF At, Earned
  <2>6. ActivationIsEarned'
    BY <2>2 DEF Earned, ActivationIsEarned, DocumentsHeld
  <2>7. \A p, q \in Requests :
          Opening(p)' /\ Opening(q)' /\ request'[p].doc = request'[q].doc
            => p = q
    BY <2>3, <2>4 DEF Earned
  <2>8. \A q \in Requests : Opening(q)' =>
          request'[q].doc \in Leases /\ linked'[request'[q].doc] = NoDay
    BY <2>2, <2>3, <2>4 DEF Earned
  <2> QED BY <2>2, <2>5, <2>6, <2>7, <2>8 DEF Earned, DocumentsHeld
<1>8. ASSUME NEW r \in Requests, NEW k \in Days, NEW moveOut \in Days,
             BeginEnd(r, k, moveOut)
      PROVE  Earned'
  <2> DEFINE new == [Idle EXCEPT !.pc = "end", !.key = k, !.day = moveOut]
  <2>1. new \in Request /\ new.pc = "end"
    BY DEF Idle, Request
  <2>2. Begin(r, new)
    BY <1>8 DEF BeginEnd
  <2> HIDE DEF new
  <2> QED BY <1>1, <2>1, <2>2
<1>9. ASSUME NEW r \in Requests, Finish(r),
             UNCHANGED <<today, linked, handover, rewritten>>,
             \A k \in Days : letting'[k].status \notin {"none", "DRAFT"} =>
               letting[k].status \notin {"none", "DRAFT"}
      PROVE  Earned'
  <2>1. Idle \in Request /\ Idle.pc = "idle"
    BY DEF Idle, Request
  <2> QED BY <1>9, <2>1, QuietStep DEF Finish, Goto
<1>10. ASSUME NEW r \in Requests, ApproveExtractedField(r)
       PROVE  Earned'
  BY <1>9, <1>10 DEF ApproveExtractedField, records
<1>11. ASSUME NEW r \in Requests, ReadSigned(r)
       PROVE  Earned'
  <2> DEFINE new == [request[r] EXCEPT !.pc = "write",
                       !.day = reading[request[r].doc].signed]
  <2>1. request[r].doc \in Documents /\ Opening(r)
    BY <1>11 DEF ReadSigned, At, Earned, Opening, Documents
  <2>2. reading[request[r].doc].signed \in Days \cup {NoDay}
    BY <2>1 DEF Typed
  <2>3. new \in Request /\ new.pc = "write" /\ new.doc = request[r].doc
    BY <2>2, RequestFields DEF Request
  <2>4. request' = [request EXCEPT ![r] = new]
    BY <1>11 DEF ReadSigned, Goto
  <2> HIDE DEF new
  <2> QED BY <1>11, <2>1, <2>3, <2>4, QuietStep
          DEF ReadSigned, paper, records
<1>12. ASSUME NEW r \in Requests, OpenLeaseDraft(r)
       PROVE  Earned'
  <2> DEFINE d == request[r].doc
             k == request[r].key
  <2>1. Opening(r) /\ d \in Leases /\ d \in Documents /\ linked[d] = NoDay
    BY <1>12 DEF OpenLeaseDraft, At, Earned, Opening, Documents
  <2>2. CASE UNCHANGED <<letting, linked, rewritten>>
    BY <1>9, <1>12, <2>2 DEF OpenLeaseDraft
  <2>3. CASE /\ \E end : letting' = [letting EXCEPT ![k] = Draft(end)]
             /\ rewritten \subseteq rewritten'
             /\ linked' = [linked EXCEPT ![d] = k]
    <3>1. \A q \in Requests : request'[q] = IF q = r THEN Idle ELSE request[q]
      BY <1>12 DEF OpenLeaseDraft, Finish, Goto, Typed
    <3>2. \A q \in Requests : Opening(q)' =>
            /\ Opening(q) /\ request'[q].doc = request[q].doc
            /\ linked'[request[q].doc] = NoDay
      BY <2>1, <2>3, <3>1 DEF Opening, Idle, Earned, Typed, Documents
    <3>3. \A q \in Requests : At(q, "activate")' =>
            At(q, "activate") /\ request'[q].key = request[q].key
      BY <3>1 DEF At, Idle
    <3>4. \A e \in Leases : linked[e] # NoDay => linked'[e] = linked[e]
      BY <2>1, <2>3 DEF Typed, Documents
    <3>5. \A j \in Days : letting'[j].status \notin {"none", "DRAFT"} =>
            letting[j].status \notin {"none", "DRAFT"}
      BY <2>3 DEF Typed, Draft
    <3>6. today' = today /\ today \in Nat /\ handover' = handover
      BY <1>12 DEF OpenLeaseDraft, Earned
    <3> QED BY <2>3, <3>2, <3>3, <3>4, <3>5, <3>6, FactsStand
  <2> QED BY <1>12, <2>2, <2>3 DEF OpenLeaseDraft
<1>14. ASSUME NEW r \in Requests, ConfirmAmendment(r)
       PROVE  Earned'
  BY <1>9, <1>14, CopyLands DEF ConfirmAmendment
<1>15. ASSUME NEW r \in Requests, CopyRefused(r) \/ Stop(r)
       PROVE  Earned'
  BY <1>9, <1>15 DEF CopyRefused, Stop, paper, records
<1>16. ASSUME NEW r \in Requests, ActivateTenancy(r)
       PROVE  Earned'
  <2> DEFINE k == request[r].key
             new == [request[r] EXCEPT !.pc = "tell"]
  <2>1. k \in Days /\ DocumentsHeld(k) /\ k <= today
    BY <1>16 DEF ActivateTenancy, At, Earned
  <2>2. new \in Request /\ new.pc = "tell"
    BY RequestFields DEF Request
  <2>3. UNCHANGED <<today, linked, handover, rewritten>>
    BY <1>16 DEF ActivateTenancy, paper
  <2>4. CASE letting' = letting /\ Finish(r)
    BY <1>9, <2>3, <2>4
  <2>5. CASE /\ letting' = [letting EXCEPT ![k] =
                             [letting[k] EXCEPT !.status = "ACTIVE"]]
             /\ Goto(r, new)
    <3>1. \A j \in Days \ {k} : letting'[j] = letting[j]
      BY <2>5 DEF Typed
    <3> HIDE DEF new
    <3> QED BY <2>1, <2>2, <2>3, <2>5, <3>1, QuietStep DEF Goto
  <2> QED BY <1>16, <2>4, <2>5 DEF ActivateTenancy
<1>17. ASSUME NEW r \in Requests, TellActivated(r)
       PROVE  Earned'
  BY <1>9, <1>17 DEF TellActivated, paper
<1>27. ASSUME NEW r \in Requests, NEW k \in Days, NEW option \in Days,
              BeginExtend(r, k, option)
       PROVE  Earned'
  <2> DEFINE new == [Idle EXCEPT !.pc = "extend", !.key = k, !.day = option]
  <2>1. new \in Request /\ new.pc = "extend"
    BY DEF Idle, Request
  <2>2. Begin(r, new)
    BY <1>27 DEF BeginExtend
  <2> HIDE DEF new
  <2> QED BY <1>1, <2>1, <2>2
<1>28. ASSUME NEW r \in Requests, ExerciseOption(r)
       PROVE  Earned'
  <2> DEFINE k == request[r].key
             new == [request[r] EXCEPT !.pc = "told"]
  <2>1. new \in Request /\ new.pc = "told"
    BY RequestFields DEF Request
  <2>2. UNCHANGED <<today, linked, handover, rewritten>>
    BY <1>28 DEF ExerciseOption, paper
  <2>3. \A j \in Days : letting'[j].status = letting[j].status
    BY <1>28 DEF ExerciseOption, Typed, Tenancy
  <2>4. CASE Finish(r)
    BY <1>9, <2>2, <2>3, <2>4
  <2>5. CASE Goto(r, new)
    <3> HIDE DEF new
    <3> QED BY <2>1, <2>2, <2>3, <2>5, QuietStep DEF Goto
  <2> QED BY <1>28, <2>4, <2>5 DEF ExerciseOption
<1>29. ASSUME NEW r \in Requests, TellExtended(r)
       PROVE  Earned'
  BY <1>9, <1>29 DEF TellExtended, paper
<1>18. ASSUME NEW r \in Requests, EndTenancyEarly(r)
       PROVE  Earned'
  <2>1. \A k \in Days : letting'[k].status \notin {"none", "DRAFT"} =>
          letting[k].status \notin {"none", "DRAFT"}
    BY <1>18 DEF EndTenancyEarly, MayEnd, Active, Typed
  <2> QED BY <1>9, <1>18, <2>1 DEF EndTenancyEarly, paper
<1>19. ASSUME ExpireDueTenancies
       PROVE  Earned'
  <2>1. \A k \in Days : letting'[k].status \notin {"none", "DRAFT"} =>
          letting[k].status \notin {"none", "DRAFT"}
    BY <1>19 DEF ExpireDueTenancies, Due, Active
  <2>2. today' \in Nat /\ today <= today'
    BY <1>19 DEF ExpireDueTenancies, Earned
  <2>3. \A r \in Requests : Opening(r) => linked[request[r].doc] = NoDay
    BY DEF Earned
  <2> QED BY <1>19, <2>1, <2>2, <2>3, OutsideStep
          DEF ExpireDueTenancies, paper
<1>20. ASSUME NEW k \in Days, NEW end \in Days, NEW status \in Statuses,
              ImportRegister(k, end, status)
       PROVE  Earned'
  <2>1. \A j \in Days : letting'[j].status \notin {"none", "DRAFT"} =>
          letting[j].status \notin {"none", "DRAFT"} \/ j \in rewritten'
    BY <1>20 DEF ImportRegister, Typed
  <2>2. today' \in Nat /\ today <= today'
    BY <1>20 DEF ImportRegister, Earned
  <2>3. \A r \in Requests : Opening(r) => linked[request[r].doc] = NoDay
    BY DEF Earned
  <2> QED BY <1>20, <2>1, <2>2, <2>3, OutsideStep DEF ImportRegister, paper
<1>21. ASSUME UNCHANGED <<linked, letting, rewritten, request>>,
              handover \subseteq handover', today' \in Nat, today <= today'
       PROVE  Earned'
  <2>1. \A r \in Requests : Opening(r) => linked[request[r].doc] = NoDay
    BY DEF Earned
  <2> QED BY <1>21, <2>1, OutsideStep
<1>22. ASSUME NEW k \in Days, Handover(k)
       PROVE  Earned'
  BY <1>21, <1>22 DEF Handover, Earned, paper
<1>23. CASE NextDay \/ UNCHANGED vars
  <2>1. today' \in Nat /\ today <= today'
    BY <1>23 DEF NextDay, vars, Earned
  <2> QED BY <1>21, <1>23, <2>1 DEF NextDay, vars, paper, records
<1>24. ASSUME NEW d \in Documents, NEW k \in Days, linked[d] = NoDay,
              \A r \in Requests : Opening(r) => request[r].doc # d,
              linked' = [linked EXCEPT ![d] = k],
              UNCHANGED <<today, letting, handover, rewritten, request>>
       PROVE  Earned'
  <2>1. \A e \in Documents \ {d} : linked'[e] = linked[e]
    BY <1>24 DEF Typed
  <2>2. \A r \in Requests : Opening(r) => linked'[request[r].doc] = NoDay
    BY <1>24, <2>1 DEF Earned, Documents
  <2>3. today' \in Nat /\ today <= today'
    BY <1>24 DEF Earned
  <2> QED BY <1>24, <2>1, <2>2, <2>3, OutsideStep DEF Documents
<1>25. ASSUME NEW d \in Leases, Attach(d)
       PROVE  Earned'
  <2>1. \A r \in Requests : Opening(r) => request[r].doc # d
    BY <1>25 DEF Attach, Held, Opening
  <2>2. startOf[d] \in Days /\ d \in Documents
    BY DEF Typed, Documents
  <2> QED BY <1>24, <1>25, <2>1, <2>2 DEF Attach, records
<1>26. ASSUME NEW d \in Amendments, NEW k \in Days, FileAmendment(d, k)
       PROVE  Earned'
  <2>1. \A r \in Requests : Opening(r) => request[r].doc # d
    BY DocumentsAssumption DEF Earned
  <2> QED BY <1>24, <1>26, <2>1 DEF FileAmendment, Documents, records
<1> QED
  BY <1>2, <1>3, <1>5, <1>6, <1>7, <1>8, <1>10, <1>11, <1>12, <1>14,
     <1>15, <1>16, <1>17, <1>18, <1>19, <1>20, <1>22, <1>23, <1>25, <1>26,
     <1>27, <1>28, <1>29
     DEF Next

-----------------------------------------------------------------------------
(* No two active lettings of the flat share a day, whoever wrote last.     *)
THEOREM HouseholdsNeverShareADay == Spec => []OneHouseholdPerDay
<1>1. Typed /\ Apart /\ Earned /\ [Next]_vars => (Typed /\ Apart /\ Earned)'
  BY StepTypedApart, StepEarned
<1>2. Apart => OneHouseholdPerDay
  BY DEF Apart
<1> QED BY InitTyped, <1>1, <1>2, PTL DEF Spec

(* A letting the register did not write is activated only with its lease,  *)
(* its handover and its first day, although the UPDATE asks none of them.  *)
THEOREM ActivationStaysEarned == Spec => []ActivationIsEarned
<1>1. Typed /\ Apart /\ Earned /\ [Next]_vars => (Typed /\ Apart /\ Earned)'
  BY StepTypedApart, StepEarned
<1>2. Earned => ActivationIsEarned
  BY DEF Earned
<1> QED BY InitTyped, <1>1, <1>2, PTL DEF Spec

-----------------------------------------------------------------------------
(* The log.  A letting that stands has no end in its log, and one that     *)
(* ended has its own end there first.  A request that ends a letting was   *)
(* drawn while the letting was active.                                     *)
Stands(k) == letting[k].status \in {"none", "DRAFT", "ACTIVE"}
LogFits(k) ==
  /\ Stands(k) => \A i \in DOMAIN events[k] : events[k][i] \notin Ends
  /\ letting[k].status = "ENDED" => FirstEnd(k, "terminated")
  /\ letting[k].status = "TERMINATED_EARLY" => FirstEnd(k, "ended_early")
  /\ letting[k].moveOut # NoDay <=> letting[k].status = "TERMINATED_EARLY"
EndFits(r) ==
  At(r, "end") =>
    /\ request[r].key \in Days /\ request[r].day # NoDay
    /\ request[r].key \in rewritten \/ letting[request[r].key].status \notin {"none", "DRAFT"}
LogInv ==
  /\ events \in [Days -> Seq(EventKinds)]
  /\ \A r \in Requests : EndFits(r)
  /\ \A k \in Days \ rewritten : LogFits(k)

\* A step that tells nothing, ends nothing and begins no end.
LEMMA LogStays ==
  ASSUME Typed, LogInv, events' = events, rewritten \subseteq rewritten',
         \A k \in Days \ rewritten' :
           /\ letting'[k].moveOut = letting[k].moveOut
           /\ \/ letting'[k].status = letting[k].status
              \/ /\ Stands(k) /\ Stands(k)'
                 /\ letting'[k].status = "DRAFT" => letting[k].status = "none"
                 /\ letting'[k].status # "none",
         \A r \in Requests : At(r, "end")' =>
           At(r, "end") /\ request'[r].key = request[r].key /\ request'[r].day = request[r].day
  PROVE  LogInv'
<1>1. ASSUME NEW k \in Days \ rewritten'
      PROVE  LogFits(k)'
  BY DEF LogInv, LogFits, FirstEnd, Stands
<1>2. ASSUME NEW r \in Requests
      PROVE  EndFits(r)'
  BY DEF LogInv, EndFits, Stands
<1> QED BY <1>1, <1>2 DEF LogInv

\* An event after the others is told first only where no end was told.
LEMMA ToldAfter ==
  ASSUME NEW s \in Seq(EventKinds), NEW e \in EventKinds
  PROVE  /\ Append(s, e) \in Seq(EventKinds)
         /\ DOMAIN Append(s, e) = 1..(Len(s) + 1) /\ DOMAIN s = 1..Len(s) /\ Len(s) \in Nat
         /\ \A i \in 1..Len(s) : Append(s, e)[i] = s[i]
         /\ Append(s, e)[Len(s) + 1] = e
OBVIOUS

LEMMA LogGrows ==
  ASSUME LogInv, NEW k \in Days, NEW e \in EventKinds, events' = [events EXCEPT ![k] = Append(@, e)]
  PROVE  /\ events' \in [Days -> Seq(EventKinds)]
         /\ \A j \in Days \ {k} : events'[j] = events[j]
         /\ \A kind \in Ends : FirstEnd(k, kind) => FirstEnd(k, kind)'
         /\ e \in Ends /\ (\A i \in DOMAIN events[k] : events[k][i] \notin Ends) => FirstEnd(k, e)'
         /\ e \notin Ends /\ (\A i \in DOMAIN events[k] : events[k][i] \notin Ends) =>
              \A i \in DOMAIN events'[k] : events'[k][i] \notin Ends
<1> DEFINE s == events[k]
           t == Append(s, e)
<1>1. s \in Seq(EventKinds) /\ events'[k] = t
  BY DEF LogInv
<1>2. /\ t \in Seq(EventKinds) /\ DOMAIN t = 1..(Len(s) + 1) /\ DOMAIN s = 1..Len(s) /\ Len(s) \in Nat
      /\ \A i \in 1..Len(s) : t[i] = s[i]
      /\ t[Len(s) + 1] = e
  BY <1>1, ToldAfter
<1>3. events' \in [Days -> Seq(EventKinds)] /\ \A j \in Days \ {k} : events'[j] = events[j]
  BY <1>1, <1>2 DEF LogInv
<1> HIDE DEF s, t
<1>4. ASSUME NEW kind \in Ends, NEW i \in DOMAIN s, s[i] = kind, \A j \in 1..(i - 1) : s[j] \notin Ends
      PROVE  \E x \in DOMAIN t : t[x] = kind /\ \A j \in 1..(x - 1) : t[j] \notin Ends
  BY <1>2, <1>4
<1>5. ASSUME e \in Ends, \A i \in DOMAIN s : s[i] \notin Ends
      PROVE  \E x \in DOMAIN t : t[x] = e /\ \A j \in 1..(x - 1) : t[j] \notin Ends
  <2>1. Len(s) + 1 \in DOMAIN t /\ \A j \in 1..(Len(s) + 1 - 1) : t[j] \notin Ends
    BY <1>2, <1>5
  <2> QED BY <1>2, <2>1
<1>6. ASSUME e \notin Ends, \A i \in DOMAIN s : s[i] \notin Ends
      PROVE  \A i \in DOMAIN t : t[i] \notin Ends
  BY <1>2, <1>6
<1>7. \A kind \in Ends : FirstEnd(k, kind) => FirstEnd(k, kind)'
  BY <1>1, <1>4 DEF FirstEnd, s
<1>8. e \in Ends /\ (\A i \in DOMAIN events[k] : events[k][i] \notin Ends) => FirstEnd(k, e)'
  BY <1>1, <1>5 DEF FirstEnd, s
<1> QED BY <1>1, <1>3, <1>6, <1>7, <1>8 DEF s

LEMMA TellStep ==
  ASSUME Typed, LogInv, NEW r \in Requests, TellActivated(r) \/ TellExtended(r)
  PROVE  LogInv'
<1>9. PICK k : k = request[r].key
  OBVIOUS
<1>0. PICK kind \in {"activated", "extended"} : Tell(k, kind)
  BY <1>9 DEF TellActivated, TellExtended
<1>1. /\ events' = [events EXCEPT ![k] = Append(@, kind)]
      /\ request' = [request EXCEPT ![r] = Idle]
      /\ UNCHANGED <<letting, rewritten>>
  BY <1>0 DEF TellActivated, TellExtended, Tell, Finish, Goto
<1>2. \A q \in Requests : EndFits(q)'
  BY <1>1 DEF LogInv, EndFits, At, Idle, Typed
<1>3. CASE k \in Days
  <2>0. kind \in EventKinds /\ kind \notin Ends
    BY DEF EventKinds, Ends
  <2>1. events' \in [Days -> Seq(EventKinds)] /\ \A j \in Days \ {k} : events'[j] = events[j]
    BY <1>1, <1>3, <2>0, LogGrows
  <2>2. \A end \in Ends : FirstEnd(k, end) => FirstEnd(k, end)'
    BY <1>1, <1>3, <2>0, LogGrows
  <2>3. (\A i \in DOMAIN events[k] : events[k][i] \notin Ends) =>
          \A i \in DOMAIN events'[k] : events'[k][i] \notin Ends
    BY <1>1, <1>3, <2>0, LogGrows
  <2>4. ASSUME NEW j \in Days \ rewritten'
        PROVE  LogFits(j)'
    <3>1. LogFits(j) /\ letting' = letting /\ {"terminated", "ended_early"} \subseteq Ends
      BY <1>1 DEF LogInv, Ends
    <3>2. CASE j = k
      BY <2>2, <2>3, <3>1, <3>2 DEF LogFits, Stands
    <3>3. CASE j # k
      BY <2>1, <3>1, <3>3 DEF LogFits, FirstEnd, Stands
    <3> QED BY <3>2, <3>3
  <2> QED BY <1>2, <2>1, <2>4 DEF LogInv
<1>4. CASE k \notin Days
  BY <1>1, <1>2, <1>4 DEF LogInv, LogFits, FirstEnd, Stands
<1> QED BY <1>3, <1>4

LEMMA EndStep ==
  ASSUME Typed, LogInv, NEW r \in Requests, EndTenancyEarly(r)
  PROVE  LogInv'
<1>0. PICK k, day : k = request[r].key /\ day = request[r].day
  OBVIOUS
<1>1. /\ k \in Days /\ day # NoDay
      /\ k \in rewritten \/ letting[k].status \notin {"none", "DRAFT"}
  BY <1>0 DEF EndTenancyEarly, LogInv, EndFits
<1>2. /\ events' = [events EXCEPT ![k] = Append(@, "ended_early")]
      /\ request' = [request EXCEPT ![r] = Idle] /\ rewritten' = rewritten
      /\ letting' = IF ~Active(k) THEN letting
                    ELSE [letting EXCEPT ![k].status = "TERMINATED_EARLY", ![k].moveOut = day]
  BY <1>0 DEF EndTenancyEarly, MayEnd, Tell, Finish, Goto
<1>3. letting[k] \in Tenancy /\ letting \in [Days -> Tenancy]
  BY <1>1 DEF Typed
<1>4. /\ \A j \in Days \ {k} : letting'[j] = letting[j]
      /\ ~Active(k) => letting'[k] = letting[k]
      /\ Active(k) => letting'[k].status = "TERMINATED_EARLY" /\ letting'[k].moveOut = day
  BY <1>1, <1>2, <1>3 DEF Tenancy
<1>5. \A q \in Requests : EndFits(q)'
  BY <1>2, <1>4 DEF LogInv, EndFits, At, Idle, Typed, Active
<1>9. "ended_early" \in EventKinds /\ Ends = {"terminated", "ended_early"}
  BY DEF EventKinds, Ends
<1>6. /\ events' \in [Days -> Seq(EventKinds)] /\ \A j \in Days \ {k} : events'[j] = events[j]
      /\ \A kind \in Ends : FirstEnd(k, kind) => FirstEnd(k, kind)'
  BY <1>1, <1>2, <1>9, LogGrows
<1>7. (\A i \in DOMAIN events[k] : events[k][i] \notin Ends) => FirstEnd(k, "ended_early")'
  BY <1>1, <1>2, <1>9, LogGrows
<1>8. ASSUME NEW j \in Days \ rewritten'
      PROVE  LogFits(j)'
  <2>1. LogFits(j) /\ j \in Days \ rewritten
    BY <1>2 DEF LogInv
  <2>2. CASE j # k
    BY <1>4, <1>6, <2>1, <2>2 DEF LogFits, FirstEnd, Stands
  <2>3. CASE j = k /\ Active(k)
    <3>1. FirstEnd(k, "ended_early")'
      BY <1>7, <2>1, <2>3 DEF LogFits, Stands, Active
    <3> QED BY <1>1, <1>4, <2>3, <3>1 DEF LogFits, Stands
  <2>4. CASE j = k /\ ~Active(k)
    <3>1. ~Stands(k) /\ letting'[k] = letting[k]
      BY <1>1, <1>2, <1>4, <2>1, <2>4 DEF Stands, Active
    <3> QED BY <1>6, <1>9, <2>1, <2>4, <3>1 DEF LogFits, Stands
  <2> QED BY <2>2, <2>3, <2>4
<1> QED BY <1>5, <1>6, <1>8 DEF LogInv

LEMMA ExpireStep ==
  ASSUME Typed, LogInv, ExpireDueTenancies
  PROVE  LogInv'
<1>1. /\ letting' = [k \in Days |-> IF Due(k) THEN [letting[k] EXCEPT !.status = "ENDED"] ELSE letting[k]]
      /\ events' = [k \in Days |-> IF Due(k) THEN Append(events[k], "terminated") ELSE events[k]]
      /\ UNCHANGED <<request, rewritten>>
  BY DEF ExpireDueTenancies
<1>2. ASSUME NEW k \in Days
      PROVE  /\ events'[k] \in Seq(EventKinds)
             /\ ~Due(k) => letting'[k] = letting[k] /\ events'[k] = events[k]
             /\ Due(k) => /\ letting'[k].status = "ENDED" /\ letting'[k].moveOut = letting[k].moveOut
                          /\ events'[k] = Append(events[k], "terminated")
                          /\ letting[k].status = "ACTIVE"
  <2>1. letting[k] \in Tenancy /\ events[k] \in Seq(EventKinds)
    BY DEF Typed, LogInv
  <2>2. Append(events[k], "terminated") \in Seq(EventKinds)
    BY <2>1 DEF EventKinds
  <2> QED BY <1>1, <2>1, <2>2 DEF Tenancy, Due, Active
<1>3. events' \in [Days -> Seq(EventKinds)]
  BY <1>1, <1>2
<1>4. \A r \in Requests : EndFits(r)'
  BY <1>1, <1>2 DEF LogInv, EndFits, At
<1>5. ASSUME NEW k \in Days \ rewritten'
      PROVE  LogFits(k)'
  <2>1. LogFits(k) /\ events[k] \in Seq(EventKinds)
    BY <1>1 DEF LogInv
  <2>2. CASE ~Due(k)
    BY <1>2, <2>1, <2>2 DEF LogFits, FirstEnd, Stands
  <2>3. CASE Due(k)
    <3> DEFINE s == events[k]
               t == Append(s, "terminated")
    <3>1. /\ DOMAIN t = 1..(Len(s) + 1) /\ DOMAIN s = 1..Len(s) /\ Len(s) \in Nat
          /\ \A i \in 1..Len(s) : t[i] = s[i]
          /\ t[Len(s) + 1] = "terminated"
      BY <2>1, ToldAfter DEF EventKinds
    <3>2. events'[k] = t /\ \A i \in DOMAIN s : s[i] \notin Ends
      BY <1>2, <2>1, <2>3 DEF LogFits, Stands
    <3> HIDE DEF s, t
    <3>3. Len(s) + 1 \in DOMAIN t /\ \A j \in 1..(Len(s) + 1 - 1) : t[j] \notin Ends
      BY <3>1, <3>2
    <3>4. FirstEnd(k, "terminated")'
      BY <3>1, <3>2, <3>3 DEF FirstEnd
    <3> QED BY <1>2, <2>1, <2>3, <3>4 DEF LogFits, Stands
  <2> QED BY <2>2, <2>3
<1> QED BY <1>3, <1>4, <1>5 DEF LogInv

LEMMA OtherRequests ==
  ASSUME Typed, NEW r \in Requests, NEW new, request' = [request EXCEPT ![r] = new]
  PROVE  request'[r] = new /\ \A q \in Requests \ {r} : request'[q] = request[q]
BY DEF Typed

LEMMA OneGoesOn ==
  ASSUME Typed, NEW r \in Requests, NEW new, request' = [request EXCEPT ![r] = new],
         new.pc \in {"idle", "tell", "told"}, ~At(r, "idle")
  PROVE  \A q \in Requests :
           request'[q] = request[q] \/ (request'[q].pc \in {"idle", "tell", "told"} /\ ~At(q, "idle"))
<1>1. request'[r] = new /\ \A q \in Requests \ {r} : request'[q] = request[q]
  BY OtherRequests
<1> TAKE q \in Requests
<1>3. CASE q = r
  <2>1. request'[q] = new /\ ~At(q, "idle")
    BY <1>1, <1>3
  <2> QED BY <2>1
<1>4. CASE q # r
  <2>1. q \in Requests \ {r}
    BY <1>4
  <2>2. request'[q] = request[q]
    BY <1>1, <2>1
  <2> QED BY <2>2
<1> QED BY <1>3, <1>4

LEMMA LogStep ==
  ASSUME Typed, LogInv, [Next]_vars
  PROVE  LogInv'
<1> DEFINE Same == events' = events /\ rewritten' = rewritten /\ letting' = letting
           NoNewEnd == \A q \in Requests : request'[q] = request[q] \/ request'[q].pc # "end"
<1>1. ASSUME Same, NoNewEnd
      PROVE  LogInv'
  BY <1>1, LogStays DEF At
<1>2. ASSUME NEW r \in Requests, NEW new, new.pc # "end", Same,
             request' = [request EXCEPT ![r] = new]
      PROVE  LogInv'
  BY <1>1, <1>2, OtherRequests
<1>3. ASSUME NEW r \in Requests, NEW k \in Days, NEW moveOut \in Days, BeginEnd(r, k, moveOut)
      PROVE  LogInv'
  <2> DEFINE new == [Idle EXCEPT !.pc = "end", !.key = k, !.day = moveOut]
  <2>1. Same /\ request' = [request EXCEPT ![r] = new] /\ Active(k)
    BY <1>3 DEF BeginEnd, Begin, records
  <2>2. new.key = k /\ new.day = moveOut /\ moveOut # NoDay
    BY DaysAreNat DEF Idle
  <2> HIDE DEF new
  <2>3. request'[r] = new /\ \A q \in Requests \ {r} : request'[q] = request[q]
    BY <2>1, OtherRequests
  <2>4. \A q \in Requests : EndFits(q)'
    BY <2>1, <2>2, <2>3 DEF LogInv, EndFits, At, Active
  <2> QED BY <2>1, <2>4 DEF LogInv, LogFits, FirstEnd, Stands
<1>4. ASSUME NEW r \in Requests, NEW d \in Documents, NEW day \in Days, BeginApprove(r, d, day)
      PROVE  LogInv'
  BY <1>2, <1>4 DEF BeginApprove, Begin, records, Idle
<1>5. ASSUME NEW r \in Requests, NEW d \in Leases, BeginOpen(r, d)
      PROVE  LogInv'
  BY <1>2, <1>5 DEF BeginOpen, Begin, records, Idle
<1>6. ASSUME NEW r \in Requests, NEW d \in Amendments, NEW read \in Days, BeginAmend(r, d, read)
      PROVE  LogInv'
  <2> DEFINE signs == reading[d].signed = NoDay
             new == [Idle EXCEPT !.pc = "amend", !.doc = d, !.key = linked[d],
                       !.day = IF signs THEN read ELSE reading[d].signed, !.signs = signs]
  <2>1. Same /\ request' = [request EXCEPT ![r] = new]
    BY <1>6 DEF BeginAmend, Begin, records
  <2>2. new.pc = "amend"
    BY DEF Idle
  <2> HIDE DEF new
  <2> QED BY <1>2, <2>1, <2>2
<1>7. ASSUME NEW r \in Requests, NEW k \in Days, BeginActivate(r, k)
      PROVE  LogInv'
  BY <1>2, <1>7 DEF BeginActivate, Begin, records, Idle
<1>16. ASSUME NEW r \in Requests, NEW k \in Days, NEW option \in Days, BeginExtend(r, k, option)
       PROVE  LogInv'
  BY <1>2, <1>16 DEF BeginExtend, Begin, records, Idle
<1>17. ASSUME NEW r \in Requests, ExerciseOption(r)
       PROVE  LogInv'
  <2>1. /\ events' = events /\ rewritten' = rewritten
        /\ \/ letting' = letting
           \/ letting' = [letting EXCEPT ![request[r].key] = [letting[request[r].key] EXCEPT !.end = request[r].day]]
    BY <1>17 DEF ExerciseOption, Goto
  <2>2. \E new : new.pc # "end" /\ request' = [request EXCEPT ![r] = new]
    <3>1. [request[r] EXCEPT !.pc = "told"].pc = "told" /\ Idle.pc = "idle"
      BY RequestFields DEF Request, Idle
    <3> QED BY <1>17, <3>1 DEF ExerciseOption, Finish, Goto
  <2>3. \A j \in Days : /\ letting'[j].moveOut = letting[j].moveOut
                        /\ letting'[j].status = letting[j].status
    BY <2>1 DEF Typed, Tenancy
  <2>4. \A q \in Requests : At(q, "end")' => request'[q] = request[q]
    BY <2>2, OtherRequests DEF At
  <2> QED BY <2>1, <2>3, <2>4, LogStays DEF At
<1>8. ASSUME NEW r \in Requests, ApproveExtractedField(r) \/ CopyRefused(r) \/ Stop(r)
      PROVE  LogInv'
  <2>1. Same /\ request' = [request EXCEPT ![r] = Idle]
    BY <1>8 DEF ApproveExtractedField, CopyRefused, Stop, Finish, Goto, records
  <2> QED BY <1>2, <2>1 DEF Idle
<1>9. ASSUME NEW r \in Requests, ReadSigned(r)
      PROVE  LogInv'
  <2> DEFINE new == [request[r] EXCEPT !.pc = "write", !.day = reading[request[r].doc].signed]
  <2>1. Same /\ request' = [request EXCEPT ![r] = new]
    BY <1>9 DEF ReadSigned, Goto, records
  <2>2. new.pc # "end"
    BY RequestFields DEF Request
  <2> HIDE DEF new
  <2> QED BY <1>2, <2>1, <2>2
<1>10. ASSUME NEW r \in Requests, ReadPromotion(r)
       PROVE  LogInv'
  BY <1>2, <1>10, PromotionRead DEF ReadPromotion, Goto, records
<1>11. ASSUME NEW r \in Requests, OpenLeaseDraft(r)
       PROVE  LogInv'
  <2> DEFINE k == request[r].key
             end == IF ~SameValueHeld(k, request[r].doc, request[r].first, request[r].day)
                    THEN request[r].day ELSE request[r].first
  <2>1. events' = events /\ request' = [request EXCEPT ![r] = Idle]
    BY <1>11 DEF OpenLeaseDraft, Finish, Goto
  <2>2. \/ letting' = letting /\ rewritten' = rewritten
        \/ /\ letting' = [letting EXCEPT ![k] = Draft(end)]
           /\ rewritten' = IF Exists(k) THEN rewritten \cup {k} ELSE rewritten
    BY <1>11 DEF OpenLeaseDraft
  <2>3. Draft(end).status = "DRAFT" /\ Draft(end).moveOut = NoDay
    BY DEF Draft
  <2> HIDE DEF end
  <2>4. \A q \in Requests : At(q, "end")' => request'[q] = request[q]
    BY <2>1, OtherRequests DEF At, Idle
  <2>5. ASSUME NEW j \in Days \ rewritten'
        PROVE  /\ letting'[j].moveOut = letting[j].moveOut
               /\ \/ letting'[j].status = letting[j].status
                  \/ /\ Stands(j) /\ Stands(j)'
                     /\ letting'[j].status = "DRAFT" => letting[j].status = "none"
                     /\ letting'[j].status # "none"
    <3>1. CASE letting'[j] = letting[j]
      BY <3>1
    <3>2. CASE letting'[j] # letting[j]
      <4>1. /\ letting'[j] = Draft(end) /\ j = k /\ ~Exists(j) /\ j \notin rewritten
        BY <2>2, <2>5, <3>2 DEF Typed
      <4> QED BY <2>3, <4>1 DEF Exists, Stands, LogInv, LogFits
    <3> QED BY <3>1, <3>2
  <2>6. rewritten \subseteq rewritten'
    BY <2>2
  <2> QED BY <2>1, <2>4, <2>5, <2>6, LogStays DEF At
<1>12. ASSUME NEW r \in Requests, ConfirmAmendment(r)
       PROVE  LogInv'
  <2>1. /\ events' = events /\ rewritten' = rewritten
        /\ request' = [request EXCEPT ![r] = Idle]
    BY <1>12 DEF ConfirmAmendment, Finish, Goto
  <2>2. \/ letting' = letting
        \/ letting' = [letting EXCEPT ![request[r].key] = [letting[request[r].key] EXCEPT !.end = request[r].day]]
    BY <1>12 DEF ConfirmAmendment, Copy
  <2>3. \A j \in Days : /\ letting'[j].moveOut = letting[j].moveOut
                        /\ letting'[j].status = letting[j].status
    BY <2>2 DEF Typed, Tenancy
  <2>4. \A q \in Requests : At(q, "end")' => request'[q] = request[q]
    BY <2>1, OtherRequests DEF At, Idle
  <2> QED BY <2>1, <2>3, <2>4, LogStays DEF At
<1>13. ASSUME NEW r \in Requests, ActivateTenancy(r)
       PROVE  LogInv'
  <2> DEFINE k == request[r].key
  <2>1. /\ events' = events /\ rewritten' = rewritten
        /\ \/ letting' = letting
           \/ letting' = [letting EXCEPT ![k] = [letting[k] EXCEPT !.status = "ACTIVE"]]
              /\ letting[k].status = "DRAFT"
    BY <1>13 DEF ActivateTenancy, Goto
  <2>2. \E new : new.pc # "end" /\ request' = [request EXCEPT ![r] = new]
    <3>1. [request[r] EXCEPT !.pc = "tell"].pc = "tell" /\ Idle.pc = "idle"
      BY RequestFields DEF Request, Idle
    <3> QED BY <1>13, <3>1 DEF ActivateTenancy, Finish, Goto
  <2>3. \A j \in Days : /\ letting'[j].moveOut = letting[j].moveOut
                        /\ \/ letting'[j].status = letting[j].status
                           \/ letting[j].status = "DRAFT" /\ letting'[j].status = "ACTIVE"
    BY <2>1 DEF Typed, Tenancy
  <2>4. \A q \in Requests : At(q, "end")' => request'[q] = request[q]
    BY <2>2, OtherRequests DEF At
  <2> QED BY <2>1, <2>3, <2>4, LogStays DEF At, Stands
<1>14. ASSUME NEW k \in Days, NEW end \in Days, NEW status \in Statuses, ImportRegister(k, end, status)
       PROVE  LogInv'
  <2>1. /\ events' = events /\ request' = request /\ rewritten' = rewritten \cup {k}
        /\ \A j \in Days \ rewritten' : letting'[j] = letting[j]
    BY <1>14 DEF ImportRegister, Typed
  <2> QED BY <2>1, LogStays DEF At
<1>15. ASSUME \/ \E d \in Leases : Attach(d)
              \/ \E d \in Amendments, k \in Days : FileAmendment(d, k)
              \/ \E k \in Days : Handover(k)
              \/ NextDay \/ UNCHANGED vars
       PROVE  LogInv'
  BY <1>1, <1>15 DEF Attach, FileAmendment, Handover, NextDay, vars, records
<1> QED
  BY <1>3, <1>4, <1>5, <1>6, <1>7, <1>8, <1>9, <1>10, <1>11, <1>12, <1>13, <1>14, <1>15,
     <1>16, <1>17, TellStep, EndStep, ExpireStep DEF Next

-----------------------------------------------------------------------------
(* The papers.  A promoted reading is signed, and a paper stamped onto a   *)
(* letting is promoted, so nobody signs it again.  While requests do not   *)
(* overlap, what a request has read is still what stands, and a copy that  *)
(* moves nothing finds its own date on the column.                         *)
RequestStands(r) ==
  /\ At(r, "extend") => request[r].day # NoDay
  /\ At(r, "approve") => request[r].doc \in Documents /\ request[r].day # NoDay
  /\ Opening(r) =>
       /\ request[r].doc \in Leases /\ request[r].key \in Days
       /\ reading[request[r].doc].signed # NoDay
  /\ At(r, "amend") \/ At(r, "copy") =>
       /\ request[r].doc \in Documents /\ request[r].key \in Days
       /\ request[r].signs = TRUE => request[r].day # NoDay
       /\ request[r].signs = FALSE => reading[request[r].doc].signed # NoDay
AsRead(r) ==
  /\ Opening(r) => request[r].first = reading[request[r].doc].signed
  /\ At(r, "write") => request[r].day = reading[request[r].doc].signed
  /\ At(r, "copy") =>
       /\ request[r].signs = FALSE => request[r].day = reading[request[r].doc].signed
       /\ request[r].stamped = reading[request[r].doc].promoted
       /\ /\ request[r].moves = FALSE /\ request[r].stamped = FALSE
          /\ request[r].key \notin rewritten /\ extended[request[r].key] = NoDay
          => letting[request[r].key].end = request[r].day
Alone ==
  /\ \A r, q \in Requests : ~At(r, "idle") /\ ~At(q, "idle") => r = q
  /\ \A r \in Requests : AsRead(r)
StampedIsPromoted(k) == \A i \in DOMAIN stamps[k] : reading[stamps[k][i]].promoted = TRUE
\* A letting with no option taken since tells the paper stamped last onto it.
Tells(k) ==
  ~overlapped /\ stamps[k] # <<>> /\ extended[k] = NoDay =>
    letting[k].end = reading[stamps[k][Len(stamps[k])]].signed
PapersTell == \A k \in Days \ rewritten : Tells(k)
PapersInv ==
  /\ stamps \in [Days -> Seq(Documents)]
  /\ \A d \in Documents : reading[d].promoted = TRUE => reading[d].signed # NoDay
  /\ \A k \in Days : StampedIsPromoted(k)
  /\ \A r \in Requests : RequestStands(r)
  /\ ~overlapped => Alone
  /\ PapersTell

\* An option taken is on the row until a paper moves the date again.
OptionInv ==
  /\ extended \in [Days -> Days \cup {NoDay}]
  /\ \A k \in Days \ rewritten : extended[k] # NoDay => letting[k].end = extended[k]

\* A step that signs and stamps nothing, moves a date for an option alone, and
\* at most ends a request.
LEMMA PapersStay ==
  ASSUME Typed, PapersInv, UNCHANGED <<reading, stamps, overlapped>>,
         rewritten \subseteq rewritten',
         \A k \in Days \ rewritten' : extended'[k] = NoDay =>
           letting'[k].end = letting[k].end /\ extended[k] = NoDay,
         \A r \in Requests : request'[r] = request[r] \/ (request'[r].pc \in {"idle", "tell", "told"} /\ ~At(r, "idle"))
  PROVE  PapersInv'
<1>1. \A r \in Requests : RequestStands(r)'
  BY DEF PapersInv, RequestStands, At, Opening
<1>2. \A k \in Days : StampedIsPromoted(k)'
  BY DEF PapersInv, StampedIsPromoted
<1>3. ASSUME ~overlapped
      PROVE  Alone'
  <2>1. \A r \in Requests : AsRead(r)'
    BY <1>3 DEF PapersInv, Alone, AsRead, At, Opening, RequestStands
  <2>2. \A r \in Requests : ~At(r, "idle")' => ~At(r, "idle")
    BY DEF At
  <2> QED BY <1>3, <2>1, <2>2 DEF PapersInv, Alone
<1>5. PapersTell'
  BY DEF PapersInv, PapersTell, Tells
<1> QED BY <1>1, <1>2, <1>3, <1>5 DEF PapersInv

\* A request that begins: it is alone, or requests overlap from now on.
LEMMA PapersBegin ==
  ASSUME Typed, PapersInv, NEW r \in Requests, NEW new, Begin(r, new),
         RequestStands(r)', AsRead(r)'
  PROVE  PapersInv'
<1>1. /\ At(r, "idle") /\ request' = [request EXCEPT ![r] = new]
      /\ overlapped' = (overlapped \/ \E q \in Requests : ~At(q, "idle"))
      /\ UNCHANGED <<reading, stamps, letting, rewritten, extended>>
  BY DEF Begin, paper, records
<1>2. request'[r] = new /\ \A q \in Requests \ {r} : request'[q] = request[q]
  BY <1>1, OtherRequests
<1>3. \A q \in Requests : RequestStands(q)'
  BY <1>1, <1>2 DEF PapersInv, RequestStands, At, Opening
<1>4. ASSUME ~overlapped'
      PROVE  Alone'
  <2>1. ~overlapped /\ \A q \in Requests : At(q, "idle")
    BY <1>1, <1>4
  <2>2. \A q \in Requests \ {r} : At(q, "idle")'
    BY <1>2, <2>1 DEF At
  <2>3. \A q \in Requests : AsRead(q)'
    BY <2>2 DEF AsRead, At, Opening
  <2> QED BY <2>2, <2>3 DEF Alone
<1>5. PapersTell'
  BY <1>1 DEF PapersInv, PapersTell, Tells
<1> QED BY <1>1, <1>3, <1>4, <1>5 DEF PapersInv, StampedIsPromoted

LEMMA ApprovePapers ==
  ASSUME Typed, PapersInv, NEW r \in Requests, ApproveExtractedField(r)
  PROVE  PapersInv'
<1>0. PICK d, day : d = request[r].doc /\ day = request[r].day
  OBVIOUS
<1>1. /\ d \in Documents /\ day # NoDay
      /\ request' = [request EXCEPT ![r] = Idle] /\ ~At(r, "idle")
      /\ UNCHANGED <<letting, stamps, rewritten, extended, overlapped>>
      /\ reading' = IF MaySign(d, day) THEN [reading EXCEPT ![d].signed = day] ELSE reading
  BY <1>0 DEF ApproveExtractedField, Finish, Goto, PapersInv, RequestStands, records, At
<1>2. /\ \A e \in Documents : reading'[e].promoted = reading[e].promoted
      /\ \A e \in Documents : reading[e].signed # NoDay => reading'[e].signed # NoDay
      /\ \A e \in Documents : reading[e].promoted = TRUE => reading'[e].signed = reading[e].signed
  BY <1>1 DEF Typed, MaySign, PapersInv
<1>3. request'[r] = Idle /\ \A q \in Requests \ {r} : request'[q] = request[q]
  BY <1>1, OtherRequests
<1>4. \A q \in Requests : RequestStands(q)'
  BY <1>2, <1>3 DEF PapersInv, RequestStands, At, Opening, Idle, Documents
<1>5. ASSUME ~overlapped
      PROVE  Alone'
  <2>1. \A q \in Requests : At(q, "idle")'
    BY <1>1, <1>3, <1>5 DEF PapersInv, Alone, At, Idle
  <2> QED BY <2>1 DEF Alone, AsRead, At, Opening
<1>6. \A k \in Days : \A i \in DOMAIN stamps[k] : stamps[k][i] \in Documents
  BY DEF PapersInv
<1>7. \A k \in Days : StampedIsPromoted(k)'
  BY <1>1, <1>2, <1>6 DEF PapersInv, StampedIsPromoted
<1>8. ASSUME NEW k \in Days \ rewritten', ~overlapped, stamps[k] # <<>>,
             extended[k] = NoDay
      PROVE  letting[k].end = reading'[stamps[k][Len(stamps[k])]].signed
  <2>1. Len(stamps[k]) \in DOMAIN stamps[k]
    BY <1>8 DEF PapersInv
  <2>2. letting[k].end = reading[stamps[k][Len(stamps[k])]].signed
    BY <1>1, <1>8 DEF PapersInv, PapersTell, Tells
  <2> QED BY <1>2, <1>6, <2>1, <2>2 DEF PapersInv, StampedIsPromoted
<1>9. PapersTell'
  BY <1>1, <1>8 DEF PapersTell, Tells
<1>10. \A e \in Documents : reading'[e].promoted = TRUE => reading'[e].signed # NoDay
  BY <1>2 DEF PapersInv
<1> QED BY <1>1, <1>4, <1>5, <1>7, <1>9, <1>10 DEF PapersInv

LEMMA ReadSignedPapers ==
  ASSUME Typed, PapersInv, NEW r \in Requests, ReadSigned(r)
  PROVE  PapersInv'
<1> DEFINE new == [request[r] EXCEPT !.pc = "write", !.day = reading[request[r].doc].signed]
<1>1. /\ Opening(r) /\ request' = [request EXCEPT ![r] = new] /\ ~At(r, "idle")
      /\ UNCHANGED <<letting, reading, stamps, rewritten, extended, overlapped>>
  BY DEF ReadSigned, Goto, paper, records, At, Opening
<1>2. /\ new.pc = "write" /\ new.day = reading[request[r].doc].signed
      /\ new.doc = request[r].doc /\ new.key = request[r].key /\ new.first = request[r].first
  BY RequestFields DEF Request
<1> HIDE DEF new
<1>3. request'[r] = new /\ \A q \in Requests \ {r} : request'[q] = request[q]
  BY <1>1, OtherRequests
<1>4. \A q \in Requests : RequestStands(q)'
  BY <1>1, <1>2, <1>3 DEF PapersInv, RequestStands, At, Opening
<1>5. ASSUME ~overlapped
      PROVE  Alone'
  <2>1. \A q \in Requests \ {r} : At(q, "idle")'
    BY <1>1, <1>3, <1>5 DEF PapersInv, Alone, At
  <2>2. AsRead(r)'
    BY <1>1, <1>2, <1>3, <1>5 DEF PapersInv, Alone, AsRead, At, Opening
  <2> QED BY <2>1, <2>2 DEF Alone, AsRead, At, Opening
<1>6. PapersTell'
  BY <1>1 DEF PapersInv, PapersTell, Tells
<1> QED BY <1>1, <1>4, <1>5, <1>6 DEF PapersInv, StampedIsPromoted

\* A paper not stamped last onto a letting carries what the last one says.
LEMMA OccupantIsLast ==
  ASSUME PapersInv, NEW k \in Days, NEW d, stamps[k] # <<>>, stamps[k][Len(stamps[k])] # d
  PROVE  OtherStamps(k, d) # {} /\ Occupant(k, d) = reading[stamps[k][Len(stamps[k])]].signed
<1>1. /\ stamps[k] \in Seq(Documents) /\ Len(stamps[k]) \in Nat \ {0}
      /\ DOMAIN stamps[k] = 1..Len(stamps[k])
  BY DEF PapersInv
<1>2. /\ Len(stamps[k]) \in OtherStamps(k, d)
      /\ \A j \in OtherStamps(k, d) : j \in Nat /\ j <= Len(stamps[k])
  BY <1>1 DEF OtherStamps
<1>3. (CHOOSE i \in OtherStamps(k, d) : \A j \in OtherStamps(k, d) : j <= i) = Len(stamps[k])
  <2> DEFINE last == CHOOSE i \in OtherStamps(k, d) : \A j \in OtherStamps(k, d) : j <= i
  <2>1. last \in OtherStamps(k, d) /\ \A j \in OtherStamps(k, d) : j <= last
    BY <1>2
  <2> QED BY <1>1, <1>2, <2>1
<1> QED BY <1>2, <1>3 DEF Occupant

\* A copy that would move nothing finds its date on the column.
LEMMA NothingMoves ==
  ASSUME PapersInv, ~overlapped, NEW k \in Days \ rewritten, NEW d \in Documents, NEW day,
         reading[d].promoted = FALSE, extended[k] = NoDay,
         SameValueHeld(k, d, letting[k].end, day)
  PROVE  letting[k].end = day
<1>1. CASE Occupant(k, d) = NoDay
  BY <1>1 DEF SameValueHeld
<1>2. CASE Occupant(k, d) # NoDay
  <2>1. OtherStamps(k, d) # {}
    BY <1>2 DEF Occupant
  <2>2. stamps[k] \in Seq(Documents) /\ stamps[k] # <<>> /\ Len(stamps[k]) \in DOMAIN stamps[k]
    BY <2>1 DEF PapersInv, OtherStamps
  <2>3. stamps[k][Len(stamps[k])] # d
    BY <2>2 DEF PapersInv, StampedIsPromoted
  <2>4. day = reading[stamps[k][Len(stamps[k])]].signed
    BY <1>2, <2>2, <2>3, OccupantIsLast DEF SameValueHeld
  <2> QED BY <2>2, <2>4 DEF PapersInv, PapersTell, Tells
<1> QED BY <1>1, <1>2

LEMMA ReadPromotionPapers ==
  ASSUME Typed, PapersInv, NEW r \in Requests, ReadPromotion(r)
  PROVE  PapersInv'
<1> DEFINE d == request[r].doc
           k == request[r].key
           day == IF request[r].signs THEN request[r].day ELSE reading[d].signed
           moves == /\ ~SameValueHeld(k, d, letting[k].end, day)
                    /\ letting[k].end # day
           new == [request[r] EXCEPT !.pc = "copy", !.day = day,
                     !.stamped = reading[d].promoted, !.moves = moves]
<1>1. /\ request' = [request EXCEPT ![r] = new] /\ ~At(r, "idle") /\ At(r, "amend")
      /\ UNCHANGED <<letting, reading, stamps, rewritten, extended, overlapped>>
  BY DEF ReadPromotion, Goto, paper, records, At
<1>2. /\ d \in Documents /\ k \in Days
      /\ request[r].signs = TRUE => request[r].day # NoDay
      /\ request[r].signs = FALSE => reading[d].signed # NoDay
      /\ request[r].signs \in BOOLEAN /\ reading[d].promoted \in BOOLEAN
  BY <1>1, RequestFields DEF PapersInv, RequestStands, Request, Typed
<1>3. moves \in BOOLEAN /\ (moves = FALSE => SameValueHeld(k, d, letting[k].end, day) \/ letting[k].end = day)
  OBVIOUS
<1>4. /\ request[r].signs = TRUE => day = request[r].day
      /\ request[r].signs = FALSE => day = reading[d].signed
  BY <1>2
<1> HIDE DEF moves, day
<1>5. /\ new.pc = "copy" /\ new.day = day /\ new.moves = moves
      /\ new.stamped = reading[d].promoted
      /\ new.doc = d /\ new.key = k /\ new.signs = request[r].signs
  BY RequestFields DEF Request
<1> HIDE DEF new
<1>6. request'[r] = new /\ \A q \in Requests \ {r} : request'[q] = request[q]
  BY <1>1, OtherRequests
<1>7. \A q \in Requests : RequestStands(q)'
  BY <1>1, <1>2, <1>4, <1>5, <1>6 DEF PapersInv, RequestStands, At, Opening
<1>8. ASSUME ~overlapped
      PROVE  Alone'
  <2>1. \A q \in Requests \ {r} : At(q, "idle")'
    BY <1>1, <1>6, <1>8 DEF PapersInv, Alone, At
  <2>2. moves = FALSE /\ reading[d].promoted = FALSE /\ k \notin rewritten /\ extended[k] = NoDay =>
          letting[k].end = day
    BY <1>2, <1>3, <1>8, NothingMoves
  <2>3. AsRead(r)'
    BY <1>1, <1>4, <1>5, <1>6, <2>2 DEF AsRead, At, Opening
  <2> QED BY <2>1, <2>3 DEF Alone, AsRead, At, Opening
<1>9. PapersTell'
  BY <1>1 DEF PapersInv, PapersTell, Tells
<1> QED BY <1>1, <1>7, <1>8, <1>9 DEF PapersInv, StampedIsPromoted

\* A paper is promoted onto a letting whose end date is now its own.
LEMMA PromotionPapers ==
  ASSUME Typed, PapersInv, NEW r \in Requests, ~At(r, "idle"),
         NEW d \in Documents, NEW k \in Days, NEW rows,
         reading' \in [Documents -> [signed: Days \cup {NoDay}, promoted: BOOLEAN]],
         \A e \in Documents \ {d} : reading'[e] = reading[e],
         reading'[d].promoted = TRUE, reading'[d].signed # NoDay,
         reading[d].promoted = TRUE => (~overlapped => reading'[d].signed = reading[d].signed),
         stamps' = [stamps EXCEPT ![k] = Append(@, d)],
         request' = [request EXCEPT ![r] = Idle], overlapped' = overlapped,
         rewritten \subseteq rewritten',
         \A j \in Days \ rewritten' : j # k =>
           letting'[j].end = letting[j].end /\ extended'[j] = extended[j],
         ~overlapped => \/ k \in rewritten' \/ extended'[k] # NoDay
                        \/ letting'[k].end = reading'[d].signed
  PROVE  PapersInv'
<1>1. request'[r] = Idle /\ \A q \in Requests \ {r} : request'[q] = request[q]
  BY OtherRequests
<1>2. /\ stamps[k] \in Seq(Documents) /\ stamps'[k] = Append(stamps[k], d)
      /\ \A j \in Days \ {k} : stamps'[j] = stamps[j]
      /\ stamps' = [j \in Days |-> stamps'[j]]
  BY DEF PapersInv
<1>3. /\ stamps'[k] \in Seq(Documents) /\ Len(stamps'[k]) = Len(stamps[k]) + 1
      /\ stamps'[k] # <<>> /\ stamps'[k][Len(stamps'[k])] = d
      /\ \A i \in DOMAIN stamps'[k] : stamps'[k][i] = d \/ (i \in DOMAIN stamps[k] /\ stamps'[k][i] = stamps[k][i])
  <2> DEFINE s == stamps[k]
             t == Append(s, d)
  <2>1. /\ t \in Seq(Documents) /\ Len(t) = Len(s) + 1 /\ Len(s) \in Nat
        /\ DOMAIN t = 1..(Len(s) + 1) /\ DOMAIN s = 1..Len(s)
        /\ t[Len(s) + 1] = d /\ \A i \in 1..Len(s) : t[i] = s[i]
    BY <1>2
  <2> HIDE DEF s, t
  <2>2. t # <<>>
    <3>1. Len(t) # 0
      BY <2>1
    <3>2. Len(<<>>) = 0
      OBVIOUS
    <3> QED BY <3>1, <3>2
  <2>3. ASSUME NEW i \in DOMAIN t
        PROVE  t[i] = d \/ (i \in DOMAIN s /\ t[i] = s[i])
    <3>1. i \in Nat /\ 1 <= i /\ i <= Len(s) + 1
      BY <2>1, <2>3
    <3>2. i = Len(s) + 1 \/ i \in 1..Len(s)
      BY <2>1, <3>1
    <3>3. CASE i = Len(s) + 1
      <4>1. t[i] = d
        BY <2>1, <3>3
      <4> QED BY <4>1
    <3>4. CASE i \in 1..Len(s)
      <4>1. t[i] = s[i]
        BY <2>1, <3>4
      <4>2. i \in DOMAIN s
        BY <2>1, <3>4
      <4> QED BY <4>1, <4>2
    <3> QED BY <3>2, <3>3, <3>4
  <2>4. stamps'[k] = t /\ stamps[k] = s
    BY <1>2 DEF s, t
  <2> QED BY <2>1, <2>2, <2>3, <2>4
<1>4. \A j \in Days : stamps[j] \in Seq(Documents)
  BY DEF PapersInv
<1>5. \A j \in Days : stamps'[j] \in Seq(Documents)
  BY <1>2, <1>3, <1>4
<1>6. stamps' \in [Days -> Seq(Documents)]
  BY <1>2, <1>5
<1>7. \A e \in Documents : reading[e].promoted = TRUE => reading'[e].promoted = TRUE
  OBVIOUS
<1>8. \A j \in Days : \A i \in DOMAIN stamps[j] : stamps[j][i] \in Documents /\ reading'[stamps[j][i]].promoted = TRUE
  BY <1>4, <1>7 DEF PapersInv, StampedIsPromoted
<1>9. \A j \in Days : StampedIsPromoted(j)'
  BY <1>2, <1>3, <1>8 DEF StampedIsPromoted
<1>10. \A q \in Requests : RequestStands(q)'
  <2>1. \A e \in Documents : reading[e].signed # NoDay => reading'[e].signed # NoDay
    OBVIOUS
  <2>2. Leases \subseteq Documents
    BY DEF Documents
  <2>3. RequestStands(r)'
    BY <1>1 DEF RequestStands, At, Opening, Idle
  <2>4. ASSUME NEW q \in Requests \ {r}
        PROVE  RequestStands(q)'
    <3>1. PICK e : e = request[q].doc
      OBVIOUS
    <3>2. request'[q] = request[q] /\ RequestStands(q)
      BY <1>1 DEF PapersInv
    <3>3. e \in Documents /\ reading[e].signed # NoDay => reading'[e].signed # NoDay
      BY <2>1
    <3> QED BY <2>2, <3>1, <3>2, <3>3 DEF RequestStands, At, Opening
  <2> QED BY <2>3, <2>4
<1>11. ASSUME ~overlapped
       PROVE  Alone'
  <2>1. \A q \in Requests : At(q, "idle")'
    BY <1>1, <1>11 DEF PapersInv, Alone, At, Idle
  <2> QED BY <2>1 DEF Alone, AsRead, At, Opening
<1>12. ASSUME NEW j \in Days \ rewritten', ~overlapped, stamps'[j] # <<>>,
              extended'[j] = NoDay
       PROVE  letting'[j].end = reading'[stamps'[j][Len(stamps'[j])]].signed
  <2>1. CASE j = k
    BY <1>3, <1>12, <2>1
  <2>2. CASE j # k
    <3>1. stamps'[j] = stamps[j] /\ Len(stamps[j]) \in DOMAIN stamps[j]
      BY <1>2, <1>4, <1>12, <2>2
    <3>2. letting[j].end = reading[stamps[j][Len(stamps[j])]].signed /\ letting'[j].end = letting[j].end
      BY <1>12, <2>2, <3>1 DEF PapersInv, PapersTell, Tells
    <3>3. reading'[stamps[j][Len(stamps[j])]].signed = reading[stamps[j][Len(stamps[j])]].signed
      <4>1. PICK e \in Documents : e = stamps[j][Len(stamps[j])]
        BY <1>4, <3>1
      <4>2. reading[e].promoted = TRUE
        BY <3>1, <4>1 DEF PapersInv, StampedIsPromoted
      <4>3. reading'[e].signed = reading[e].signed
        BY <1>12, <4>2
      <4> QED BY <4>1, <4>3
    <3> QED BY <3>1, <3>2, <3>3
  <2> QED BY <2>1, <2>2
<1>13. PapersTell'
  BY <1>12 DEF PapersTell, Tells
<1>14. \A e \in Documents : reading'[e].promoted = TRUE => reading'[e].signed # NoDay
  BY DEF PapersInv
<1> QED BY <1>6, <1>9, <1>10, <1>11, <1>13, <1>14 DEF PapersInv

LEMMA OpenPapers ==
  ASSUME Typed, OptionInv, PapersInv, NEW r \in Requests, OpenLeaseDraft(r)
  PROVE  PapersInv'
<1>0. PICK d, k, day, first : d = request[r].doc /\ k = request[r].key /\ day = request[r].day
                              /\ first = request[r].first
  OBVIOUS
<1> DEFINE end == IF ~SameValueHeld(k, d, first, day) THEN day ELSE first
<1>1. /\ request' = [request EXCEPT ![r] = Idle] /\ overlapped' = overlapped
      /\ ~At(r, "idle") /\ d \in Documents /\ k \in Days /\ reading[d].signed # NoDay
      /\ ~overlapped => first = reading[d].signed /\ day = reading[d].signed
  BY <1>0 DEF OpenLeaseDraft, Finish, Goto, PapersInv, RequestStands, Alone, AsRead, At, Opening, Documents
<1>2. \/ UNCHANGED <<letting, rewritten, extended, reading, stamps>>
      \/ /\ letting' = [letting EXCEPT ![k] = Draft(end)]
         /\ rewritten' = IF Exists(k) THEN rewritten \cup {k} ELSE rewritten
         /\ extended' = [extended EXCEPT ![k] = NoDay]
         /\ reading' = [reading EXCEPT ![d].promoted = TRUE]
         /\ stamps' = [stamps EXCEPT ![k] = Append(@, d)]
  BY <1>0 DEF OpenLeaseDraft, Stamp
<1>3. ~overlapped => end = reading[d].signed
  BY <1>1
<1> HIDE DEF end
<1>4. request'[r] = Idle /\ \A q \in Requests \ {r} : request'[q] = request[q]
  BY <1>1, OtherRequests
<1>5. CASE UNCHANGED <<letting, rewritten, extended, reading, stamps>>
  <2>1. \A q \in Requests : request'[q] = request[q] \/ (request'[q].pc \in {"idle", "tell", "told"} /\ ~At(q, "idle"))
    BY <1>1, OneGoesOn DEF Idle
  <2> QED BY <1>1, <1>5, <2>1, PapersStay
<1>6. CASE /\ letting' = [letting EXCEPT ![k] = Draft(end)]
           /\ rewritten' = IF Exists(k) THEN rewritten \cup {k} ELSE rewritten
           /\ extended' = [extended EXCEPT ![k] = NoDay]
           /\ reading' = [reading EXCEPT ![d].promoted = TRUE]
           /\ stamps' = [stamps EXCEPT ![k] = Append(@, d)]
  <2>1. /\ reading' \in [Documents -> [signed: Days \cup {NoDay}, promoted: BOOLEAN]]
        /\ \A e \in Documents \ {d} : reading'[e] = reading[e]
        /\ reading'[d].promoted = TRUE /\ reading'[d].signed = reading[d].signed
    <3>1. /\ reading' = [reading EXCEPT ![d] = [reading[d] EXCEPT !.promoted = TRUE]]
          /\ reading \in [Documents -> [signed: Days \cup {NoDay}, promoted: BOOLEAN]]
      BY <1>1, <1>6 DEF Typed
    <3>2. reading[d] \in [signed: Days \cup {NoDay}, promoted: BOOLEAN]
      BY <1>1, <3>1
    <3>3. /\ [reading[d] EXCEPT !.promoted = TRUE] \in [signed: Days \cup {NoDay}, promoted: BOOLEAN]
          /\ [reading[d] EXCEPT !.promoted = TRUE].promoted = TRUE
          /\ [reading[d] EXCEPT !.promoted = TRUE].signed = reading[d].signed
      BY <3>2
    <3> QED BY <1>1, <3>1, <3>3
  <2>2. /\ letting'[k].end = end /\ \A j \in Days : j # k => letting'[j] = letting[j]
        /\ rewritten \subseteq rewritten' /\ stamps' = [stamps EXCEPT ![k] = Append(@, d)]
    BY <1>1, <1>6 DEF Typed, Draft
  <2>3. \A j \in Days : j # k => extended'[j] = extended[j]
    BY <1>6 DEF OptionInv
  <2> QED BY <1>1, <1>3, <2>1, <2>2, <2>3, PromotionPapers
<1> QED BY <1>2, <1>5, <1>6

LEMMA ConfirmPapers ==
  ASSUME Typed, OptionInv, PapersInv, NEW r \in Requests, ConfirmAmendment(r)
  PROVE  PapersInv'
<1>0. PICK d, k, day : d = request[r].doc /\ k = request[r].key /\ day = request[r].day
  OBVIOUS
<1> DEFINE row == [letting[k] EXCEPT !.end = day]
           signs == request[r].signs
           moves == request[r].moves
<1>1. /\ request' = [request EXCEPT ![r] = Idle] /\ overlapped' = overlapped /\ rewritten' = rewritten
      /\ ~At(r, "idle") /\ At(r, "copy") /\ d \in Documents /\ k \in Days
      /\ signs = TRUE => day # NoDay
      /\ signs = FALSE => reading[d].signed # NoDay
      /\ signs \in BOOLEAN /\ moves \in BOOLEAN /\ request[r].stamped \in BOOLEAN
      /\ day \in Days \cup {NoDay}
  BY <1>0, RequestFields DEF ConfirmAmendment, Finish, Goto, PapersInv, RequestStands, At, Request
<1>2. request'[r] = Idle /\ \A q \in Requests \ {r} : request'[q] = request[q]
  BY <1>1, OtherRequests
<1>3. CASE request[r].stamped = TRUE
  <2>1. UNCHANGED <<letting, extended, reading, stamps>>
    BY <1>3 DEF ConfirmAmendment
  <2>2. \A q \in Requests : request'[q] = request[q] \/ (request'[q].pc \in {"idle", "tell", "told"} /\ ~At(q, "idle"))
    BY <1>1, OneGoesOn DEF Idle
  <2> QED BY <1>1, <2>1, <2>2, PapersStay
<1>4. CASE request[r].stamped = FALSE
  <2> DEFINE to == [signed |-> IF signs THEN day ELSE reading[d].signed, promoted |-> TRUE]
  <2>1. /\ letting' = IF moves THEN [letting EXCEPT ![k] = row] ELSE letting
        /\ extended' = IF moves THEN [extended EXCEPT ![k] = NoDay] ELSE extended
        /\ stamps' = [stamps EXCEPT ![k] = Append(@, d)]
        /\ reading' = [reading EXCEPT ![d] = to]
    BY <1>0, <1>4 DEF ConfirmAmendment, Copy, Stamp
  <2>2. /\ reading[d] \in [signed: Days \cup {NoDay}, promoted: BOOLEAN]
        /\ reading \in [Documents -> [signed: Days \cup {NoDay}, promoted: BOOLEAN]]
        /\ letting[k] \in Tenancy /\ letting \in [Days -> Tenancy]
    BY <1>1 DEF Typed
  <2>3. /\ to \in [signed: Days \cup {NoDay}, promoted: BOOLEAN]
        /\ to.signed # NoDay /\ to.promoted = TRUE
        /\ signs = TRUE => to.signed = day
        /\ signs = FALSE => to.signed = reading[d].signed
    BY <1>1, <2>2
  <2>4. row.end = day
    BY <2>2 DEF Tenancy
  <2>5. ASSUME ~overlapped
        PROVE  /\ signs = FALSE => day = reading[d].signed
               /\ reading[d].promoted = FALSE
               /\ moves = FALSE /\ k \notin rewritten /\ extended[k] = NoDay =>
                    letting[k].end = day
    BY <1>0, <1>1, <1>4, <2>5 DEF PapersInv, Alone, AsRead
  <2> HIDE DEF to, row
  <2>6. /\ reading' \in [Documents -> [signed: Days \cup {NoDay}, promoted: BOOLEAN]]
        /\ reading'[d] = to /\ \A e \in Documents \ {d} : reading'[e] = reading[e]
    BY <1>1, <2>1, <2>2, <2>3
  <2>7. /\ \A j \in Days : j # k => letting'[j] = letting[j]
        /\ moves = TRUE => letting'[k].end = day
        /\ moves = FALSE => letting' = letting
    BY <1>1, <2>1, <2>2, <2>4
  <2>9. /\ \A j \in Days : j # k => extended'[j] = extended[j]
        /\ moves = FALSE => extended' = extended
    BY <1>1, <2>1 DEF OptionInv
  <2>8. ~overlapped => \/ k \in rewritten' \/ extended'[k] # NoDay
                       \/ letting'[k].end = reading'[d].signed
    BY <1>1, <2>3, <2>5, <2>6, <2>7, <2>9
  <2>10. reading'[d].promoted = TRUE /\ reading'[d].signed # NoDay
    BY <2>3, <2>6
  <2>11. reading[d].promoted = TRUE => (~overlapped => reading'[d].signed = reading[d].signed)
    BY <2>5
  <2>12. \A j \in Days \ rewritten' : j # k =>
           letting'[j].end = letting[j].end /\ extended'[j] = extended[j]
    BY <2>7, <2>9
  <2> HIDE DEF moves, signs
  <2> QED BY <1>1, <2>1, <2>6, <2>8, <2>10, <2>11, <2>12, PromotionPapers
<1> QED BY <1>1, <1>3, <1>4

LEMMA PapersStep ==
  ASSUME Typed, OptionInv, PapersInv, [Next]_vars
  PROVE  PapersInv'
<1> DEFINE Quiet == /\ UNCHANGED <<reading, stamps, overlapped>> /\ rewritten \subseteq rewritten'
                    /\ \A k \in Days \ rewritten' : extended'[k] = NoDay =>
                         letting'[k].end = letting[k].end /\ extended[k] = NoDay
           Ended == \A q \in Requests :
             request'[q] = request[q] \/ (request'[q].pc \in {"idle", "tell", "told"} /\ ~At(q, "idle"))
<1>1. ASSUME Quiet, Ended
      PROVE  PapersInv'
  BY <1>1, PapersStay
<1>2. ASSUME NEW r \in Requests, ~At(r, "idle"),
             \/ request' = [request EXCEPT ![r] = Idle]
             \/ \E pc \in {"tell", "told"} :
                  request' = [request EXCEPT ![r] = [request[r] EXCEPT !.pc = pc]]
      PROVE  Ended
  <2>0. PICK pc \in {"tell", "told"} :
          \/ request' = [request EXCEPT ![r] = Idle]
          \/ request' = [request EXCEPT ![r] = [request[r] EXCEPT !.pc = pc]]
    BY <1>2
  <2> DEFINE told == [request[r] EXCEPT !.pc = pc]
  <2>1. Idle.pc \in {"idle", "tell", "told"} /\ told.pc \in {"idle", "tell", "told"}
    BY <1>2, RequestFields DEF Idle, Request
  <2> HIDE DEF told
  <2>2. CASE request' = [request EXCEPT ![r] = Idle]
    BY <1>2, <2>1, <2>2, OneGoesOn
  <2>3. CASE request' = [request EXCEPT ![r] = told]
    BY <1>2, <2>1, <2>3, OneGoesOn
  <2> QED BY <2>0, <2>2, <2>3 DEF told
<1>0. ASSUME request' = request
      PROVE  Ended
  BY <1>0
<1> HIDE DEF Quiet, Ended
<1>3. ASSUME NEW r \in Requests, NEW d \in Documents, NEW day \in Days, BeginApprove(r, d, day)
      PROVE  PapersInv'
  <2> DEFINE new == [Idle EXCEPT !.pc = "approve", !.doc = d, !.day = day]
  <2>1. new.pc = "approve" /\ new.doc = d /\ new.day = day
    BY DEF Idle
  <2>2. Begin(r, new)
    BY <1>3 DEF BeginApprove
  <2> HIDE DEF new
  <2>3. request'[r] = new
    BY <2>2, OtherRequests DEF Begin
  <2> QED BY <2>1, <2>2, <2>3, PapersBegin, DaysAreNat DEF RequestStands, AsRead, At, Opening
<1>4. ASSUME NEW r \in Requests, NEW d \in Leases, BeginOpen(r, d)
      PROVE  PapersInv'
  <2> DEFINE new == [Idle EXCEPT !.pc = "open", !.doc = d, !.key = startOf[d], !.first = reading[d].signed]
  <2>1. /\ new.pc = "open" /\ new.doc = d /\ new.key = startOf[d] /\ new.first = reading[d].signed
        /\ startOf[d] \in Days
    BY DEF Idle, Typed
  <2>2. Begin(r, new) /\ reading[d].signed # NoDay
    BY <1>4 DEF BeginOpen
  <2> HIDE DEF new
  <2>3. request'[r] = new /\ reading' = reading
    BY <2>2, OtherRequests DEF Begin, paper
  <2> QED BY <2>1, <2>2, <2>3, PapersBegin DEF RequestStands, AsRead, At, Opening
<1>5. ASSUME NEW r \in Requests, NEW d \in Amendments, NEW read \in Days, BeginAmend(r, d, read)
      PROVE  PapersInv'
  <2> DEFINE signs == reading[d].signed = NoDay
             day == IF signs THEN read ELSE reading[d].signed
             new == [Idle EXCEPT !.pc = "amend", !.doc = d, !.key = linked[d], !.day = day, !.signs = signs]
  <2>1. /\ Begin(r, new) /\ d \in Documents /\ linked[d] \in Days
        /\ (signs = TRUE => day # NoDay) /\ (signs = FALSE => reading[d].signed # NoDay)
    <3>1. d \in Documents /\ linked[d] # NoDay
      BY <1>5 DEF BeginAmend, Documents
    <3> QED BY <1>5, <3>1, DaysAreNat DEF BeginAmend, Typed
  <2> HIDE DEF signs, day
  <2>2. new.pc = "amend" /\ new.doc = d /\ new.key = linked[d] /\ new.signs = signs /\ new.day = day
    BY DEF Idle
  <2> HIDE DEF new
  <2>3. request'[r] = new /\ reading' = reading
    BY <2>1, OtherRequests DEF Begin, paper
  <2>4. RequestStands(r)'
    BY <2>1, <2>2, <2>3 DEF RequestStands, At, Opening
  <2>5. AsRead(r)'
    BY <2>2, <2>3 DEF AsRead, At, Opening
  <2> QED BY <2>1, <2>4, <2>5, PapersBegin
<1>6. ASSUME NEW r \in Requests, NEW k \in Days, BeginActivate(r, k)
      PROVE  PapersInv'
  <2> DEFINE new == [Idle EXCEPT !.pc = "activate", !.key = k]
  <2>1. new.pc = "activate" /\ Begin(r, new)
    BY <1>6 DEF BeginActivate, Idle
  <2> HIDE DEF new
  <2>2. request'[r] = new
    BY <2>1, OtherRequests DEF Begin
  <2> QED BY <2>1, <2>2, PapersBegin DEF RequestStands, AsRead, At, Opening
<1>7. ASSUME NEW r \in Requests, NEW k \in Days, NEW moveOut \in Days, BeginEnd(r, k, moveOut)
      PROVE  PapersInv'
  <2> DEFINE new == [Idle EXCEPT !.pc = "end", !.key = k, !.day = moveOut]
  <2>1. new.pc = "end" /\ Begin(r, new)
    BY <1>7 DEF BeginEnd, Idle
  <2> HIDE DEF new
  <2>2. request'[r] = new
    BY <2>1, OtherRequests DEF Begin
  <2> QED BY <2>1, <2>2, PapersBegin DEF RequestStands, AsRead, At, Opening
<1>8. ASSUME NEW r \in Requests, CopyRefused(r) \/ TellActivated(r) \/ TellExtended(r) \/ Stop(r)
      PROVE  PapersInv'
  <2>1. /\ UNCHANGED <<reading, stamps, overlapped, rewritten, letting, extended>>
        /\ request' = [request EXCEPT ![r] = Idle] /\ ~At(r, "idle")
    BY <1>8 DEF CopyRefused, TellActivated, TellExtended, Stop, Finish, Goto, paper, records, At, Idle
  <2>2. Quiet
    BY <2>1 DEF Quiet
  <2> QED BY <1>1, <1>2, <2>1, <2>2
<1>9. ASSUME NEW r \in Requests, ActivateTenancy(r)
      PROVE  PapersInv'
  <2>1. \/ letting' = letting
        \/ letting' = [letting EXCEPT ![request[r].key] = [letting[request[r].key] EXCEPT !.status = "ACTIVE"]]
    BY <1>9 DEF ActivateTenancy
  <2>2. Quiet
    BY <1>9, <2>1 DEF Quiet, ActivateTenancy, Goto, Finish, paper, Typed, Tenancy
  <2>3. ~At(r, "idle")
    BY <1>9 DEF ActivateTenancy, At
  <2>4. \/ request' = [request EXCEPT ![r] = Idle]
        \/ request' = [request EXCEPT ![r] = [request[r] EXCEPT !.pc = "tell"]]
    BY <1>9 DEF ActivateTenancy, Finish, Goto
  <2>5. Ended
    BY <1>2, <2>3, <2>4
  <2> QED BY <1>1, <2>2, <2>5
<1>14. ASSUME NEW r \in Requests, NEW k \in Days, NEW option \in Days, BeginExtend(r, k, option)
       PROVE  PapersInv'
  <2> DEFINE new == [Idle EXCEPT !.pc = "extend", !.key = k, !.day = option]
  <2>1. new.pc = "extend" /\ new.day # NoDay /\ Begin(r, new)
    BY <1>14, DaysAreNat DEF BeginExtend, Idle
  <2> HIDE DEF new
  <2>2. request'[r] = new
    BY <2>1, OtherRequests DEF Begin
  <2> QED BY <2>1, <2>2, PapersBegin DEF RequestStands, AsRead, At, Opening
<1>15. ASSUME NEW r \in Requests, ExerciseOption(r)
       PROVE  PapersInv'
  <2> DEFINE k == request[r].key
             day == request[r].day
  <2>1. ~At(r, "idle") /\ day # NoDay
    BY <1>15 DEF ExerciseOption, At, PapersInv, RequestStands
  <2>2. \/ UNCHANGED <<letting, extended>>
        \/ /\ letting' = [letting EXCEPT ![k] = [letting[k] EXCEPT !.end = day]]
           /\ extended' = [extended EXCEPT ![k] = day]
    BY <1>15 DEF ExerciseOption
  <2> HIDE DEF k, day
  <2>3. \A j \in Days : extended'[j] = NoDay =>
          letting'[j].end = letting[j].end /\ extended[j] = NoDay
    BY <2>1, <2>2 DEF Typed, OptionInv
  <2>4. UNCHANGED <<reading, stamps, overlapped, rewritten>>
    BY <1>15 DEF ExerciseOption, Goto, Finish, paper
  <2>5. Quiet
    BY <2>3, <2>4 DEF Quiet
  <2>6. \/ request' = [request EXCEPT ![r] = Idle]
        \/ request' = [request EXCEPT ![r] = [request[r] EXCEPT !.pc = "told"]]
    BY <1>15 DEF ExerciseOption, Finish, Goto
  <2>7. Ended
    BY <1>2, <2>1, <2>6
  <2> QED BY <1>1, <2>5, <2>7
<1>10. ASSUME NEW r \in Requests, EndTenancyEarly(r)
       PROVE  PapersInv'
  <2>1. \/ letting' = letting
        \/ letting' = [letting EXCEPT ![request[r].key].status = "TERMINATED_EARLY",
                                      ![request[r].key].moveOut = request[r].day]
    BY <1>10 DEF EndTenancyEarly
  <2>2. \A k \in Days : letting'[k].end = letting[k].end
    BY <2>1 DEF Typed, Tenancy
  <2>3. Quiet /\ request' = [request EXCEPT ![r] = Idle] /\ ~At(r, "idle")
    BY <1>10, <2>2 DEF Quiet, EndTenancyEarly, Goto, Finish, paper, At, Idle
  <2>4. Ended
    BY <1>2, <2>3
  <2> QED BY <1>1, <2>3, <2>4
<1>11. ASSUME NEW k \in Days, NEW end \in Days, NEW status \in Statuses, ImportRegister(k, end, status)
       PROVE  PapersInv'
  <2>1. Quiet /\ request' = request
    BY <1>11 DEF Quiet, ImportRegister, paper, Typed
  <2> QED BY <1>0, <1>1, <2>1
<1>12. CASE ExpireDueTenancies
  <2>1. \A k \in Days : letting'[k].end = letting[k].end
    BY <1>12 DEF ExpireDueTenancies, Typed, Tenancy
  <2>2. Quiet /\ request' = request
    BY <1>12, <2>1 DEF Quiet, ExpireDueTenancies, paper
  <2> QED BY <1>0, <1>1, <2>2
<1>13. ASSUME \/ \E d \in Leases : Attach(d)
              \/ \E d \in Amendments, k \in Days : FileAmendment(d, k)
              \/ \E k \in Days : Handover(k)
              \/ NextDay \/ UNCHANGED vars
       PROVE  PapersInv'
  <2>1. Quiet /\ request' = request
    BY <1>13 DEF Quiet, Attach, FileAmendment, Handover, NextDay, vars, records, paper
  <2> QED BY <1>0, <1>1, <2>1
<1> QED
  BY <1>3, <1>4, <1>5, <1>6, <1>7, <1>8, <1>9, <1>10, <1>11, <1>12, <1>13,
     <1>14, <1>15, ApprovePapers, ReadSignedPapers, ReadPromotionPapers, OpenPapers, ConfirmPapers DEF Next

\* Whoever moves the date of a letting no import wrote says what it came from.
LEMMA OptionStep ==
  ASSUME Typed, OptionInv, [Next]_vars
  PROVE  OptionInv'
<1>1. ASSUME UNCHANGED extended, rewritten \subseteq rewritten',
             \A k \in Days \ rewritten' : letting'[k].end = letting[k].end
      PROVE  OptionInv'
  BY <1>1 DEF OptionInv
<1>2. ASSUME NEW k, NEW row, NEW day \in Days \cup {NoDay}, row.end = day \/ day = NoDay,
             letting' = [letting EXCEPT ![k] = row],
             extended' = [extended EXCEPT ![k] = day], rewritten \subseteq rewritten'
      PROVE  OptionInv'
  BY <1>2 DEF OptionInv, Typed
<1>3. ASSUME NEW r \in Requests, OpenLeaseDraft(r)
      PROVE  OptionInv'
  <2> DEFINE end == IF ~SameValueHeld(request[r].key, request[r].doc, request[r].first, request[r].day)
                    THEN request[r].day ELSE request[r].first
  <2>1. \/ UNCHANGED <<letting, rewritten, extended>>
        \/ /\ letting' = [letting EXCEPT ![request[r].key] = Draft(end)]
           /\ rewritten \subseteq rewritten'
           /\ extended' = [extended EXCEPT ![request[r].key] = NoDay]
    BY <1>3 DEF OpenLeaseDraft
  <2> HIDE DEF end
  <2> QED BY <1>1, <1>2, <2>1
<1>4. ASSUME NEW r \in Requests, ConfirmAmendment(r)
      PROVE  OptionInv'
  <2>1. /\ rewritten' = rewritten
        /\ \/ UNCHANGED <<letting, extended>>
           \/ /\ letting' = [letting EXCEPT ![request[r].key] =
                               [letting[request[r].key] EXCEPT !.end = request[r].day]]
              /\ extended' = [extended EXCEPT ![request[r].key] = NoDay]
    BY <1>4 DEF ConfirmAmendment, Copy
  <2> QED BY <1>1, <1>2, <2>1
<1>5. ASSUME NEW r \in Requests, ExerciseOption(r)
      PROVE  OptionInv'
  <2> DEFINE k == request[r].key
             row == [letting[k] EXCEPT !.end = request[r].day]
  <2>1. /\ rewritten' = rewritten
        /\ \/ UNCHANGED <<letting, extended>>
           \/ /\ letting' = [letting EXCEPT ![k] = row]
              /\ extended' = [extended EXCEPT ![k] = request[r].day]
    BY <1>5 DEF ExerciseOption
  <2>2. CASE k \in Days
    <3>1. row.end = request[r].day
      BY <2>2 DEF Typed, Tenancy
    <3> QED BY <1>1, <1>2, <2>1, <3>1, RequestFields
  <2>3. CASE k \notin Days
    <3>1. UNCHANGED <<letting, extended>>
      BY <2>1, <2>3 DEF Typed, OptionInv
    <3> QED BY <1>1, <2>1, <3>1
  <2> QED BY <2>2, <2>3
<1>6. ASSUME NEW r \in Requests, ActivateTenancy(r) \/ EndTenancyEarly(r)
      PROVE  OptionInv'
  <2>1. \A k \in Days : letting'[k].end = letting[k].end
    BY <1>6 DEF ActivateTenancy, EndTenancyEarly, Typed, Tenancy
  <2> QED BY <1>1, <1>6, <2>1 DEF ActivateTenancy, EndTenancyEarly
<1>7. CASE ExpireDueTenancies
  <2>1. \A k \in Days : letting'[k].end = letting[k].end
    BY <1>7 DEF ExpireDueTenancies, Typed, Tenancy
  <2> QED BY <1>1, <1>7, <2>1 DEF ExpireDueTenancies
<1>8. ASSUME NEW k \in Days, NEW end \in Days, NEW status \in Statuses, ImportRegister(k, end, status)
      PROVE  OptionInv'
  BY <1>1, <1>8 DEF ImportRegister, Typed
<1>9. ASSUME UNCHANGED <<letting, rewritten, extended>>
      PROVE  OptionInv'
  BY <1>1, <1>9
<1>10. ASSUME NEW r \in Requests, NEW new, Begin(r, new)
       PROVE  OptionInv'
  BY <1>9, <1>10 DEF Begin, records
<1>11. ASSUME NEW r \in Requests,
              \/ ApproveExtractedField(r) \/ ReadSigned(r) \/ ReadPromotion(r)
              \/ CopyRefused(r) \/ TellActivated(r) \/ TellExtended(r) \/ Stop(r)
       PROVE  OptionInv'
  BY <1>9, <1>11 DEF ApproveExtractedField, ReadSigned, ReadPromotion, CopyRefused,
                     TellActivated, TellExtended, Stop, records
<1>12. ASSUME \/ \E d \in Leases : Attach(d)
              \/ \E d \in Amendments, k \in Days : FileAmendment(d, k)
              \/ \E k \in Days : Handover(k)
              \/ NextDay \/ UNCHANGED vars
       PROVE  OptionInv'
  BY <1>9, <1>12 DEF Attach, FileAmendment, Handover, NextDay, vars, records
<1>13. ASSUME NEW r \in Requests,
              \/ \E d \in Documents, day \in Days : BeginApprove(r, d, day)
              \/ \E d \in Leases : BeginOpen(r, d)
              \/ \E d \in Amendments, read \in Days : BeginAmend(r, d, read)
              \/ \E k \in Days : BeginActivate(r, k)
              \/ \E k, option \in Days : BeginExtend(r, k, option)
              \/ \E k, moveOut \in Days : BeginEnd(r, k, moveOut)
       PROVE  OptionInv'
  BY <1>10, <1>13 DEF BeginApprove, BeginOpen, BeginAmend, BeginActivate, BeginExtend, BeginEnd
<1> QED BY <1>3, <1>4, <1>5, <1>6, <1>7, <1>8, <1>11, <1>12, <1>13 DEF Next

LEMMA InitBooks == Init => LogInv /\ OptionInv /\ PapersInv
<1> SUFFICES ASSUME Init PROVE LogInv /\ OptionInv /\ PapersInv
  OBVIOUS
<1>1. \A k \in Days : events[k] = <<>> /\ stamps[k] = <<>> /\ letting[k] = NoTenancy
  BY DEF Init
<1>2. \A r \in Requests : request[r].pc = "idle"
  BY DEF Init, Idle
<1>3. LogInv
  BY <1>1, <1>2 DEF Init, LogInv, EndFits, At, LogFits, Stands, NoTenancy
<1>4. \A r \in Requests : RequestStands(r) /\ AsRead(r) /\ At(r, "idle")
  BY <1>2 DEF RequestStands, AsRead, At, Opening
<1>5. Alone /\ overlapped = FALSE
  BY <1>4 DEF Alone, Init
<1>6. \A d \in Documents : reading[d].promoted = FALSE
  BY DEF Init
<1>7. /\ stamps \in [Days -> Seq(Documents)]
      /\ \A k \in Days : StampedIsPromoted(k)
  <2>1. stamps = [k \in Days |-> <<>>]
    BY DEF Init
  <2>2. <<>> \in Seq(Documents) /\ DOMAIN <<>> = {}
    OBVIOUS
  <2> QED BY <2>1, <2>2 DEF StampedIsPromoted
<1>8. PapersTell
  BY <1>1 DEF PapersTell, Tells
<1>9. OptionInv
  BY DEF Init, OptionInv
<1> QED BY <1>3, <1>4, <1>5, <1>6, <1>7, <1>8, <1>9 DEF PapersInv

(* However requests begin, stop and overlap: a letting's log tells first   *)
(* the end its row has, and as long as no two requests overlapped its end  *)
(* date is the one signed on the paper stamped onto it last, or the option *)
(* taken since a paper moved the date.                                     *)
THEOREM BooksAlwaysAgree == Spec => []BooksAgree
<1>1. Typed /\ Apart /\ Earned /\ [Next]_vars => (Typed /\ Apart /\ Earned)'
  BY StepTypedApart, StepEarned
<1>2. Typed /\ LogInv /\ OptionInv /\ PapersInv /\ [Next]_vars =>
        (LogInv /\ OptionInv /\ PapersInv)'
  BY LogStep, OptionStep, PapersStep
<1>3. Typed /\ LogInv /\ OptionInv /\ PapersInv => BooksAgree
  <2> SUFFICES ASSUME Typed, LogInv, OptionInv, PapersInv PROVE BooksAgree
    OBVIOUS
  <2>1. ASSUME NEW k \in Days \ rewritten
        PROVE  /\ letting[k].status = "ENDED" <=> FirstEnd(k, "terminated")
               /\ letting[k].status = "TERMINATED_EARLY" <=> FirstEnd(k, "ended_early")
    <3>1. LogFits(k) /\ letting[k].status \in Statuses \cup {"none"}
      BY DEF LogInv, Typed, Tenancy
    <3>2. ~(FirstEnd(k, "terminated") /\ FirstEnd(k, "ended_early"))
      <4> SUFFICES ASSUME FirstEnd(k, "terminated"), FirstEnd(k, "ended_early") PROVE FALSE
        OBVIOUS
      <4>1. DOMAIN events[k] = 1..Len(events[k]) /\ Len(events[k]) \in Nat
        BY DEF LogInv
      <4>2. PICK i \in DOMAIN events[k] :
              events[k][i] = "terminated" /\ \A j \in 1..(i - 1) : events[k][j] \notin Ends
        BY DEF FirstEnd
      <4>3. PICK x \in DOMAIN events[k] :
              events[k][x] = "ended_early" /\ \A j \in 1..(x - 1) : events[k][j] \notin Ends
        BY DEF FirstEnd
      <4>4. i # x
        BY <4>2, <4>3
      <4>5. i \in 1..(x - 1) \/ x \in 1..(i - 1)
        BY <4>1, <4>2, <4>3, <4>4
      <4> QED BY <4>2, <4>3, <4>5 DEF Ends
    <3>3. ASSUME FirstEnd(k, "terminated") \/ FirstEnd(k, "ended_early")
          PROVE  ~Stands(k)
      BY <3>1, <3>3 DEF LogFits, FirstEnd, Ends
    <3> QED BY <3>1, <3>2, <3>3 DEF LogFits, Stands, Statuses
  <2>2. LogTellsTheEnd
    BY <2>1 DEF LogTellsTheEnd, LogInv, LogFits
  <2>3. ColumnTellsThePaper
    BY DEF ColumnTellsThePaper, Last, PapersInv, PapersTell, Tells, OptionInv
  <2> QED BY <2>2, <2>3 DEF BooksAgree
<1> QED BY InitTyped, InitBooks, <1>1, <1>2, <1>3, PTL DEF Spec
=============================================================================
