--------------------------- MODULE ServiceCallProofs ---------------------------
(***************************************************************************)
(* Proofs about ServiceCall for any sets of calls, parties, categories,    *)
(* staff and addresses and any bound on the timeline.                      *)
(*                                                                         *)
(* IInv is inductive: a command may rely on the checks of the row it       *)
(* moves (CallsNameTheirFacts), a successor stays the successor of a       *)
(* closed call because no command leaves CLOSED, a call that was never     *)
(* opened has no row and no history for a later command to overwrite, and  *)
(* a reply in hand is to a call that was opened.                           *)
(* PastInv adds what the rows say of the past, NextPast what a step may do *)
(* to it.  CourseInv relates the kinds of rows to the columns, for the two *)
(* ways the page (CallPage) draws a call's course.                         *)
(***************************************************************************)
EXTENDS CallPage, TLAPS

UnopenedIsBlank ==
  \A c \in Calls : ~Exists(c) => call[c] = NoCall /\ timeline[c] = <<>>

\* A reply in hand was begun on a call.
RepliesAreToCalls ==
  \A r \in Replies : sending[r] # Nobody => Exists(sending[r][1])

IInv ==
  /\ TypeOK
  /\ CallsNameTheirFacts
  /\ PredecessorsAreClosed
  /\ UnopenedIsBlank
  /\ RepliesAreToCalls

(* What a command may do to the row of one call without breaking IInv.     *)
GoodRow(c, row) ==
  /\ row \in CallRow
  /\ StateNamesItsFacts(row)
  /\ row.duplicateOf # c
  /\ row.predecessor # Nobody => Closed(row.predecessor)
  /\ Closed(c) => row.state = "CLOSED"

LEMMA FactsOfNoCall == StateNamesItsFacts(NoCall) /\ NoCall \in CallRow
BY NobodyAssumption DEF StateNamesItsFacts, NoCall, CallRow, ExitKind

(* Every replacement of one opened row by a good one preserves IInv.       *)
LEMMA OneRowStep ==
  ASSUME IInv, NEW c \in Calls, NEW row, GoodRow(c, row), row.state # "none",
         call' = [call EXCEPT ![c] = row],
         NEW rows \in Seq(TransitionRow),
         timeline' = [timeline EXCEPT ![c] = rows],
         UNCHANGED <<beside, sending>>
  PROVE  IInv'
<1> USE DEF IInv, GoodRow, CallsNameTheirFacts, PredecessorsAreClosed
<1>1. call' \in [Calls -> CallRow]
  BY DEF TypeOK
<1>2. \A d \in Calls : call'[d] = IF d = c THEN row ELSE call[d]
  BY DEF TypeOK
<1>3. TypeOK'
  BY <1>1 DEF TypeOK, beside
<1>4. CallsNameTheirFacts'
  BY <1>2
<1>5. ASSUME NEW d \in Calls, call'[d].predecessor # Nobody
      PROVE  call'[call'[d].predecessor].state = "CLOSED"
  <2>1. call'[d].predecessor \in Calls
    BY <1>1, <1>5 DEF CallRow
  <2>2. call[call'[d].predecessor].state = "CLOSED"
    BY <1>2, <1>5 DEF Closed
  <2> QED BY <1>2, <2>1, <2>2 DEF Closed
<1>6. UnopenedIsBlank'
  BY <1>2 DEF UnopenedIsBlank, Exists, TypeOK
<1>7. RepliesAreToCalls'
  BY <1>2 DEF RepliesAreToCalls, Exists, TypeOK
<1> QED BY <1>3, <1>4, <1>5, <1>6, <1>7 DEF Closed

(* A guarded write of a good row preserves the invariant.                  *)
LEMMA WriteStep ==
  ASSUME IInv, NEW c \in Calls, NEW row, NEW entry \in TransitionRow,
         GoodRow(c, row), row.state # "none", Write(c, row, entry)
  PROVE  IInv'
<1>1. Append(timeline[c], entry) \in Seq(TransitionRow)
  BY DEF IInv, TypeOK
<1> QED BY <1>1, OneRowStep DEF Write

LEMMA InitIInv == Init => IInv
<1> SUFFICES ASSUME Init PROVE IInv
  OBVIOUS
<1>1. TypeOK
  BY FactsOfNoCall DEF Init, TypeOK
<1>2. CallsNameTheirFacts
  BY FactsOfNoCall, NobodyAssumption DEF Init, CallsNameTheirFacts, NoCall
<1>3. PredecessorsAreClosed
  BY DEF Init, PredecessorsAreClosed, NoCall
<1>4. UnopenedIsBlank
  BY DEF Init, UnopenedIsBlank
<1>5. RepliesAreToCalls
  BY DEF Init, RepliesAreToCalls
<1> QED BY <1>1, <1>2, <1>3, <1>4, <1>5 DEF IInv
-----------------------------------------------------------------------------
LEMMA FlagRowsType ==
  \A byTerms \in BOOLEAN : FlagRows(byTerms) \in Seq(TransitionRow)
<1>1. Row("FLAGGED", "TERMS", Nobody) \in TransitionRow
  BY DEF Row, TransitionRow
<1>2. <<Row("FLAGGED", "TERMS", Nobody)>> \in Seq(TransitionRow)
  BY <1>1
<1> QED BY <1>2 DEF FlagRows

LEMMA IdentifiedRowsType ==
  ASSUME NEW p \in Parties \cup {Nobody}
  PROVE  IdentifiedRows(p) \in Seq(TransitionRow)
<1>1. CASE p = Nobody
  BY <1>1 DEF IdentifiedRows
<1>2. CASE p # Nobody
  <2>1. Row("IDENTIFIED", "ADDRESS", p) \in TransitionRow
    BY <1>2 DEF Row, TransitionRow
  <2>2. <<Row("IDENTIFIED", "ADDRESS", p)>> \in Seq(TransitionRow)
    BY <2>1
  <2> QED BY <1>2, <2>2 DEF IdentifiedRows
<1> QED BY <1>1, <1>2

(* The row a command finds is itself a good one.                           *)
LEMMA CurrentRow ==
  ASSUME IInv, NEW c \in Calls
  PROVE  GoodRow(c, call[c])
BY DEF IInv, TypeOK, CallsNameTheirFacts, PredecessorsAreClosed, GoodRow,
       Closed

LEMMA OpenCallStep ==
  ASSUME IInv, NEW c \in Calls, NEW ch \in Channels,
         NEW a \in Addresses \cup {Nobody}, NEW byTerms \in BOOLEAN,
         OpenCall(c, ch, a, byTerms)
  PROVE  IInv'
<1> DEFINE row == [NoCall EXCEPT !.state = "NEW", !.channel = ch,
                     !.sender = a, !.emergencyBy = TermsMark(byTerms)]
<1>1. GoodRow(c, row)
  BY NobodyAssumption, ChannelAssumption
     DEF GoodRow, CallRow, CallState, StateNamesItsFacts, NoCall, OpenCall,
         TermsMark, Exists, Closed, ExitKind
<1>2. row.state # "none"
  BY DEF NoCall
<1> QED BY <1>1, <1>2, FlagRowsType, OneRowStep DEF OpenCall

LEMMA OpenIntakeCallStep ==
  ASSUME IInv, NEW c \in Calls, NEW ch \in Channels, NEW a \in Addresses,
         NEW byTerms \in BOOLEAN, NEW pred \in Calls \cup {Nobody},
         NEW p \in Parties \cup {Nobody},
         OpenIntakeCall(c, ch, a, byTerms, pred, p)
  PROVE  IInv'
<1> DEFINE row == IntakeRow(ch, a, byTerms, pred, p)
<1>1. GoodRow(c, row)
  BY NobodyAssumption, ChannelAssumption
     DEF GoodRow, CallRow, CallState, StateNamesItsFacts, NoCall, IntakeRow,
         OpenIntakeCall, MayFollow, TermsMark, Exists, Closed, ExitKind
<1>2. FlagRows(byTerms) \o IdentifiedRows(p) \in Seq(TransitionRow)
  BY IdentifiedRowsType, FlagRowsType
<1>3. row.state # "none"
  BY DEF IntakeRow, NoCall
<1> QED BY <1>1, <1>2, <1>3, OneRowStep DEF OpenIntakeCall, MayFollow

LEMMA FlagCallByTermsStep ==
  ASSUME IInv, NEW c \in Calls, FlagCallByTerms(c)
  PROVE  IInv'
<1> DEFINE row == [call[c] EXCEPT !.emergencyBy = "TERMS"]
<1>1. GoodRow(c, row)
  <2>1. GoodRow(c, call[c])
    BY CurrentRow
  <2>2. row \in CallRow
    BY <2>1 DEF GoodRow, CallRow, CallState
  <2>3. StateNamesItsFacts(row)
    BY <2>1
       DEF GoodRow, CallRow, StateNamesItsFacts, FlagCallByTerms,
           OnOpenList, Open, Closed
  <2> QED BY <2>1, <2>2, <2>3 DEF GoodRow, CallRow, FlagCallByTerms, Closed
<1>2. Row("FLAGGED", "TERMS", Nobody) \in TransitionRow
  BY DEF Row, TransitionRow
<1>3. row.state # "none"
  BY DEF FlagCallByTerms, OnOpenList, Open, Exists, IInv, TypeOK, CallRow
<1> QED BY <1>1, <1>2, <1>3, WriteStep DEF FlagCallByTerms

LEMMA ReturnToFilteredStep ==
  ASSUME IInv, NEW c \in Calls, ReturnToFiltered(c)
  PROVE  IInv'
<1> DEFINE row == [call[c] EXCEPT !.returned = TRUE]
<1>1. GoodRow(c, row)
  <2>1. GoodRow(c, call[c])
    BY CurrentRow
  <2>2. row \in CallRow
    BY <2>1 DEF GoodRow, CallRow, CallState
  <2>3. StateNamesItsFacts(row)
    BY <2>1
       DEF GoodRow, CallRow, StateNamesItsFacts, ReturnToFiltered,
           Open, Closed
  <2> QED BY <2>1, <2>2, <2>3 DEF GoodRow, CallRow, ReturnToFiltered, Closed
<1>2. call' = [call EXCEPT ![c] = row]
  BY DEF ReturnToFiltered, IInv, TypeOK
<1>3. timeline' = [timeline EXCEPT ![c] = timeline[c]]
  BY DEF ReturnToFiltered, IInv, TypeOK
<1>4. row.state # "none"
  BY DEF ReturnToFiltered, Open, Exists, IInv, TypeOK, CallRow
<1> QED
  BY <1>1, <1>2, <1>3, <1>4, OneRowStep DEF ReturnToFiltered, IInv, TypeOK

LEMMA RestoreReturnedCallStep ==
  ASSUME IInv, NEW c \in Calls, RestoreReturnedCall(c)
  PROVE  IInv'
<1> DEFINE row == [call[c] EXCEPT !.returned = FALSE]
<1>1. GoodRow(c, row)
  <2>1. GoodRow(c, call[c])
    BY CurrentRow
  <2>2. row \in CallRow
    BY <2>1 DEF GoodRow, CallRow, CallState
  <2>3. StateNamesItsFacts(row)
    BY <2>1
       DEF GoodRow, CallRow, StateNamesItsFacts, RestoreReturnedCall,
           Closed
  <2> QED BY <2>1, <2>2, <2>3 DEF GoodRow, CallRow, RestoreReturnedCall, Closed
<1>2. call' = [call EXCEPT ![c] = row]
  BY DEF RestoreReturnedCall, IInv, TypeOK
<1>3. timeline' = [timeline EXCEPT ![c] = timeline[c]]
  BY DEF RestoreReturnedCall, IInv, TypeOK
<1>4. row.state # "none"
  BY DEF RestoreReturnedCall, Open, Exists, IInv, TypeOK, CallRow
<1> QED
  BY <1>1, <1>2, <1>3, <1>4, OneRowStep DEF RestoreReturnedCall, IInv, TypeOK

LEMMA IdentifyCallStep ==
  ASSUME IInv, NEW c \in Calls, NEW p \in Parties, NEW s \in Staff,
         IdentifyCall(c, p, s)
  PROVE  IInv'
<1> DEFINE row == [call[c] EXCEPT !.state = "IDENTIFIED", !.requester = p]
<1>1. GoodRow(c, row)
  <2>1. GoodRow(c, call[c])
    BY CurrentRow
  <2>2. row \in CallRow
    BY <2>1 DEF GoodRow, CallRow, CallState
  <2>3. StateNamesItsFacts(row)
    BY <2>1, NobodyAssumption
       DEF GoodRow, CallRow, StateNamesItsFacts, IdentifyCall,
           LinkRequester, Closed, CallState, ExitKind
  <2> QED BY <2>1, <2>2, <2>3
     DEF GoodRow, CallRow, IdentifyCall, LinkRequester, Closed
<1>2. Row("IDENTIFIED", s, p) \in TransitionRow
  BY DEF Row, TransitionRow
<1>3. row.state # "none"
  BY DEF IInv, TypeOK, CallRow
<1> QED BY <1>1, <1>2, <1>3, WriteStep DEF IdentifyCall, LinkRequester

LEMMA SetCallCategoryStep ==
  ASSUME IInv, NEW c \in Calls, NEW k \in Categories, NEW s \in Staff,
         SetCallCategory(c, k, s)
  PROVE  IInv'
<1> DEFINE row == [call[c] EXCEPT !.state = "TRIAGED", !.category = k]
<1>1. GoodRow(c, row)
  <2>1. GoodRow(c, call[c])
    BY CurrentRow
  <2>2. row \in CallRow
    BY <2>1 DEF GoodRow, CallRow, CallState
  <2>3. StateNamesItsFacts(row)
    BY <2>1, NobodyAssumption
       DEF GoodRow, CallRow, StateNamesItsFacts, SetCallCategory,
           Closed, CallState, ExitKind
  <2> QED BY <2>1, <2>2, <2>3 DEF GoodRow, CallRow, SetCallCategory, Closed
<1>2. Row("TRIAGED", s, k) \in TransitionRow
  BY DEF Row, TransitionRow
<1>3. row.state # "none"
  BY DEF IInv, TypeOK, CallRow
<1> QED BY <1>1, <1>2, <1>3, WriteStep DEF SetCallCategory

LEMMA FlagEmergencyStep ==
  ASSUME IInv, NEW c \in Calls, NEW s \in Staff, FlagEmergency(c, s)
  PROVE  IInv'
<1> DEFINE row == [call[c] EXCEPT !.emergencyBy = s]
<1>1. GoodRow(c, row)
  <2>1. GoodRow(c, call[c])
    BY CurrentRow
  <2>2. row \in CallRow
    BY <2>1 DEF GoodRow, CallRow, CallState
  <2>3. StateNamesItsFacts(row)
    BY <2>1
       DEF GoodRow, CallRow, StateNamesItsFacts, FlagEmergency,
           Open, Closed
  <2> QED BY <2>1, <2>2, <2>3 DEF GoodRow, CallRow, FlagEmergency, Closed
<1>2. Row("FLAGGED", s, Nobody) \in TransitionRow
  BY DEF Row, TransitionRow
<1>3. row.state # "none"
  BY DEF FlagEmergency, Open, Exists, IInv, TypeOK, CallRow
<1> QED BY <1>1, <1>2, <1>3, WriteStep DEF FlagEmergency

LEMMA ClearEmergencyStep ==
  ASSUME IInv, NEW c \in Calls, NEW s \in Staff, ClearEmergency(c, s)
  PROVE  IInv'
<1> DEFINE row == [call[c] EXCEPT !.emergencyBy = Nobody]
<1>1. GoodRow(c, row)
  <2>1. GoodRow(c, call[c])
    BY CurrentRow
  <2>2. row \in CallRow
    BY <2>1 DEF GoodRow, CallRow, CallState
  <2>3. StateNamesItsFacts(row)
    BY <2>1
       DEF GoodRow, CallRow, StateNamesItsFacts, ClearEmergency,
           Open, Closed
  <2> QED BY <2>1, <2>2, <2>3 DEF GoodRow, CallRow, ClearEmergency, Closed
<1>2. Row("CLEARED", s, Nobody) \in TransitionRow
  BY DEF Row, TransitionRow
<1>3. row.state # "none"
  BY DEF ClearEmergency, Open, Exists, IInv, TypeOK, CallRow
<1> QED BY <1>1, <1>2, <1>3, WriteStep DEF ClearEmergency

LEMMA ExitCallStep ==
  ASSUME IInv, NEW c \in Calls, NEW kind \in ExitKind,
         NEW other \in Calls \cup {Nobody}, NEW s \in Staff,
         ExitCall(c, kind, other, s)
  PROVE  IInv'
<1>1. GoodRow(c, ExitRow(c, kind, other))
  <2>1. ExitRow(c, kind, other) \in CallRow
    <3>1. call[c] \in CallRow
      BY DEF IInv, TypeOK
    <3> QED BY <3>1 DEF CallRow, CallState, ExitRow
  <2>2. ExitRow(c, kind, other).duplicateOf # c
    BY NobodyAssumption DEF ExitCall, ExitRow, IInv, TypeOK, CallRow
  <2>3. ~ExitRow(c, kind, other).returned
    BY <2>1 DEF ExitCall, Write, ChecksAllow, ExitRow, IInv, TypeOK, CallRow
  <2>4. kind = "DUPLICATE" <=> other # Nobody
    BY NobodyAssumption DEF ExitCall
  <2>5. StateNamesItsFacts(ExitRow(c, kind, other))
    BY <2>3, <2>4, NobodyAssumption
       DEF StateNamesItsFacts, ExitRow, IInv, TypeOK, CallsNameTheirFacts,
           CallRow
  <2> QED
    BY <2>1, <2>2, <2>5
       DEF GoodRow, ExitRow, Closed, IInv, TypeOK, CallRow,
           PredecessorsAreClosed
<1>2. Row(kind, s, other) \in TransitionRow
  BY DEF Row, TransitionRow
<1>3. ExitRow(c, kind, other).state # "none"
  BY DEF ExitRow, IInv, TypeOK, CallRow
<1> QED BY <1>1, <1>2, <1>3, WriteStep DEF ExitCall

(* Commands that touch no call and no timeline.                            *)
OtherCommand ==
  \/ \E c \in Calls : SaveSenderContact(c)
  \/ \E r \in Replies, c \in Calls, s \in Staff : BeginReply(r, c, s)
  \/ \E k \in Categories : UpsertCategory(k)
  \/ \E p \in Parties : TenancyRoleChange(p)
  \/ \E a \in Addresses, p \in Parties : ContactBegins(a, p)
  \/ \E a \in Addresses : ContactEnds(a)
  \/ UNCHANGED vars

LEMMA OtherStep ==
  ASSUME IInv, OtherCommand
  PROVE  IInv'
<1>1. UNCHANGED <<call, timeline>>
  BY DEF OtherCommand, SaveSenderContact, BeginReply, UpsertCategory,
         TenancyRoleChange, ContactBegins, ContactEnds, vars
<1>2. TypeOK'
  <2>1. CASE \E c \in Calls : SaveSenderContact(c)
    <3>1. PICK c \in Calls : SaveSenderContact(c)
      BY <2>1
    <3>2. call[c].requester \in Parties
      BY <3>1 DEF SaveSenderContact, IInv, TypeOK, CallRow
    <3> QED BY <3>1, <3>2 DEF SaveSenderContact, IInv, TypeOK
  <2>2. CASE \E k \in Categories : UpsertCategory(k)
    BY <2>2 DEF UpsertCategory, IInv, TypeOK
  <2>3. CASE \E p \in Parties : TenancyRoleChange(p)
    BY <2>3 DEF TenancyRoleChange, IInv, TypeOK
  <2>4. CASE \E a \in Addresses : ContactEnds(a)
    BY <2>4 DEF ContactEnds, IInv, TypeOK
  <2>5. CASE UNCHANGED vars
    BY <2>5 DEF vars, beside, IInv, TypeOK
  <2>6. CASE \E r \in Replies, c \in Calls, s \in Staff : BeginReply(r, c, s)
    BY <2>6 DEF BeginReply, beside, IInv, TypeOK
  <2>7. CASE \E a \in Addresses, p \in Parties : ContactBegins(a, p)
    BY <2>7 DEF ContactBegins, IInv, TypeOK
  <2> QED BY <2>1, <2>2, <2>3, <2>4, <2>5, <2>6, <2>7 DEF OtherCommand
<1>3. RepliesAreToCalls'
  <2>1. ASSUME NEW r \in Replies, NEW c \in Calls, NEW s \in Staff, BeginReply(r, c, s)
        PROVE  RepliesAreToCalls'
    BY <1>1, <2>1 DEF BeginReply, MayReply, RepliesAreToCalls, Exists, IInv, TypeOK
  <2>2. ASSUME UNCHANGED sending PROVE RepliesAreToCalls'
    BY <1>1, <2>2 DEF RepliesAreToCalls, Exists, IInv
  <2> QED
    BY <2>1, <2>2
       DEF OtherCommand, SaveSenderContact, UpsertCategory, TenancyRoleChange,
           ContactBegins, ContactEnds, vars
<1> QED
  BY <1>1, <1>2, <1>3
     DEF IInv, CallsNameTheirFacts, PredecessorsAreClosed, Closed,
         UnopenedIsBlank, Exists

(* The row of a reply: no column of any call is written.                   *)
LEMMA RecordReplyStep ==
  ASSUME IInv, NEW r \in Replies, RecordReply(r)
  PROVE  IInv'
<1> DEFINE c == sending[r][1]
           entry == Row("REPLIED", sending[r][2], Nobody)
<1>1. /\ c \in Calls /\ sending[r][2] \in Staff
      /\ timeline' = [timeline EXCEPT ![c] = Append(@, entry)]
      /\ sending' = [sending EXCEPT ![r] = Nobody] /\ UNCHANGED <<call, beside>>
  BY DEF RecordReply, IInv, TypeOK
<1>2. entry \in TransitionRow
  BY <1>1 DEF Row, TransitionRow
<1> HIDE DEF c, entry
<1>3. TypeOK'
  BY <1>1, <1>2 DEF IInv, TypeOK, beside
<1>4. Exists(c)
  BY DEF IInv, RepliesAreToCalls, c, RecordReply
<1>5. UnopenedIsBlank'
  BY <1>1, <1>4 DEF IInv, TypeOK, UnopenedIsBlank, Exists
<1>6. RepliesAreToCalls'
  BY <1>1 DEF IInv, TypeOK, RepliesAreToCalls, Exists
<1> QED
  BY <1>1, <1>3, <1>5, <1>6
     DEF IInv, CallsNameTheirFacts, PredecessorsAreClosed, Closed

LEMMA NextIInv == IInv /\ [Next]_vars => IInv'
<1> SUFFICES ASSUME IInv, [Next]_vars PROVE IInv'
  OBVIOUS
<1>1. ASSUME NEW c \in Calls, NEW ch \in Channels, NEW byTerms \in BOOLEAN,
             NEW a \in Addresses \cup {Nobody}, OpenCall(c, ch, a, byTerms)
      PROVE  IInv'
  BY <1>1, OpenCallStep
<1>2. ASSUME NEW c \in Calls, NEW ch \in Channels, NEW byTerms \in BOOLEAN,
             NEW a \in Addresses, NEW pred \in Calls \cup {Nobody},
             NEW p \in Parties \cup {Nobody},
             OpenIntakeCall(c, ch, a, byTerms, pred, p)
      PROVE  IInv'
  BY <1>2, OpenIntakeCallStep
<1>3. ASSUME NEW c \in Calls,
             \/ FlagCallByTerms(c)
             \/ ReturnToFiltered(c)
             \/ RestoreReturnedCall(c)
      PROVE  IInv'
  BY <1>3, FlagCallByTermsStep, ReturnToFilteredStep, RestoreReturnedCallStep
<1>4. ASSUME NEW c \in Calls, NEW s \in Staff,
             \/ \E p \in Parties : IdentifyCall(c, p, s)
             \/ \E k \in Categories : SetCallCategory(c, k, s)
             \/ FlagEmergency(c, s)
             \/ ClearEmergency(c, s)
             \/ \E kind \in ExitKind, other \in Calls \cup {Nobody} :
                  ExitCall(c, kind, other, s)
      PROVE  IInv'
  BY <1>4, IdentifyCallStep, SetCallCategoryStep, FlagEmergencyStep,
     ClearEmergencyStep, ExitCallStep
<1>5. ASSUME OtherCommand
      PROVE  IInv'
  BY <1>5, OtherStep
<1>6. ASSUME NEW r \in Replies, RecordReply(r)
      PROVE  IInv'
  BY <1>6, RecordReplyStep
<1> QED BY <1>1, <1>2, <1>3, <1>4, <1>5, <1>6 DEF Next, OtherCommand

-----------------------------------------------------------------------------
(* Every column of every call keeps its type, for any constants.           *)
THEOREM TypeCorrect == Spec => []TypeOK
<1>1. IInv => TypeOK
  BY DEF IInv
<1> QED BY <1>1, InitIInv, NextIInv, PTL DEF Spec

(* The checks of the service_call table are never what stops a command     *)
(* other than an exit of a filtered call: the commands keep them.          *)
THEOREM FactsHold == Spec => []CallsNameTheirFacts
<1>1. IInv => CallsNameTheirFacts
  BY DEF IInv
<1> QED BY <1>1, InitIInv, NextIInv, PTL DEF Spec

(* A successor is always the successor of a closed call.                   *)
THEOREM SuccessorsFollowClosedCalls == Spec => []PredecessorsAreClosed
<1>1. IInv => PredecessorsAreClosed
  BY DEF IInv
<1> QED BY <1>1, InitIInv, NextIInv, PTL DEF Spec
-----------------------------------------------------------------------------
LEMMA AppendKeepsPrefix ==
  ASSUME NEW S, NEW s \in Seq(S), NEW e \in S
  PROVE  IsPrefix(s, Append(s, e)) /\ IsPrefix(s, s) /\ IsPrefix(<<>>, s)
BY DEF IsPrefix

KeepsHistory == \A d \in Calls : FrozenWhenClosed(d) /\ HistoryKept(d)

(* One row replaced, with the history of that call kept, keeps every       *)
(* call's history.                                                         *)
LEMMA RowKeeps ==
  ASSUME IInv, NEW c \in Calls, NEW row, NEW rows,
         call' = [call EXCEPT ![c] = row],
         timeline' = [timeline EXCEPT ![c] = rows], UNCHANGED sending,
         ~Closed(c), IsPrefix(timeline[c], rows),
         call[c].requester # Nobody => row.requester = call[c].requester,
         Exists(c) => row.predecessor = call[c].predecessor
  PROVE  KeepsHistory
<1> SUFFICES ASSUME NEW d \in Calls
             PROVE  FrozenWhenClosed(d) /\ HistoryKept(d)
  BY DEF KeepsHistory
<1>1. CASE d = c
  BY <1>1 DEF FrozenWhenClosed, HistoryKept, IInv, TypeOK, RepliesTo
<1>2. CASE d # c
  <2>1. call'[d] = call[d] /\ timeline'[d] = timeline[d]
    BY <1>2 DEF IInv, TypeOK
  <2>2. timeline[d] \in Seq(TransitionRow)
    BY DEF IInv, TypeOK
  <2>3. IsPrefix(timeline[d], timeline[d])
    BY <2>2, AppendKeepsPrefix DEF IsPrefix
  <2> QED BY <2>1, <2>3 DEF FrozenWhenClosed, HistoryKept, RepliesTo
<1> QED BY <1>1, <1>2

LEMMA WriteKeeps ==
  ASSUME IInv, NEW c \in Calls, NEW row, NEW entry \in TransitionRow,
         Write(c, row, entry), ~Closed(c),
         call[c].requester # Nobody => row.requester = call[c].requester,
         row.predecessor = call[c].predecessor
  PROVE  KeepsHistory
<1>1. timeline[c] \in Seq(TransitionRow)
  BY DEF IInv, TypeOK
<1>2. IsPrefix(timeline[c], Append(timeline[c], entry))
  BY <1>1, AppendKeepsPrefix
<1> QED BY <1>2, RowKeeps DEF Write
LEMMA OpenKeeps ==
  ASSUME IInv, NEW c \in Calls, ~Exists(c), NEW row,
         NEW rows \in Seq(TransitionRow),
         call' = [call EXCEPT ![c] = row],
         timeline' = [timeline EXCEPT ![c] = rows], UNCHANGED sending
  PROVE  KeepsHistory
<1>1. call[c] = NoCall /\ timeline[c] = <<>>
  BY DEF IInv, UnopenedIsBlank
<1>2. IsPrefix(timeline[c], rows)
  BY <1>1, AppendKeepsPrefix
<1>3. ~Closed(c) /\ call[c].requester = Nobody
  BY <1>1 DEF Closed, NoCall
<1> QED BY <1>2, <1>3, RowKeeps

LEMMA SameTimelineKeeps ==
  ASSUME IInv, NEW c \in Calls, NEW row, ~Closed(c),
         call' = [call EXCEPT ![c] = row], UNCHANGED <<timeline, sending>>,
         row.requester = call[c].requester,
         row.predecessor = call[c].predecessor
  PROVE  KeepsHistory
<1>1. timeline[c] \in Seq(TransitionRow)
  BY DEF IInv, TypeOK
<1>2. IsPrefix(timeline[c], timeline[c])
  BY <1>1, AppendKeepsPrefix DEF IsPrefix
<1>3. timeline' = [timeline EXCEPT ![c] = timeline[c]]
  BY DEF IInv, TypeOK
<1> QED BY <1>2, <1>3, RowKeeps

(* A reply that lands adds its row and takes nothing back.                 *)
LEMMA ReplyKeeps ==
  ASSUME IInv, NEW r \in Replies, RecordReply(r)
  PROVE  KeepsHistory
<1> DEFINE c == sending[r][1]
           entry == Row("REPLIED", sending[r][2], Nobody)
<1>1. /\ c \in Calls /\ sending[r][2] \in Staff /\ sending[r] # Nobody
      /\ timeline' = [timeline EXCEPT ![c] = Append(@, entry)]
      /\ sending' = [sending EXCEPT ![r] = Nobody] /\ UNCHANGED call
      /\ timeline \in [Calls -> Seq(TransitionRow)]
      /\ sending \in [Replies -> (Calls \X Staff) \cup {Nobody}]
  BY DEF RecordReply, IInv, TypeOK
<1>2. entry \in TransitionRow
  BY <1>1 DEF Row, TransitionRow
<1> SUFFICES ASSUME NEW d \in Calls
             PROVE  FrozenWhenClosed(d) /\ HistoryKept(d)
  BY DEF KeepsHistory
<1>3. RepliesTo(d)' \subseteq RepliesTo(d)
  BY <1>1 DEF RepliesTo
<1>4. CASE d = c
  <2>1. timeline'[d] = Append(timeline[d], entry) /\ r \in RepliesTo(d)
    BY <1>1, <1>4 DEF RepliesTo
  <2>2. ReplyLands(d)
    BY <2>1 DEF ReplyLands
  <2>3. IsPrefix(timeline[d], timeline'[d])
    BY <1>1, <1>2, <2>1, AppendKeepsPrefix
  <2> QED BY <1>1, <1>3, <2>2, <2>3 DEF FrozenWhenClosed, HistoryKept
<1>5. CASE d # c
  <2>1. timeline'[d] = timeline[d]
    BY <1>1, <1>5
  <2>2. IsPrefix(timeline[d], timeline[d])
    BY <1>1, AppendKeepsPrefix DEF IsPrefix
  <2> QED BY <1>1, <1>3, <2>1, <2>2 DEF FrozenWhenClosed, HistoryKept
<1> QED BY <1>4, <1>5

LEMMA NextKeeps == IInv /\ [Next]_vars => KeepsHistory
<1> SUFFICES ASSUME IInv, [Next]_vars PROVE KeepsHistory
  OBVIOUS
<1> USE DEF IInv
<1>1. ASSUME NEW c \in Calls, NEW ch \in Channels, NEW byTerms \in BOOLEAN,
             NEW a \in Addresses \cup {Nobody}, OpenCall(c, ch, a, byTerms)
      PROVE  KeepsHistory
  BY <1>1, FlagRowsType, OpenKeeps DEF OpenCall
<1>2. ASSUME NEW c \in Calls, NEW ch \in Channels, NEW byTerms \in BOOLEAN,
             NEW a \in Addresses, NEW pred \in Calls \cup {Nobody},
             NEW p \in Parties \cup {Nobody},
             OpenIntakeCall(c, ch, a, byTerms, pred, p)
      PROVE  KeepsHistory
  <2>1. FlagRows(byTerms) \o IdentifiedRows(p) \in Seq(TransitionRow)
    BY FlagRowsType, IdentifiedRowsType
  <2> QED BY <1>2, <2>1, OpenKeeps DEF OpenIntakeCall, MayFollow
<1>3. ASSUME NEW c \in Calls, FlagCallByTerms(c)
      PROVE  KeepsHistory
  <2>1. Row("FLAGGED", "TERMS", Nobody) \in TransitionRow
    BY DEF Row, TransitionRow
  <2> DEFINE row == [call[c] EXCEPT !.emergencyBy = "TERMS"]
  <2>2. /\ row.requester = call[c].requester
        /\ row.predecessor = call[c].predecessor
    BY DEF TypeOK, CallRow
  <2> QED
    BY <1>3, <2>1, <2>2, WriteKeeps
       DEF FlagCallByTerms, OnOpenList, Open
<1>4. ASSUME NEW c \in Calls, ReturnToFiltered(c) \/ RestoreReturnedCall(c)
      PROVE  KeepsHistory
  <2> DEFINE row(b) == [call[c] EXCEPT !.returned = b]
  <2>1. \A b \in BOOLEAN : row(b).requester = call[c].requester
                          /\ row(b).predecessor = call[c].predecessor
    BY DEF TypeOK, CallRow
  <2>2. ~Closed(c) /\ \E b \in BOOLEAN : call' = [call EXCEPT ![c] = row(b)]
    BY <1>4 DEF ReturnToFiltered, RestoreReturnedCall, Open, Closed, TypeOK,
                CallRow, CallsNameTheirFacts, StateNamesItsFacts
  <2> QED
    BY <1>4, <2>1, <2>2, SameTimelineKeeps
       DEF ReturnToFiltered, RestoreReturnedCall
<1>5. ASSUME NEW c \in Calls, NEW p \in Parties, NEW s \in Staff,
             IdentifyCall(c, p, s)
      PROVE  KeepsHistory
  <2> DEFINE row == [call[c] EXCEPT !.state = "IDENTIFIED", !.requester = p]
  <2>1. Row("IDENTIFIED", s, p) \in TransitionRow
    BY DEF Row, TransitionRow
  <2>2. call[c].requester = Nobody
    BY <1>5 DEF IdentifyCall, LinkRequester, CallsNameTheirFacts,
                StateNamesItsFacts
  <2>3. row.predecessor = call[c].predecessor
    BY DEF TypeOK, CallRow
  <2> QED
    BY <1>5, <2>1, <2>2, <2>3, WriteKeeps
       DEF IdentifyCall, LinkRequester, Closed
<1>6. ASSUME NEW c \in Calls, NEW k \in Categories, NEW s \in Staff,
             SetCallCategory(c, k, s)
      PROVE  KeepsHistory
  <2> DEFINE row == [call[c] EXCEPT !.state = "TRIAGED", !.category = k]
  <2>1. Row("TRIAGED", s, k) \in TransitionRow
    BY DEF Row, TransitionRow
  <2>2. /\ row.requester = call[c].requester
        /\ row.predecessor = call[c].predecessor
    BY DEF TypeOK, CallRow
  <2> QED BY <1>6, <2>1, <2>2, WriteKeeps DEF SetCallCategory, Closed
<1>7. ASSUME NEW c \in Calls, NEW s \in Staff,
             FlagEmergency(c, s) \/ ClearEmergency(c, s)
      PROVE  KeepsHistory
  <2> DEFINE row(e) == [call[c] EXCEPT !.emergencyBy = e]
  <2>1. /\ Row("FLAGGED", s, Nobody) \in TransitionRow
        /\ Row("CLEARED", s, Nobody) \in TransitionRow
    BY DEF Row, TransitionRow
  <2>2. \A e : row(e).requester = call[c].requester
               /\ row(e).predecessor = call[c].predecessor
    BY DEF TypeOK, CallRow
  <2> QED
    BY <1>7, <2>1, <2>2, WriteKeeps DEF FlagEmergency, ClearEmergency, Open
<1>8. ASSUME NEW c \in Calls, NEW kind \in ExitKind,
             NEW other \in Calls \cup {Nobody}, NEW s \in Staff,
             ExitCall(c, kind, other, s)
      PROVE  KeepsHistory
  <2>1. Row(kind, s, other) \in TransitionRow
    BY DEF Row, TransitionRow
  <2>2. /\ ExitRow(c, kind, other).requester = call[c].requester
        /\ ExitRow(c, kind, other).predecessor = call[c].predecessor
    BY DEF ExitRow, TypeOK, CallRow
  <2> QED BY <1>8, <2>1, <2>2, WriteKeeps DEF ExitCall, CanExit, Closed
<1>9. ASSUME UNCHANGED <<call, timeline>>,
             \A d \in Calls : Closed(d) => RepliesTo(d)' \subseteq RepliesTo(d)
      PROVE  KeepsHistory
  <2>1. \A d \in Calls : timeline[d] \in Seq(TransitionRow)
    BY DEF TypeOK
  <2>2. \A d \in Calls : IsPrefix(timeline[d], timeline[d])
    BY <2>1, AppendKeepsPrefix DEF IsPrefix
  <2> QED BY <1>9, <2>2 DEF KeepsHistory, FrozenWhenClosed, HistoryKept
<1>10. ASSUME OtherCommand
       PROVE  KeepsHistory
  <2>1. ASSUME NEW r \in Replies, NEW c \in Calls, NEW s \in Staff, BeginReply(r, c, s)
        PROVE  \A d \in Calls : Closed(d) => RepliesTo(d)' \subseteq RepliesTo(d)
    BY <2>1 DEF BeginReply, MayReply, Closed, RepliesTo, TypeOK
  <2>2. ASSUME UNCHANGED sending
        PROVE  \A d \in Calls : Closed(d) => RepliesTo(d)' \subseteq RepliesTo(d)
    BY <2>2 DEF RepliesTo
  <2>3. UNCHANGED <<call, timeline>>
    BY <1>10 DEF OtherCommand, SaveSenderContact, BeginReply, UpsertCategory,
                 TenancyRoleChange, ContactBegins, ContactEnds, vars
  <2>4. \/ \E r \in Replies, c \in Calls, s \in Staff : BeginReply(r, c, s)
        \/ UNCHANGED sending
    BY <1>10 DEF OtherCommand, SaveSenderContact, UpsertCategory,
                 TenancyRoleChange, ContactBegins, ContactEnds, vars
  <2> QED BY <1>9, <2>1, <2>2, <2>3, <2>4
<1>11. ASSUME NEW r \in Replies, RecordReply(r)
       PROVE  KeepsHistory
  BY <1>11, ReplyKeeps
<1> QED BY <1>1, <1>2, <1>3, <1>4, <1>5, <1>6, <1>7, <1>8, <1>10, <1>11
        DEF Next, OtherCommand

(* A closed call is never moved again: its columns stay, and its timeline  *)
(* grows only by the replies that were at the send when it was closed, for *)
(* any constants.                                                          *)
THEOREM ClosedStaysFrozen == Spec => ClosedCallIsFrozen
<1>1. IInv /\ [Next]_vars => [\A c \in Calls : FrozenWhenClosed(c)]_vars
  BY NextKeeps DEF KeepsHistory
<1> QED BY <1>1, InitIInv, NextIInv, PTL DEF Spec, ClosedCallIsFrozen

(* No command names a second requester, moves a call to another            *)
(* predecessor or rewrites what the timeline says, for any constants.      *)
THEOREM HistoryIsKept == Spec => HistoryOnlyGrows
<1>1. IInv /\ [Next]_vars => [\A c \in Calls : HistoryKept(c)]_vars
  BY NextKeeps DEF KeepsHistory
<1> QED BY <1>1, InitIInv, NextIInv, PTL DEF Spec, HistoryOnlyGrows
-----------------------------------------------------------------------------
(* What the timeline must tell of a row, and no requester without a name.  *)
Fits(row, rows) ==
  /\ Tells(row, rows)
  /\ \A i \in DOMAIN rows :
       rows[i].kind = "IDENTIFIED" \/ rows[i].by = "ADDRESS" => row.requester # Nobody

(* What a command writes on the row beside its entry of the timeline.      *)
Recorded(old, row, entry) ==
  /\ entry.by # "ADDRESS"
  /\ row.requester = IF entry.kind = "IDENTIFIED" THEN entry.what ELSE old.requester
  /\ row.category = IF entry.kind = "TRIAGED" THEN entry.what ELSE old.category
  /\ row.emergencyBy = IF entry.kind = "FLAGGED" THEN entry.by
                       ELSE IF entry.kind = "CLEARED" THEN Nobody ELSE old.emergencyBy
  /\ row.exit = IF entry.kind \in ExitKind THEN entry.kind ELSE old.exit
  /\ row.duplicateOf = IF entry.kind \in ExitKind THEN entry.what ELSE old.duplicateOf
  /\ entry.kind \in {"IDENTIFIED", "TRIAGED"} => entry.what # Nobody

LEMMA LastOfAppend ==
  ASSUME NEW rows \in Seq(TransitionRow), NEW e \in TransitionRow, NEW kinds
  PROVE  LastRows(Append(rows, e), kinds) =
           IF e.kind \in kinds THEN {e} ELSE LastRows(rows, kinds)
<1> DEFINE all == Append(rows, e)
           n == Len(rows)
<1>1. /\ n \in Nat /\ DOMAIN rows = 1..n /\ DOMAIN all = 1..(n + 1)
      /\ all[n + 1] = e /\ \A i \in 1..n : all[i] = rows[i]
  OBVIOUS
<1> DEFINE LastAt(s, i) == /\ s[i].kind \in kinds
                         /\ \A k \in DOMAIN s : s[k].kind \in kinds => k <= i
<1>2. \A x : x \in LastRows(all, kinds) <=> \E i \in DOMAIN all : LastAt(all, i) /\ x = all[i]
  BY DEF LastRows
<1>3. \A x : x \in LastRows(rows, kinds) <=>
               \E i \in DOMAIN rows : LastAt(rows, i) /\ x = rows[i]
  BY DEF LastRows
<1>4. CASE e.kind \in kinds
  <2>1. \A i \in DOMAIN all : LastAt(all, i) <=> i = n + 1
    BY <1>1, <1>4
  <2>2. LastRows(all, kinds) = {e}
    BY <1>1, <1>2, <2>1
  <2> QED BY <1>4, <2>2
<1>5. CASE e.kind \notin kinds
  <2>1. \A i \in DOMAIN all : LastAt(all, i) <=> i \in DOMAIN rows /\ LastAt(rows, i)
    BY <1>1, <1>5
  <2>2. \A i \in DOMAIN rows : i \in DOMAIN all /\ all[i] = rows[i]
    BY <1>1
  <2> HIDE DEF LastAt, all
  <2>3. \A x : x \in LastRows(all, kinds) <=> x \in LastRows(rows, kinds)
    BY <1>2, <1>3, <2>1, <2>2
  <2>4. LastRows(all, kinds) = LastRows(rows, kinds)
    BY <2>3 DEF LastRows
  <2> QED BY <1>5, <2>4 DEF all
<1> QED BY <1>4, <1>5

LEMMA FitsAppend ==
  ASSUME NEW old, NEW row, NEW rows \in Seq(TransitionRow), NEW e \in TransitionRow,
         Fits(old, rows), Recorded(old, row, e)
  PROVE  Fits(row, Append(rows, e))
<1> DEFINE all == Append(rows, e)
<1>1. e.by # Nobody /\ (e.kind \in ExitKind => e.kind # Nobody)
  BY NobodyAssumption DEF TransitionRow, Recorded
<1> HIDE DEF all
<1>8. \A kinds : LastRows(all, kinds) =
        IF e.kind \in kinds THEN {e} ELSE LastRows(rows, kinds)
  BY LastOfAppend DEF all
<1>2. {r.what : r \in LastRows(all, {"IDENTIFIED"})} = {row.requester} \ {Nobody}
  <2>1. CASE e.kind = "IDENTIFIED"
    <3>1. LastRows(all, {"IDENTIFIED"}) = {e}
      BY <1>8, <2>1
    <3> QED BY <2>1, <3>1 DEF Recorded
  <2>2. CASE e.kind # "IDENTIFIED"
    <3>1. LastRows(all, {"IDENTIFIED"}) = LastRows(rows, {"IDENTIFIED"})
      BY <1>8, <2>2
    <3> QED BY <2>2, <3>1 DEF Fits, Tells, Recorded
  <2> QED BY <2>1, <2>2
<1>3. {r.what : r \in LastRows(all, {"TRIAGED"})} = {row.category} \ {Nobody}
  <2>1. CASE e.kind = "TRIAGED"
    <3>1. LastRows(all, {"TRIAGED"}) = {e}
      BY <1>8, <2>1
    <3> QED BY <2>1, <3>1 DEF Recorded
  <2>2. CASE e.kind # "TRIAGED"
    <3>1. LastRows(all, {"TRIAGED"}) = LastRows(rows, {"TRIAGED"})
      BY <1>8, <2>2
    <3> QED BY <2>2, <3>1 DEF Fits, Tells, Recorded
  <2> QED BY <2>1, <2>2
<1>4. {r.by : r \in {q \in LastRows(all, {"FLAGGED", "CLEARED"}) : q.kind = "FLAGGED"}}
       = {row.emergencyBy} \ {Nobody}
  <2>1. CASE e.kind \in {"FLAGGED", "CLEARED"}
    <3>1. LastRows(all, {"FLAGGED", "CLEARED"}) = {e}
      BY <2>1, <1>8
    <3> QED BY <1>1, <2>1, <3>1 DEF Recorded
  <2>2. CASE e.kind \notin {"FLAGGED", "CLEARED"}
    <3>1. LastRows(all, {"FLAGGED", "CLEARED"}) = LastRows(rows, {"FLAGGED", "CLEARED"})
      BY <2>2, <1>8
    <3> QED BY <2>2, <3>1 DEF Fits, Tells, Recorded
  <2> QED BY <2>1, <2>2
<1>5. /\ {r.kind : r \in LastRows(all, ExitKind)} = {row.exit} \ {Nobody}
      /\ \A r \in LastRows(all, ExitKind) : r.what = row.duplicateOf
  <2>1. CASE e.kind \in ExitKind
    <3>1. LastRows(all, ExitKind) = {e}
      BY <1>8, <2>1
    <3> QED BY <1>1, <2>1, <3>1 DEF Recorded
  <2>2. CASE e.kind \notin ExitKind
    <3>1. LastRows(all, ExitKind) = LastRows(rows, ExitKind)
      BY <1>8, <2>2
    <3> QED BY <2>2, <3>1 DEF Fits, Tells, Recorded
  <2> QED BY <2>1, <2>2
<1>7. \A i \in DOMAIN all :
        all[i].kind = "IDENTIFIED" \/ all[i].by = "ADDRESS" => row.requester # Nobody
  <2>1. \A i \in DOMAIN all : all[i] = e \/ (i \in DOMAIN rows /\ all[i] = rows[i])
    BY DEF all
  <2> QED BY <2>1 DEF Fits, Recorded
<1> QED BY <1>2, <1>3, <1>4, <1>5, <1>7 DEF Fits, Tells, all

(* What a step may do to what the calls say of the past.                   *)
Matched(c, row) ==
  /\ ~Exists(c) /\ row.sender \in Addresses /\ row.requester # Nobody
  /\ row.requester = holder[row.sender]

KeepsPast ==
  \A d \in Calls :
    /\ Fits(call'[d], timeline'[d])
    /\ Exists(d) => call'[d].sender = call[d].sender
    /\ ~Exists(d) /\ call'[d].predecessor # Nobody => Closed(call'[d].predecessor)
    /\ \A i \in DOMAIN timeline'[d] :
         timeline'[d][i].by = "ADDRESS" =>
           IdentifiedByAddress(d) \/ Matched(d, call'[d])

AllFit == \A d \in Calls : Fits(call[d], timeline[d])

LEMMA OneRowPast ==
  ASSUME IInv, AllFit, NEW c \in Calls, NEW row, NEW rows,
         call' = [call EXCEPT ![c] = row], timeline' = [timeline EXCEPT ![c] = rows],
         Fits(row, rows), Exists(c) => row.sender = call[c].sender,
         ~Exists(c) /\ row.predecessor # Nobody => Closed(row.predecessor),
         \A i \in DOMAIN rows :
           rows[i].by = "ADDRESS" => IdentifiedByAddress(c) \/ Matched(c, row)
  PROVE  KeepsPast
<1> SUFFICES ASSUME NEW d \in Calls
             PROVE  /\ Fits(call'[d], timeline'[d])
                    /\ Exists(d) => call'[d].sender = call[d].sender
                    /\ ~Exists(d) /\ call'[d].predecessor # Nobody =>
                         Closed(call'[d].predecessor)
                    /\ \A i \in DOMAIN timeline'[d] :
                         timeline'[d][i].by = "ADDRESS" =>
                           IdentifiedByAddress(d) \/ Matched(d, call'[d])
  BY DEF KeepsPast
<1>1. CASE d = c
  <2>1. call'[d] = row /\ timeline'[d] = rows
    BY <1>1 DEF IInv, TypeOK
  <2> QED BY <1>1, <2>1
<1>2. CASE d # c
  <2>1. call'[d] = call[d] /\ timeline'[d] = timeline[d]
    BY <1>2 DEF IInv, TypeOK
  <2>2. ~Exists(d) => call[d].predecessor = Nobody
    BY DEF IInv, UnopenedIsBlank, NoCall
  <2> QED BY <2>1, <2>2 DEF AllFit, IdentifiedByAddress
<1> QED BY <1>1, <1>2

LEMMA WritePast ==
  ASSUME IInv, AllFit, NEW c \in Calls, NEW row, NEW entry \in TransitionRow,
         Write(c, row, entry), Exists(c), row.sender = call[c].sender,
         Recorded(call[c], row, entry)
  PROVE  KeepsPast
<1>1. timeline[c] \in Seq(TransitionRow)
  BY DEF IInv, TypeOK
<1>2. Fits(row, Append(timeline[c], entry))
  BY <1>1, FitsAppend DEF AllFit
<1>3. \A i \in DOMAIN Append(timeline[c], entry) :
        Append(timeline[c], entry)[i].by = "ADDRESS" => IdentifiedByAddress(c)
  <2>1. \A i \in DOMAIN Append(timeline[c], entry) :
          \/ Append(timeline[c], entry)[i] = entry
          \/ i \in DOMAIN timeline[c] /\ Append(timeline[c], entry)[i] = timeline[c][i]
    BY <1>1
  <2> QED BY <2>1 DEF Recorded, IdentifiedByAddress
<1> QED BY <1>2, <1>3, OneRowPast DEF Write

(* A new row has only its mark and its match to tell.                      *)
LEMMA OpeningFits ==
  ASSUME NEW byTerms \in BOOLEAN, NEW p \in Parties \cup {Nobody}, NEW row,
         row.category = Nobody, row.exit = Nobody, row.duplicateOf = Nobody,
         row.requester = p, row.emergencyBy = TermsMark(byTerms)
  PROVE  /\ Fits(row, FlagRows(byTerms) \o IdentifiedRows(p))
         /\ p = Nobody => FlagRows(byTerms) \o IdentifiedRows(p) = FlagRows(byTerms)
         /\ \A i \in DOMAIN FlagRows(byTerms) : FlagRows(byTerms)[i].by # "ADDRESS"
<1> DEFINE flag == Row("FLAGGED", "TERMS", Nobody)
           match == Row("IDENTIFIED", "ADDRESS", p)
           rows == FlagRows(byTerms)
           all == rows \o IdentifiedRows(p)
<1>0. rows \in Seq(TransitionRow) /\ flag \in TransitionRow
  BY FlagRowsType DEF Row, TransitionRow
<1>1. \A i \in DOMAIN rows : rows[i] = flag
  BY DEF FlagRows
<1>2. \A kinds : LastRows(rows, kinds) =
        IF byTerms /\ "FLAGGED" \in kinds THEN {flag} ELSE {}
  <2>1. CASE byTerms
    <3>1. rows = <<flag>>
      BY <2>1 DEF FlagRows
    <3>2. DOMAIN rows = {1} /\ rows[1] = flag /\ flag.kind = "FLAGGED"
      BY <3>1 DEF Row
    <3> HIDE DEF rows, flag
    <3> SUFFICES ASSUME NEW kinds
                 PROVE  LastRows(rows, kinds) = IF "FLAGGED" \in kinds THEN {flag} ELSE {}
      BY <2>1
    <3>3. \A j \in DOMAIN rows :
            (/\ rows[j].kind \in kinds
             /\ \A k \in DOMAIN rows : rows[k].kind \in kinds => k <= j)
              <=> "FLAGGED" \in kinds
      BY <3>2
    <3>4. CASE "FLAGGED" \in kinds
      <4>1. \A x : x \in LastRows(rows, kinds) <=> x = flag
        BY <3>2, <3>3, <3>4 DEF LastRows
      <4> QED BY <3>4, <4>1
    <3>5. CASE "FLAGGED" \notin kinds
      <4>1. \A x : x \notin LastRows(rows, kinds)
        BY <3>2, <3>3, <3>5 DEF LastRows
      <4> QED BY <3>5, <4>1
    <3> QED BY <3>4, <3>5
  <2>2. CASE ~byTerms
    <3>1. DOMAIN rows = {}
      BY <2>2 DEF FlagRows
    <3> QED BY <2>2, <3>1 DEF LastRows
  <2> QED BY <2>1, <2>2
<1>3. /\ flag.kind = "FLAGGED" /\ flag.by = "TERMS"
      /\ match.kind = "IDENTIFIED" /\ match.what = p
      /\ "TERMS" # Nobody /\ ExitKind \cap {"FLAGGED", "IDENTIFIED"} = {}
  BY NobodyAssumption DEF Row, ExitKind
<1>4. CASE p = Nobody
  <2>1. all = rows
    BY <1>0, <1>4 DEF IdentifiedRows
  <2>2. Tells(row, rows)
    BY <1>2, <1>3, <1>4 DEF Tells, TermsMark
  <2> QED BY <1>1, <1>3, <1>4, <2>1, <2>2 DEF Fits
<1>5. CASE p # Nobody
  <2>1. match \in TransitionRow
    BY <1>5 DEF Row, TransitionRow
  <2>2. all = Append(rows, match)
    BY <1>0, <1>5, <2>1 DEF IdentifiedRows
  <2> HIDE DEF match, all, rows
  <2>3. \A kinds : LastRows(all, kinds) =
          IF "IDENTIFIED" \in kinds THEN {match} ELSE LastRows(rows, kinds)
    BY <1>0, <1>3, <2>1, <2>2, LastOfAppend
  <2>4. /\ LastRows(all, {"IDENTIFIED"}) = {match}
        /\ LastRows(all, {"TRIAGED"}) = {} /\ LastRows(all, ExitKind) = {}
        /\ LastRows(all, {"FLAGGED", "CLEARED"}) = IF byTerms THEN {flag} ELSE {}
    BY <1>2, <1>3, <2>3
  <2>5. Tells(row, all)
    BY <1>3, <1>5, <2>4 DEF Tells, TermsMark
  <2> QED BY <1>1, <1>3, <1>5, <2>5 DEF Fits, all, rows
<1> QED BY <1>4, <1>5

LEMMA StillPast ==
  ASSUME IInv, AllFit, UNCHANGED <<call, timeline>>
  PROVE  KeepsPast
<1>1. \A d \in Calls : ~Exists(d) => call[d].predecessor = Nobody
  BY DEF IInv, UnopenedIsBlank, NoCall
<1> QED BY <1>1 DEF KeepsPast, AllFit, IdentifiedByAddress

LEMMA ReturnedPast ==
  ASSUME IInv, AllFit, NEW c \in Calls, NEW b \in BOOLEAN, Exists(c),
         call' = [call EXCEPT ![c].returned = b], UNCHANGED timeline
  PROVE  KeepsPast
<1> DEFINE row == [call[c] EXCEPT !.returned = b]
<1>1. /\ call[c] \in CallRow /\ timeline' = [timeline EXCEPT ![c] = timeline[c]]
      /\ call' = [call EXCEPT ![c] = row]
  BY DEF IInv, TypeOK
<1>2. /\ row.requester = call[c].requester /\ row.category = call[c].category
      /\ row.emergencyBy = call[c].emergencyBy /\ row.exit = call[c].exit
      /\ row.duplicateOf = call[c].duplicateOf /\ row.sender = call[c].sender
  BY <1>1 DEF CallRow
<1>3. Fits(row, timeline[c])
  BY <1>2 DEF AllFit, Fits, Tells
<1>4. \A i \in DOMAIN timeline[c] :
        timeline[c][i].by = "ADDRESS" => IdentifiedByAddress(c)
  BY DEF IdentifiedByAddress
<1> HIDE DEF row
<1> QED BY <1>1, <1>2, <1>3, <1>4, OneRowPast

LEMMA OpenCallPast ==
  ASSUME IInv, AllFit, NEW c \in Calls, NEW ch \in Channels,
         NEW a \in Addresses \cup {Nobody}, NEW byTerms \in BOOLEAN,
         OpenCall(c, ch, a, byTerms)
  PROVE  KeepsPast
<1> DEFINE row == [NoCall EXCEPT !.state = "NEW", !.channel = ch,
                     !.sender = a, !.emergencyBy = TermsMark(byTerms)]
<1>1. /\ row.category = Nobody /\ row.exit = Nobody /\ row.duplicateOf = Nobody
      /\ row.requester = Nobody /\ row.emergencyBy = TermsMark(byTerms)
      /\ row.predecessor = Nobody
  BY DEF NoCall
<1>2. /\ call' = [call EXCEPT ![c] = row] /\ ~Exists(c)
      /\ timeline' = [timeline EXCEPT ![c] = FlagRows(byTerms)]
  BY DEF OpenCall
<1> HIDE DEF row
<1>3. /\ Fits(row, FlagRows(byTerms))
      /\ \A i \in DOMAIN FlagRows(byTerms) : FlagRows(byTerms)[i].by # "ADDRESS"
  <2>1. \A p \in {Nobody} :
          /\ Fits(row, FlagRows(byTerms) \o IdentifiedRows(p))
          /\ FlagRows(byTerms) \o IdentifiedRows(p) = FlagRows(byTerms)
          /\ \A i \in DOMAIN FlagRows(byTerms) : FlagRows(byTerms)[i].by # "ADDRESS"
    BY <1>1, OpeningFits
  <2> QED BY <2>1
<1> QED BY <1>1, <1>2, <1>3, OneRowPast

LEMMA OpenIntakeCallPast ==
  ASSUME IInv, AllFit, NEW c \in Calls, NEW ch \in Channels, NEW a \in Addresses,
         NEW byTerms \in BOOLEAN, NEW pred \in Calls \cup {Nobody},
         NEW p \in Parties \cup {Nobody},
         OpenIntakeCall(c, ch, a, byTerms, pred, p)
  PROVE  KeepsPast
<1> DEFINE row == IntakeRow(ch, a, byTerms, pred, p)
           rows == FlagRows(byTerms) \o IdentifiedRows(p)
<1>1. /\ row.category = Nobody /\ row.exit = Nobody /\ row.duplicateOf = Nobody
      /\ row.requester = p /\ row.emergencyBy = TermsMark(byTerms)
      /\ row.predecessor = pred /\ row.sender = a
  BY DEF NoCall, IntakeRow
<1>2. /\ call' = [call EXCEPT ![c] = row] /\ ~Exists(c)
      /\ timeline' = [timeline EXCEPT ![c] = rows]
      /\ pred # Nobody => Closed(pred)
      /\ p # Nobody => p = holder[a]
  BY DEF OpenIntakeCall, MayFollow, MayIdentify
<1>3. /\ Fits(row, rows)
      /\ p = Nobody => rows = FlagRows(byTerms)
      /\ \A i \in DOMAIN FlagRows(byTerms) : FlagRows(byTerms)[i].by # "ADDRESS"
  <2> HIDE DEF row
  <2> QED BY <1>1, OpeningFits
<1>4. \A i \in DOMAIN rows : rows[i].by = "ADDRESS" => Matched(c, row)
  BY <1>1, <1>2, <1>3 DEF Matched
<1> HIDE DEF row, rows
<1> QED BY <1>1, <1>2, <1>3, <1>4, OneRowPast

LEMMA ReplyPast ==
  ASSUME IInv, AllFit, NEW r \in Replies, RecordReply(r)
  PROVE  KeepsPast
<1> DEFINE c == sending[r][1]
           entry == Row("REPLIED", sending[r][2], Nobody)
           rows == Append(timeline[c], entry)
<1>1. /\ c \in Calls /\ sending[r][2] \in Staff /\ Exists(c)
      /\ timeline' = [timeline EXCEPT ![c] = rows] /\ UNCHANGED call
      /\ timeline[c] \in Seq(TransitionRow)
      /\ call' = [call EXCEPT ![c] = call[c]]
  BY DEF RecordReply, IInv, TypeOK, RepliesAreToCalls
<1>2. /\ entry \in TransitionRow /\ entry.kind = "REPLIED" /\ entry.by # "ADDRESS"
      /\ "REPLIED" \notin ExitKind
  BY <1>1, StaffAssumption DEF Row, TransitionRow, ExitKind
<1> HIDE DEF c, entry
<1>3. Fits(call[c], rows)
  <2>1. Recorded(call[c], call[c], entry)
    BY <1>2 DEF Recorded
  <2> QED BY <1>1, <1>2, <2>1, FitsAppend DEF AllFit
<1>4. \A i \in DOMAIN rows : rows[i].by = "ADDRESS" => IdentifiedByAddress(c)
  <2>1. \A i \in DOMAIN rows :
          rows[i] = entry \/ (i \in DOMAIN timeline[c] /\ rows[i] = timeline[c][i])
    BY <1>1, <1>2
  <2> QED BY <1>2, <2>1 DEF IdentifiedByAddress
<1> QED BY <1>1, <1>3, <1>4, OneRowPast

LEMMA NextPast == IInv /\ AllFit /\ [Next]_vars => KeepsPast
<1> SUFFICES ASSUME IInv, AllFit, [Next]_vars PROVE KeepsPast
  OBVIOUS
<1>0. ASSUME NEW c \in Calls
      PROVE  call[c] \in CallRow /\ (Exists(c) <=> call[c].state # "none")
  BY DEF IInv, TypeOK, Exists
<1>1. ASSUME NEW c \in Calls, NEW ch \in Channels, NEW byTerms \in BOOLEAN,
             NEW a \in Addresses \cup {Nobody}, OpenCall(c, ch, a, byTerms)
      PROVE  KeepsPast
  BY <1>1, OpenCallPast
<1>2. ASSUME NEW c \in Calls, NEW ch \in Channels, NEW byTerms \in BOOLEAN,
             NEW a \in Addresses, NEW pred \in Calls \cup {Nobody},
             NEW p \in Parties \cup {Nobody},
             OpenIntakeCall(c, ch, a, byTerms, pred, p)
      PROVE  KeepsPast
  BY <1>2, OpenIntakeCallPast
<1>3. ASSUME NEW c \in Calls, NEW by \in Staff \cup {"TERMS"},
             NEW kind \in {"FLAGGED", "CLEARED"}, Exists(c),
             LET mark == IF kind = "FLAGGED" THEN by ELSE Nobody IN
             Write(c, [call[c] EXCEPT !.emergencyBy = mark], Row(kind, by, Nobody))
      PROVE  KeepsPast
  <2> DEFINE mark == IF kind = "FLAGGED" THEN by ELSE Nobody
             row == [call[c] EXCEPT !.emergencyBy = mark]
             entry == Row(kind, by, Nobody)
  <2>1. /\ entry \in TransitionRow /\ entry.kind = kind /\ entry.by = by
        /\ by # "ADDRESS" /\ kind \notin ExitKind
    BY StaffAssumption DEF Row, TransitionRow, ExitKind
  <2>2. /\ row.requester = call[c].requester /\ row.category = call[c].category
        /\ row.emergencyBy = mark /\ row.exit = call[c].exit
        /\ row.duplicateOf = call[c].duplicateOf /\ row.sender = call[c].sender
    BY <1>0 DEF CallRow
  <2>3. Write(c, row, entry)
    BY <1>3
  <2> HIDE DEF row, entry
  <2>4. Recorded(call[c], row, entry)
    BY <2>1, <2>2 DEF Recorded
  <2> QED BY <1>3, <2>1, <2>2, <2>3, <2>4, WritePast
<1>4. ASSUME NEW c \in Calls, ReturnToFiltered(c) \/ RestoreReturnedCall(c)
      PROVE  KeepsPast
  BY <1>4, ReturnedPast DEF ReturnToFiltered, RestoreReturnedCall, Open
<1>5. ASSUME NEW c \in Calls, NEW p \in Parties, NEW s \in Staff,
             IdentifyCall(c, p, s)
      PROVE  KeepsPast
  <2> DEFINE row == [call[c] EXCEPT !.state = "IDENTIFIED", !.requester = p]
             entry == Row("IDENTIFIED", s, p)
  <2>1. /\ entry \in TransitionRow /\ entry.kind = "IDENTIFIED" /\ entry.by = s
        /\ entry.what = p /\ s # "ADDRESS" /\ "IDENTIFIED" \notin ExitKind /\ p # Nobody
    BY StaffAssumption, NobodyAssumption DEF Row, TransitionRow, ExitKind
  <2>2. /\ row.requester = p /\ row.category = call[c].category
        /\ row.emergencyBy = call[c].emergencyBy /\ row.exit = call[c].exit
        /\ row.duplicateOf = call[c].duplicateOf /\ row.sender = call[c].sender
    BY <1>0 DEF CallRow
  <2>3. Write(c, row, entry) /\ Exists(c)
    BY <1>5, <1>0 DEF IdentifyCall, LinkRequester
  <2> HIDE DEF row, entry
  <2>4. Recorded(call[c], row, entry)
    BY <2>1, <2>2 DEF Recorded
  <2> QED BY <2>1, <2>2, <2>3, <2>4, WritePast
<1>6. ASSUME NEW c \in Calls, NEW k \in Categories, NEW s \in Staff,
             SetCallCategory(c, k, s)
      PROVE  KeepsPast
  <2> DEFINE row == [call[c] EXCEPT !.state = "TRIAGED", !.category = k]
             entry == Row("TRIAGED", s, k)
  <2>1. /\ entry \in TransitionRow /\ entry.kind = "TRIAGED" /\ entry.by = s
        /\ entry.what = k /\ s # "ADDRESS" /\ "TRIAGED" \notin ExitKind /\ k # Nobody
    BY StaffAssumption, NobodyAssumption DEF Row, TransitionRow, ExitKind
  <2>2. /\ row.requester = call[c].requester /\ row.category = k
        /\ row.emergencyBy = call[c].emergencyBy /\ row.exit = call[c].exit
        /\ row.duplicateOf = call[c].duplicateOf /\ row.sender = call[c].sender
    BY <1>0 DEF CallRow
  <2>3. Write(c, row, entry) /\ Exists(c)
    BY <1>6, <1>0 DEF SetCallCategory
  <2> HIDE DEF row, entry
  <2>4. Recorded(call[c], row, entry)
    BY <2>1, <2>2 DEF Recorded
  <2> QED BY <2>1, <2>2, <2>3, <2>4, WritePast
<1>7. ASSUME NEW c \in Calls, NEW kind \in ExitKind,
             NEW other \in Calls \cup {Nobody}, NEW s \in Staff,
             ExitCall(c, kind, other, s)
      PROVE  KeepsPast
  <2> DEFINE row == ExitRow(c, kind, other)
             entry == Row(kind, s, other)
  <2>1. /\ entry \in TransitionRow /\ entry.kind = kind /\ entry.by = s
        /\ entry.what = other /\ s # "ADDRESS"
        /\ kind \notin {"IDENTIFIED", "TRIAGED", "FLAGGED", "CLEARED"}
    BY StaffAssumption DEF Row, TransitionRow, ExitKind
  <2>2. /\ row.requester = call[c].requester /\ row.category = call[c].category
        /\ row.emergencyBy = call[c].emergencyBy /\ row.exit = kind
        /\ row.duplicateOf = other /\ row.sender = call[c].sender
    BY <1>0 DEF CallRow, ExitRow
  <2>3. Write(c, row, entry) /\ Exists(c)
    BY <1>7, <1>0 DEF ExitCall, CanExit
  <2> HIDE DEF row, entry
  <2>4. Recorded(call[c], row, entry)
    BY <2>1, <2>2 DEF Recorded
  <2> QED BY <2>1, <2>2, <2>3, <2>4, WritePast
<1>8. ASSUME NEW c \in Calls, FlagCallByTerms(c)
      PROVE  KeepsPast
  <2>1. Exists(c) /\ Write(c, [call[c] EXCEPT !.emergencyBy = "TERMS"],
                           Row("FLAGGED", "TERMS", Nobody))
    BY <1>8 DEF FlagCallByTerms, OnOpenList, Open
  <2> QED BY <1>3, <2>1
<1>9. ASSUME NEW c \in Calls, NEW s \in Staff,
             FlagEmergency(c, s) \/ ClearEmergency(c, s)
      PROVE  KeepsPast
  <2>1. CASE FlagEmergency(c, s)
    <3>1. Exists(c) /\ Write(c, [call[c] EXCEPT !.emergencyBy = s],
                             Row("FLAGGED", s, Nobody))
      BY <2>1 DEF FlagEmergency, Open
    <3> QED BY <1>3, <3>1
  <2>2. CASE ClearEmergency(c, s)
    <3>1. Exists(c) /\ Write(c, [call[c] EXCEPT !.emergencyBy = Nobody],
                             Row("CLEARED", s, Nobody))
      BY <2>2 DEF ClearEmergency, Open
    <3> QED BY <1>3, <3>1
  <2> QED BY <1>9, <2>1, <2>2
<1>10. ASSUME OtherCommand
       PROVE  KeepsPast
  BY <1>10, StillPast
     DEF OtherCommand, SaveSenderContact, BeginReply, UpsertCategory,
         TenancyRoleChange, ContactBegins, ContactEnds, vars
<1>11. ASSUME NEW r \in Replies, RecordReply(r)
       PROVE  KeepsPast
  BY <1>11, ReplyPast
<1> QED BY <1>1, <1>2, <1>4, <1>5, <1>6, <1>7, <1>8, <1>9, <1>10, <1>11
        DEF Next, OtherCommand

-----------------------------------------------------------------------------
(* PastInv adds to the rows' own checks what they say of the past: every   *)
(* timeline tells its row, an address that anyone holds was filed by       *)
(* another module or saved from a call a person identified, predecessors   *)
(* end and a match is traced back.                                         *)
LinkedByPerson(d, a, p) ==
  IdentifiedByPerson(d) /\ call[d].sender = a /\ call[d].requester = p

Vouched(a, p) ==
  <<a, p>> \in filed \/ \E d \in Calls : LinkedByPerson(d, a, p)

HoldersAreVouched ==
  \A a \in Addresses : holder[a] # Nobody => Vouched(a, holder[a])

PastInv ==
  /\ IInv
  /\ AllFit
  /\ HoldersAreVouched
  /\ PredecessorsAreOlder
  /\ AddressMatchTracesToAPerson

LEMMA PrefixKeeps ==
  ASSUME NEW S, NEW s \in Seq(S), NEW t \in Seq(S), IsPrefix(s, t)
  PROVE  \A i \in DOMAIN s : i \in DOMAIN t /\ t[i] = s[i]
<1>1. Len(s) <= Len(t) /\ SubSeq(s, 1, Len(s)) = SubSeq(t, 1, Len(s))
  BY DEF IsPrefix
<1>2. ASSUME NEW i \in DOMAIN s
      PROVE  i \in DOMAIN t /\ t[i] = s[i]
  <2>1. i \in 1..Len(s) /\ i \in 1..Len(t)
    BY <1>1
  <2>2. SubSeq(s, 1, Len(s))[i] = s[i] /\ SubSeq(t, 1, Len(s))[i] = t[i]
    BY <1>1, <2>1
  <2> QED BY <1>1, <2>1, <2>2
<1> QED BY <1>2

LEMMA InitPast == Init => PastInv
<1> SUFFICES ASSUME Init PROVE PastInv
  OBVIOUS
<1>1. IInv
  BY InitIInv
<1>2. \A c \in Calls : call[c] = NoCall /\ timeline[c] = <<>>
  BY DEF Init
<1>3. \A c \in Calls : ~IdentifiedByAddress(c)
  BY <1>2 DEF IdentifiedByAddress
<1>4. Fits(NoCall, <<>>)
  <2>1. \A kinds : LastRows(<<>>, kinds) = {}
    BY DEF LastRows
  <2> QED BY <2>1 DEF Fits, Tells, NoCall
<1>5. PredecessorsAreOlder
  <2>1. ASSUME NEW S \in SUBSET Calls, S # {}
        PROVE  \E c \in S : call[c].predecessor \notin S
    <3>1. PICK c \in S : TRUE
      BY <2>1
    <3>2. call[c].predecessor = Nobody
      BY <1>2 DEF NoCall
    <3> QED BY <3>1, <3>2, NobodyAssumption
  <2> QED BY <1>1, <2>1 DEF PredecessorsAreOlder, IInv
<1>6. HoldersAreVouched
  BY DEF Init, HoldersAreVouched
<1> QED BY <1>1, <1>2, <1>3, <1>4, <1>5, <1>6
       DEF PastInv, AllFit, AddressMatchTracesToAPerson

(* What a person or the door has said of a call it goes on saying.         *)
LEMMA SaidStaysSaid ==
  ASSUME PastInv, [Next]_vars, NEW d \in Calls,
         IdentifiedByPerson(d) \/ IdentifiedByAddress(d)
  PROVE  /\ Exists(d)
         /\ IdentifiedByPerson(d) => IdentifiedByPerson(d)'
         /\ call'[d].sender = call[d].sender
         /\ call[d].requester # Nobody
         /\ call'[d].requester = call[d].requester
<1>1. IInv /\ IInv' /\ KeepsHistory /\ KeepsPast
  BY NextIInv, NextKeeps, NextPast DEF PastInv
<1>2. /\ timeline[d] \in Seq(TransitionRow) /\ timeline'[d] \in Seq(TransitionRow)
      /\ IsPrefix(timeline[d], timeline'[d])
  BY <1>1 DEF IInv, TypeOK, KeepsHistory, HistoryKept
<1>3. \A i \in DOMAIN timeline[d] :
        i \in DOMAIN timeline'[d] /\ timeline'[d][i] = timeline[d][i]
  BY <1>2, PrefixKeeps
<1>4. Exists(d)
  BY <1>1 DEF IInv, UnopenedIsBlank, IdentifiedByPerson, IdentifiedByAddress
<1>5. call[d].requester # Nobody
  BY DEF PastInv, AllFit, Fits, IdentifiedByPerson, IdentifiedByAddress
<1>6. IdentifiedByPerson(d) => IdentifiedByPerson(d)'
  BY <1>3 DEF IdentifiedByPerson
<1> QED BY <1>1, <1>4, <1>5, <1>6 DEF KeepsHistory, HistoryKept, KeepsPast

(* Who touches the contacts.                                               *)
ContactsMove ==
  \/ \E c \in Calls : SaveSenderContact(c)
  \/ \E a \in Addresses, p \in Parties : ContactBegins(a, p)
  \/ \E a \in Addresses : ContactEnds(a)
  \/ UNCHANGED <<holder, filed>>

LEMMA ContactsMoveSo == [Next]_vars => ContactsMove
<1> SUFFICES ASSUME [Next]_vars PROVE ContactsMove
  OBVIOUS
<1>1. ASSUME NEW c, NEW row, NEW entry, Write(c, row, entry)
      PROVE  UNCHANGED <<holder, filed>>
  BY <1>1 DEF Write, beside
<1>2. ASSUME NEW c, NEW ch, NEW byTerms,
             \/ \E a : OpenCall(c, ch, a, byTerms)
             \/ \E a, pred, p : OpenIntakeCall(c, ch, a, byTerms, pred, p)
      PROVE  UNCHANGED <<holder, filed>>
  BY <1>2 DEF OpenCall, OpenIntakeCall, beside
<1>3. ASSUME NEW c,
             \/ FlagCallByTerms(c) \/ ReturnToFiltered(c)
             \/ RestoreReturnedCall(c)
      PROVE  UNCHANGED <<holder, filed>>
  BY <1>1, <1>3 DEF FlagCallByTerms, ReturnToFiltered, RestoreReturnedCall, beside
<1>4. ASSUME NEW c, NEW s,
             \/ \E p : IdentifyCall(c, p, s)
             \/ \E k : SetCallCategory(c, k, s)
             \/ FlagEmergency(c, s) \/ ClearEmergency(c, s)
             \/ \E kind, other : ExitCall(c, kind, other, s)
      PROVE  UNCHANGED <<holder, filed>>
  BY <1>1, <1>4 DEF IdentifyCall, LinkRequester, SetCallCategory, FlagEmergency,
                    ClearEmergency, ExitCall
<1>5. ASSUME \/ \E k : UpsertCategory(k)
             \/ \E p : TenancyRoleChange(p)
             \/ \E r, c, s : BeginReply(r, c, s)
             \/ \E r : RecordReply(r)
             \/ UNCHANGED vars
      PROVE  UNCHANGED <<holder, filed>>
  BY <1>5 DEF UpsertCategory, TenancyRoleChange, BeginReply, RecordReply, vars, beside
<1> QED BY <1>2, <1>3, <1>4, <1>5 DEF Next, ContactsMove

LEMMA FiledStaysFiled == ContactsMove => filed \subseteq filed'
BY DEF ContactsMove, SaveSenderContact, ContactBegins, ContactEnds

LEMMA VouchedStays ==
  ASSUME PastInv, [Next]_vars, NEW a, NEW p, Vouched(a, p)
  PROVE  Vouched(a, p)'
<1>1. CASE <<a, p>> \in filed
  BY <1>1, ContactsMoveSo, FiledStaysFiled DEF Vouched
<1>2. CASE \E d \in Calls : LinkedByPerson(d, a, p)
  <2>1. PICK d \in Calls : LinkedByPerson(d, a, p)
    BY <1>2
  <2>2. LinkedByPerson(d, a, p)'
    BY <2>1, SaidStaysSaid DEF LinkedByPerson
  <2> QED BY <2>2 DEF Vouched
<1> QED BY <1>1, <1>2 DEF Vouched

LEMMA HolderStep ==
  ASSUME PastInv, [Next]_vars
  PROVE  HoldersAreVouched'
<1>1. ASSUME NEW a \in Addresses, NEW p, Vouched(a, p)
      PROVE  Vouched(a, p)'
  BY <1>1, VouchedStays
<1>2. ASSUME NEW c \in Calls, SaveSenderContact(c)
      PROVE  HoldersAreVouched'
  <2>1. /\ holder' = [holder EXCEPT ![call[c].sender] = call[c].requester]
        /\ Vouched(call[c].sender, call[c].requester)
        /\ holder \in [Addresses -> Parties \cup {Nobody}]
    BY <1>2 DEF SaveSenderContact, Vouched, LinkedByPerson, PastInv, IInv, TypeOK
  <2>2. ASSUME NEW a \in Addresses, holder'[a] # Nobody
        PROVE  Vouched(a, holder'[a])
    BY <2>1, <2>2 DEF PastInv, HoldersAreVouched
  <2> HIDE DEF Vouched
  <2>3. ASSUME NEW a \in Addresses, holder'[a] # Nobody
        PROVE  Vouched(a, holder[a])'
    BY <1>1, <2>2, <2>3 DEF Vouched
  <2> QED BY <2>3 DEF HoldersAreVouched
<1>3. ASSUME NEW a \in Addresses, ContactEnds(a)
      PROVE  HoldersAreVouched'
  <2>1. \A b \in Addresses : holder'[b] # Nobody => holder'[b] = holder[b]
    BY <1>3 DEF ContactEnds, PastInv, IInv, TypeOK
  <2> QED BY <1>1, <2>1 DEF PastInv, HoldersAreVouched, Vouched
<1>4. ASSUME UNCHANGED holder
      PROVE  HoldersAreVouched'
  BY <1>1, <1>4 DEF PastInv, HoldersAreVouched, Vouched
<1>5. ASSUME NEW a \in Addresses, NEW p \in Parties, ContactBegins(a, p)
      PROVE  HoldersAreVouched'
  <2>1. /\ holder' = [holder EXCEPT ![a] = p] /\ <<a, p>> \in filed'
        /\ holder \in [Addresses -> Parties \cup {Nobody}]
    BY <1>5 DEF ContactBegins, PastInv, IInv, TypeOK
  <2>2. ASSUME NEW b \in Addresses, holder'[b] # Nobody
        PROVE  Vouched(b, holder[b])'
    BY <1>1, <2>1, <2>2 DEF PastInv, HoldersAreVouched, Vouched
  <2> QED BY <2>2 DEF HoldersAreVouched
<1> QED BY <1>2, <1>3, <1>4, <1>5, ContactsMoveSo DEF ContactsMove

(* A call that is there keeps its predecessor, one that is opened follows  *)
(* a closed call: of a set of calls, those that were there before have one *)
(* whose predecessor is none of them, and it is none of the new ones.      *)
LEMMA OlderStep ==
  ASSUME PastInv, [Next]_vars
  PROVE  PredecessorsAreOlder'
<1>1. IInv /\ IInv' /\ KeepsHistory /\ KeepsPast
  BY NextIInv, NextKeeps, NextPast DEF PastInv
<1>2. ASSUME NEW S \in SUBSET Calls, S # {}
      PROVE  \E c \in S : call'[c].predecessor \notin S
  <2> DEFINE T == {c \in S : Exists(c)}
  <2>1. \A c \in T : call'[c].predecessor = call[c].predecessor
    BY <1>1 DEF KeepsHistory, HistoryKept
  <2>2. CASE T = {}
    <3>1. PICK c \in S : ~Exists(c)
      BY <1>2, <2>2
    <3>2. \A d \in S : ~Closed(d)
      BY <2>2 DEF Closed, Exists
    <3>3. call'[c].predecessor \notin S
      BY <1>1, <3>1, <3>2, NobodyAssumption DEF KeepsPast
    <3> QED BY <3>1, <3>3
  <2>3. CASE T # {}
    <3>1. PICK c \in T : call[c].predecessor \notin T
      BY <2>3 DEF PastInv, PredecessorsAreOlder
    <3>2. call[c].predecessor # Nobody => Exists(call[c].predecessor)
      BY <1>1 DEF IInv, PredecessorsAreClosed, Closed, Exists
    <3>3. call[c].predecessor \notin S
      BY <3>1, <3>2, NobodyAssumption
    <3> QED BY <2>1, <3>1, <3>3
  <2> QED BY <2>2, <2>3
<1> QED BY <1>1, <1>2 DEF PredecessorsAreOlder, IInv

\* A match of call c, of an address a to a requester p, is traced back.
Traced(c, a, p) ==
  <<a, p>> \in filed \/ \E d \in Calls \ {c} : LinkedByPerson(d, a, p)

LEMMA TracedStays ==
  ASSUME PastInv, [Next]_vars, NEW c \in Calls, NEW a, NEW p, Traced(c, a, p)
  PROVE  Traced(c, a, p)'
<1>1. CASE <<a, p>> \in filed
  BY <1>1, ContactsMoveSo, FiledStaysFiled DEF Traced
<1>2. CASE \E d \in Calls \ {c} : LinkedByPerson(d, a, p)
  <2>1. PICK d \in Calls \ {c} : LinkedByPerson(d, a, p)
    BY <1>2
  <2>2. LinkedByPerson(d, a, p)'
    BY <2>1, SaidStaysSaid DEF LinkedByPerson
  <2> QED BY <2>2 DEF Traced
<1> QED BY <1>1, <1>2 DEF Traced

LEMMA MatchStep ==
  ASSUME PastInv, [Next]_vars
  PROVE  AddressMatchTracesToAPerson'
<1>1. KeepsPast
  BY NextPast DEF PastInv
<1>2. ASSUME NEW c \in Calls, IdentifiedByAddress(c)
      PROVE  Traced(c, call'[c].sender, call'[c].requester)
  BY <1>2, SaidStaysSaid
     DEF PastInv, AddressMatchTracesToAPerson, Traced, LinkedByPerson
<1>3. ASSUME NEW c \in Calls, Matched(c, call'[c])
      PROVE  Traced(c, call'[c].sender, call'[c].requester)
  <2>1. Vouched(call'[c].sender, call'[c].requester)
    BY <1>3 DEF Matched, PastInv, HoldersAreVouched
  <2>2. ASSUME NEW d \in Calls,
               LinkedByPerson(d, call'[c].sender, call'[c].requester)
        PROVE  d # c
    BY <1>3, <2>2, SaidStaysSaid DEF Matched, LinkedByPerson
  <2> QED BY <2>1, <2>2 DEF Vouched, Traced
<1>4. ASSUME NEW c \in Calls, IdentifiedByAddress(c)'
      PROVE  IdentifiedByAddress(c) \/ Matched(c, call'[c])
  BY <1>1, <1>4 DEF KeepsPast, IdentifiedByAddress
<1>5. ASSUME NEW c \in Calls, IdentifiedByAddress(c)'
      PROVE  Traced(c, call[c].sender, call[c].requester)'
  <2>1. Traced(c, call'[c].sender, call'[c].requester)
    BY <1>2, <1>3, <1>4, <1>5
  <2>2. ASSUME NEW a, NEW p, Traced(c, a, p) PROVE Traced(c, a, p)'
    BY <2>2, TracedStays
  <2> QED BY <2>1, <2>2 DEF Traced, LinkedByPerson, IdentifiedByPerson
<1> QED BY <1>5 DEF AddressMatchTracesToAPerson, Traced, LinkedByPerson

LEMMA NextPastInv == PastInv /\ [Next]_vars => PastInv'
<1> SUFFICES ASSUME PastInv, [Next]_vars PROVE PastInv'
  OBVIOUS
<1>1. IInv' /\ AllFit'
  BY NextIInv, NextPast DEF PastInv, KeepsPast, AllFit
<1> QED BY <1>1, HolderStep, OlderStep, MatchStep DEF PastInv

(* The timeline alone tells what a call is: the last row of each kind has  *)
(* the requester, the category, the flag and the exit of the call's own    *)
(* columns, after any sequence of commands and for any constants.          *)
THEOREM TimelinesTellTheirCalls == Spec => []TimelineTellsTheCall
<1>1. PastInv => TimelineTellsTheCall
  BY DEF PastInv, AllFit, Fits, TimelineTellsTheCall
<1> QED BY <1>1, InitPast, NextPastInv, PTL DEF Spec

(* A chain of predecessors ends, and behind a call the door identified     *)
(* from its address stands a contact another module filed of it to that    *)
(* requester, or another call from it that a person linked to them, for    *)
(* any constants.                                                          *)
THEOREM CallsRestOnThePast == Spec => []RestsOnThePast
<1>1. PastInv => RestsOnThePast
  BY DEF PastInv, RestsOnThePast
<1> QED BY <1>1, InitPast, NextPastInv, PTL DEF Spec

-----------------------------------------------------------------------------
(* The course of a call on its page.  The kinds of row a timeline holds    *)
(* say which columns were ever written; a category waits for TRIAGED and   *)
(* outlasts it only in CLOSED; and what was cleared had been flagged.      *)
KindsOf(rows) == {rows[i].kind : i \in DOMAIN rows}

CourseFits(row, rows) ==
  /\ "IDENTIFIED" \in KindsOf(rows) <=> row.requester # Nobody
  /\ "TRIAGED" \in KindsOf(rows) <=> row.category # Nobody
  /\ row.category # Nobody => row.state \in {"TRIAGED", "CLOSED"}
  /\ row.emergencyBy # Nobody \/ "CLEARED" \in KindsOf(rows) =>
       "FLAGGED" \in KindsOf(rows)

CourseInv == IInv /\ \A c \in Calls : CourseFits(call[c], timeline[c])

LEMMA KindsOfNone == KindsOf(<<>>) = {}
BY DEF KindsOf

LEMMA KindsOfAppend ==
  ASSUME NEW rows \in Seq(TransitionRow), NEW entry \in TransitionRow
  PROVE  KindsOf(Append(rows, entry)) = KindsOf(rows) \cup {entry.kind}
<1> DEFINE longer == Append(rows, entry)
<1>1. /\ DOMAIN longer = 1..(Len(rows) + 1) /\ DOMAIN rows = 1..Len(rows)
      /\ Len(rows) \in Nat /\ longer[Len(rows) + 1] = entry
      /\ \A i \in 1..Len(rows) : longer[i] = rows[i]
  OBVIOUS
<1>2. ASSUME NEW kind \in KindsOf(longer) PROVE kind \in KindsOf(rows) \cup {entry.kind}
  <2>1. PICK i \in DOMAIN longer : kind = longer[i].kind
    BY <1>2 DEF KindsOf
  <2>2. i \in 1..Len(rows) \/ i = Len(rows) + 1
    BY <1>1, <2>1
  <2> QED BY <1>1, <2>1, <2>2 DEF KindsOf
<1>3. ASSUME NEW kind \in KindsOf(rows) PROVE kind \in KindsOf(longer)
  <2>1. PICK i \in DOMAIN rows : kind = rows[i].kind
    BY <1>3 DEF KindsOf
  <2>2. i \in DOMAIN longer /\ longer[i].kind = kind
    BY <1>1, <2>1
  <2> QED BY <2>2 DEF KindsOf
<1>4. entry.kind \in KindsOf(longer)
  <2>1. Len(rows) + 1 \in DOMAIN longer
    BY <1>1
  <2> QED BY <1>1, <2>1 DEF KindsOf
<1> QED BY <1>2, <1>3, <1>4

(* A command that writes one row and one entry of the timeline.            *)
LEMMA CourseWrite ==
  ASSUME CourseInv, NEW c \in Calls, NEW row, NEW entry \in TransitionRow,
         Write(c, row, entry),
         CourseFits(call[c], timeline[c])
           /\ KindsOf(Append(timeline[c], entry))
                = KindsOf(timeline[c]) \cup {entry.kind}
           => CourseFits(row, Append(timeline[c], entry))
  PROVE  \A d \in Calls : CourseFits(call[d], timeline[d])'
<1>1. /\ call' = [call EXCEPT ![c] = row]
      /\ timeline' = [timeline EXCEPT ![c] = Append(@, entry)]
      /\ call \in [Calls -> CallRow] /\ timeline \in [Calls -> Seq(TransitionRow)]
  BY DEF Write, CourseInv, IInv, TypeOK
<1>2. CourseFits(row, Append(timeline[c], entry))
  BY <1>1, KindsOfAppend DEF CourseInv
<1>3. /\ call'[c] = row /\ timeline'[c] = Append(timeline[c], entry)
      /\ \A d \in Calls \ {c} : call'[d] = call[d] /\ timeline'[d] = timeline[d]
  BY <1>1
<1>4. ASSUME NEW d \in Calls PROVE CourseFits(call'[d], timeline'[d])
  <2>1. CASE d = c
    BY <1>2, <1>3, <2>1
  <2>2. CASE d # c
    BY <1>3, <2>2 DEF CourseInv
  <2> QED BY <2>1, <2>2
<1> QED BY <1>4 DEF CourseFits, KindsOf

(* A call opened with the rows of its opening.                             *)
LEMMA CourseOpens ==
  ASSUME CourseInv, NEW c \in Calls, NEW row, NEW rows, CourseFits(row, rows),
         call' = [call EXCEPT ![c] = row], timeline' = [timeline EXCEPT ![c] = rows]
  PROVE  \A d \in Calls : CourseFits(call[d], timeline[d])'
<1>1. call \in [Calls -> CallRow] /\ timeline \in [Calls -> Seq(TransitionRow)]
  BY DEF CourseInv, IInv, TypeOK
<1>2. /\ call'[c] = row /\ timeline'[c] = rows
      /\ \A d \in Calls \ {c} : call'[d] = call[d] /\ timeline'[d] = timeline[d]
  BY <1>1
<1>3. ASSUME NEW d \in Calls PROVE CourseFits(call'[d], timeline'[d])
  BY <1>2 DEF CourseInv
<1> QED BY <1>3 DEF CourseFits, KindsOf

LEMMA OpeningsFit ==
  ASSUME NEW byTerms \in BOOLEAN, NEW p \in Parties \cup {Nobody}, NEW ch, NEW a, NEW pred
  PROVE  /\ CourseFits([NoCall EXCEPT !.state = "NEW", !.channel = ch, !.sender = a,
                                      !.emergencyBy = TermsMark(byTerms)],
                       FlagRows(byTerms))
         /\ CourseFits(IntakeRow(ch, a, byTerms, pred, p),
                       FlagRows(byTerms) \o IdentifiedRows(p))
<1>1. KindsOf(FlagRows(byTerms)) = IF byTerms THEN {"FLAGGED"} ELSE {}
  BY DEF KindsOf, FlagRows, Row
<1>2. KindsOf(FlagRows(byTerms) \o IdentifiedRows(p))
        = (IF byTerms THEN {"FLAGGED"} ELSE {})
            \cup (IF p = Nobody THEN {} ELSE {"IDENTIFIED"})
  <2>1. CASE p = Nobody
    <3>1. FlagRows(byTerms) \o IdentifiedRows(p) = FlagRows(byTerms)
      BY <2>1 DEF FlagRows, IdentifiedRows
    <3> QED BY <1>1, <2>1, <3>1
  <2>2. CASE p # Nobody
    <3>1. CASE byTerms
      <4> DEFINE flagged == Row("FLAGGED", "TERMS", Nobody)
                 identified == Row("IDENTIFIED", "ADDRESS", p)
                 both == FlagRows(byTerms) \o IdentifiedRows(p)
      <4>1. flagged.kind = "FLAGGED" /\ identified.kind = "IDENTIFIED"
        BY DEF Row
      <4>2. both = <<flagged>> \o <<identified>>
        BY <2>2, <3>1 DEF FlagRows, IdentifiedRows
      <4> HIDE DEF flagged, identified
      <4>3. /\ DOMAIN (<<flagged>> \o <<identified>>) = {1, 2}
            /\ (<<flagged>> \o <<identified>>)[1] = flagged
            /\ (<<flagged>> \o <<identified>>)[2] = identified
        OBVIOUS
      <4>4. DOMAIN both = {1, 2} /\ both[1] = flagged /\ both[2] = identified
        BY <4>2, <4>3
      <4> HIDE DEF both
      <4>5. KindsOf(both) = {"FLAGGED", "IDENTIFIED"}
        BY <4>1, <4>4 DEF KindsOf
      <4> QED BY <2>2, <3>1, <4>5 DEF both
    <3>2. CASE ~byTerms
      <4>1. FlagRows(byTerms) \o IdentifiedRows(p) = <<Row("IDENTIFIED", "ADDRESS", p)>>
        BY <2>2, <3>2 DEF FlagRows, IdentifiedRows
      <4> QED BY <2>2, <3>2, <4>1 DEF KindsOf, Row
    <3> QED BY <3>1, <3>2
  <2> QED BY <2>1, <2>2
<1>3. TermsMark(byTerms) # Nobody => byTerms
  BY DEF TermsMark
<1> QED BY <1>1, <1>2, <1>3 DEF CourseFits, IntakeRow, NoCall

LEMMA ReplyCourse ==
  ASSUME CourseInv, NEW r \in Replies, RecordReply(r)
  PROVE  \A c \in Calls : CourseFits(call[c], timeline[c])'
<1> DEFINE c == sending[r][1]
           entry == Row("REPLIED", sending[r][2], Nobody)
           rows == Append(timeline[c], entry)
<1>1. /\ c \in Calls /\ sending[r][2] \in Staff
      /\ timeline' = [timeline EXCEPT ![c] = rows] /\ UNCHANGED call
      /\ timeline[c] \in Seq(TransitionRow)
      /\ call' = [call EXCEPT ![c] = call[c]]
  BY DEF RecordReply, CourseInv, IInv, TypeOK
<1>2. entry \in TransitionRow /\ entry.kind = "REPLIED"
  BY <1>1 DEF Row, TransitionRow
<1> HIDE DEF c, entry
<1>3. CourseFits(call[c], rows)
  BY <1>1, <1>2, KindsOfAppend DEF CourseInv, CourseFits
<1> QED BY <1>1, <1>3, CourseOpens

LEMMA NextCourse ==
  ASSUME CourseInv, [Next]_vars PROVE \A c \in Calls : CourseFits(call[c], timeline[c])'
<1> DEFINE Goal == \A c \in Calls : CourseFits(call[c], timeline[c])'
<1>0. /\ \A c \in Calls : /\ call[c] \in CallRow /\ StateNamesItsFacts(call[c])
                          /\ CourseFits(call[c], timeline[c])
      /\ Nobody \notin Parties \cup Categories \cup Staff /\ "TERMS" # Nobody
      /\ call \in [Calls -> CallRow]
  BY NobodyAssumption DEF CourseInv, IInv, TypeOK, CallsNameTheirFacts
<1>1. ASSUME NEW c \in Calls, NEW ch \in Channels, NEW byTerms \in BOOLEAN,
             NEW a \in Addresses \cup {Nobody}, OpenCall(c, ch, a, byTerms)
      PROVE  Goal
  BY <1>1, OpeningsFit, CourseOpens DEF OpenCall
<1>2. ASSUME NEW c \in Calls, NEW ch \in Channels, NEW byTerms \in BOOLEAN,
             NEW a \in Addresses, NEW pred \in Calls \cup {Nobody},
             NEW p \in Parties \cup {Nobody},
             OpenIntakeCall(c, ch, a, byTerms, pred, p)
      PROVE  Goal
  BY <1>2, OpeningsFit, CourseOpens DEF OpenIntakeCall
<1>3. ASSUME NEW c \in Calls, NEW by \in Staff \cup {"TERMS"},
             Write(c, [call[c] EXCEPT !.emergencyBy = by], Row("FLAGGED", by, Nobody))
      PROVE  Goal
  <2>1. Row("FLAGGED", by, Nobody) \in TransitionRow /\ Row("FLAGGED", by, Nobody).kind = "FLAGGED"
    BY DEF Row, TransitionRow
  <2> QED BY <1>0, <1>3, <2>1, CourseWrite DEF CourseFits, CallRow
<1>4. ASSUME NEW c \in Calls, FlagCallByTerms(c) PROVE Goal
  BY <1>3, <1>4 DEF FlagCallByTerms
<1>5. ASSUME NEW c \in Calls, NEW s \in Staff, FlagEmergency(c, s) PROVE Goal
  BY <1>3, <1>5 DEF FlagEmergency
<1>6. ASSUME NEW c \in Calls, NEW s \in Staff, ClearEmergency(c, s) PROVE Goal
  <2>1. Row("CLEARED", s, Nobody) \in TransitionRow /\ Row("CLEARED", s, Nobody).kind = "CLEARED"
    BY DEF Row, TransitionRow
  <2> QED BY <1>0, <1>6, <2>1, CourseWrite DEF ClearEmergency, CourseFits, CallRow
<1>7. ASSUME NEW c \in Calls, NEW s \in Staff, NEW p \in Parties, IdentifyCall(c, p, s)
      PROVE  Goal
  <2>1. Row("IDENTIFIED", s, p) \in TransitionRow /\ Row("IDENTIFIED", s, p).kind = "IDENTIFIED"
    BY DEF Row, TransitionRow
  <2> QED BY <1>0, <1>7, <2>1, CourseWrite
          DEF IdentifyCall, LinkRequester, CourseFits, CallRow, StateNamesItsFacts
<1>8. ASSUME NEW c \in Calls, NEW s \in Staff, NEW k \in Categories, SetCallCategory(c, k, s)
      PROVE  Goal
  <2>1. Row("TRIAGED", s, k) \in TransitionRow /\ Row("TRIAGED", s, k).kind = "TRIAGED"
    BY DEF Row, TransitionRow
  <2> QED BY <1>0, <1>8, <2>1, CourseWrite DEF SetCallCategory, CourseFits, CallRow
<1>9. ASSUME NEW c \in Calls, NEW s \in Staff, NEW kind \in ExitKind,
             NEW other \in Calls \cup {Nobody}, ExitCall(c, kind, other, s)
      PROVE  Goal
  <2>1. /\ Row(kind, s, other) \in TransitionRow /\ Row(kind, s, other).kind = kind
        /\ kind \notin {"IDENTIFIED", "TRIAGED", "FLAGGED", "CLEARED"}
    BY DEF Row, TransitionRow, ExitKind
  <2> QED BY <1>0, <1>9, <2>1, CourseWrite DEF ExitCall, ExitRow, CourseFits, CallRow
<1>10. ASSUME NEW c \in Calls, ReturnToFiltered(c) \/ RestoreReturnedCall(c)
       PROVE  Goal
  <2>1. /\ timeline' = timeline
        /\ \A d \in Calls :
             /\ call'[d].requester = call[d].requester
             /\ call'[d].category = call[d].category
             /\ call'[d].state = call[d].state
             /\ call'[d].emergencyBy = call[d].emergencyBy
    BY <1>0, <1>10 DEF ReturnToFiltered, RestoreReturnedCall, CallRow
  <2> QED BY <1>0, <2>1 DEF CourseFits, KindsOf
<1>11. ASSUME OtherCommand
       PROVE  Goal
  <2>1. UNCHANGED <<call, timeline>>
    BY <1>11 DEF OtherCommand, SaveSenderContact, BeginReply, UpsertCategory,
                 TenancyRoleChange, ContactBegins, ContactEnds, vars
  <2> QED BY <1>0, <2>1 DEF CourseFits, KindsOf
<1>12. ASSUME NEW r \in Replies, RecordReply(r)
       PROVE  Goal
  BY <1>12, ReplyCourse DEF CourseFits, KindsOf
<1> QED BY <1>1, <1>2, <1>4, <1>5, <1>6, <1>7, <1>8, <1>9, <1>10, <1>11, <1>12
        DEF Next, OtherCommand

(* The course drawn from the state and the one drawn from the timeline are *)
(* one, and a call that ever was an emergency says so for good, after any  *)
(* sequence of commands and for any constants.                             *)
THEOREM CoursesAreOne == Spec => []CourseIsOne
<1>1. CourseInv => CourseIsOne
  <2> SUFFICES ASSUME CourseInv, NEW c \in Calls, Exists(c)
               PROVE  /\ ~Closed(c) => PassedStates(c) = StepsDone(c) \cup {call[c].state}
                      /\ call[c].category # Nobody => "TRIAGED" \in PassedStates(c)
                      /\ "CLEARED" \in DrawnKinds(c) => WasEmergency(c)
    BY DEF CourseIsOne
  <2>1. /\ CourseFits(call[c], timeline[c]) /\ StateNamesItsFacts(call[c])
        /\ call[c].state \in CallState \cup {"none"} /\ call[c].state # "none"
    BY DEF CourseInv, IInv, TypeOK, CallsNameTheirFacts, CallRow, Exists
  <2>2. DrawnKinds(c) = {"OPENED"} \cup KindsOf(timeline[c])
    BY DEF DrawnKinds, KindsOf
  <2>3. ("IDENTIFIED" \in DrawnKinds(c) <=> call[c].requester # Nobody)
          /\ ("TRIAGED" \in DrawnKinds(c) <=> call[c].category # Nobody)
    BY <2>1, <2>2 DEF CourseFits
  <2>4. PassedStates(c) =
          {"NEW"} \cup (IF call[c].requester # Nobody THEN {"IDENTIFIED"} ELSE {})
                  \cup (IF call[c].category # Nobody THEN {"TRIAGED"} ELSE {})
                  \cup (IF Closed(c) THEN {"CLOSED"} ELSE {})
    BY <2>2, <2>3 DEF PassedStates
  <2>5. ASSUME ~Closed(c) PROVE PassedStates(c) = StepsDone(c) \cup {call[c].state}
    <3>1. CASE call[c].state = "NEW"
      BY <2>1, <2>4, <2>5, <3>1 DEF StepsDone, StateNamesItsFacts
    <3>2. CASE call[c].state = "IDENTIFIED"
      BY <2>1, <2>4, <2>5, <3>2 DEF StepsDone, StateNamesItsFacts, CourseFits
    <3>3. CASE call[c].state = "TRIAGED"
      BY <2>1, <2>4, <2>5, <3>3 DEF StepsDone, StateNamesItsFacts
    <3> QED BY <2>1, <2>5, <3>1, <3>2, <3>3 DEF CallState, Closed
  <2>6. "CLEARED" \in DrawnKinds(c) => WasEmergency(c)
    BY <2>1, <2>2 DEF CourseFits, WasEmergency
  <2> QED BY <2>4, <2>5, <2>6
<1>2. Init => CourseInv
  <2> SUFFICES ASSUME Init PROVE \A c \in Calls : CourseFits(call[c], timeline[c])
    BY InitIInv DEF CourseInv
  <2> QED BY KindsOfNone DEF Init, CourseFits, NoCall
<1>3. CourseInv /\ [Next]_vars => CourseInv'
  BY NextIInv, NextCourse DEF CourseInv
<1> QED BY <1>1, <1>2, <1>3, PTL DEF Spec

=============================================================================
