------------------------------- MODULE CallPage -------------------------------
(***************************************************************************)
(* The page of one call (calls/internal/views.ts, routes.ts): the forms it *)
(* draws from one read of the row, the command each of them posts, and the *)
(* course of the call it tells.  The page keeps no state; any command of   *)
(* ServiceCall may run between the read and the post.                      *)
(***************************************************************************)
EXTENDS ServiceCall

Form(do, arg) == [do |-> do, arg |-> arg]
Unless(hidden, forms) == IF hidden THEN {} ELSE forms

\* getCall: the opening of the row, then the kinds of its timeline.
DrawnKinds(c) == {"OPENED"} \cup {timeline[c][i].kind : i \in DOMAIN timeline[c]}
\* was_emergency: flagged now, or ever.
WasEmergency(c) == call[c].emergencyBy # Nobody \/ "FLAGGED" \in DrawnKinds(c)

-----------------------------------------------------------------------------
\* The forms, one operator per control.
EmergencyControl(c) ==
  Unless(Closed(c),
    {Form(IF call[c].emergencyBy = Nobody THEN "flag" ELSE "clear", Nobody)})

ReturnControl(c) ==
  Unless(Closed(c) \/ call[c].returned \/ call[c].channel = "PORTAL",
    {Form("return", Nobody)})

RescueForm(c) == Unless(~call[c].returned, {Form("rescue", Nobody)})

\* A search finds any party by name, the guarantors too.
IdentifyForm(c) == {Form("identify", p) : p \in Parties}

CategoryFormOfAll(c) == {Form("category", k) : k \in Categories}
\* A call past NEW is drawn with the active categories only.
CategoryForm(c) == {Form("category", k) : k \in active}

CanSaveContact(c) ==
  /\ ~call[c].returned
  /\ call[c].sender # Nobody
  /\ call[c].channel \in AddressChannel
  /\ IdentifiedByPerson(c)
SaveContactForm(c) == Unless(~CanSaveContact(c), {Form("contact", Nobody)})

\* A duplicate names any other call the search finds, closed ones too.
OtherCalls(c) == {d \in Calls \ {c} : Exists(d)}
ExitForm(c) ==
  {Form(kind, Nobody) : kind \in ExitKind \ {"DUPLICATE"}}
    \cup {Form("DUPLICATE", d) : d \in OtherCalls(c)}

NextStep(c) ==
  CASE call[c].state = "NEW" -> IdentifyForm(c)
    [] call[c].state \in {"IDENTIFIED", "TRIAGED"} -> CategoryForm(c)
    [] OTHER -> {}

ClosingOf(c) == Unless(call[c].returned \/ ~CanExit(call[c].state), ExitForm(c))

PortalReply(c) ==
  Unless(\/ call[c].channel # "PORTAL"
         \/ call[c].state \in {"NEW", "CLOSED"} \/ call[c].returned,
    {Form("reply", Nobody)})
\* The draft's own form, when there is a draft.
DraftReply(c) ==
  Unless(call[c].channel # "EMAIL" \/ call[c].state \in {"NEW", "CLOSED"},
    {Form("reply", Nobody)})

HeaderActions(c) ==
  Unless(Closed(c), EmergencyControl(c) \cup ReturnControl(c))
CallAside(c) ==
  IF Closed(c) THEN SaveContactForm(c)
  ELSE RescueForm(c) \cup NextStep(c) \cup SaveContactForm(c) \cup ClosingOf(c)

RenderCallPage(c) ==
  HeaderActions(c) \cup CallAside(c) \cup PortalReply(c) \cup DraftReply(c)

-----------------------------------------------------------------------------
\* What the post of a form runs, and whether it moves the call.
PostIdentify(c, p) == ENABLED \E s \in Staff : IdentifyCall(c, p, s)
PostCategory(c, k) == ENABLED \E s \in Staff : SetCallCategory(c, k, s)
PostEmergency(c, do) ==
  ENABLED \E s \in Staff :
    IF do = "clear" THEN ClearEmergency(c, s) ELSE FlagEmergency(c, s)
PostReturn(c) == ENABLED ReturnToFiltered(c)
PostRescue(c) == ENABLED RestoreReturnedCall(c)
PostContact(c) == ENABLED SaveSenderContact(c)
PostExit(c, kind, other) == ENABLED \E s \in Staff : ExitCall(c, kind, other, s)
PostReply(c) == MayReply(c)

Moves(c, f) ==
  CASE f.do = "identify" -> PostIdentify(c, f.arg)
    [] f.do = "category" -> PostCategory(c, f.arg)
    [] f.do \in {"flag", "clear"} -> PostEmergency(c, f.do)
    [] f.do = "return" -> PostReturn(c)
    [] f.do = "rescue" -> PostRescue(c)
    [] f.do = "contact" -> PostContact(c)
    [] f.do = "reply" -> PostReply(c)
    [] OTHER -> PostExit(c, f.do, f.arg)

\* Accepted, and nothing to write: the category the call has, the contact its
\* requester holds.
AlreadySo(c, f) ==
  \/ f.do = "category" /\ call[c].category = f.arg
  \/ f.do = "contact" /\ call[c].requester = holder[call[c].sender]

\* Refused with words for the reader: refusalHe of routes.ts.
RefusedInWords(c, f) ==
  \/ f.do = "identify" /\ f.arg \in guarantor
  \/ f.do = "contact" /\ holder[call[c].sender] \notin {Nobody, call[c].requester}

-----------------------------------------------------------------------------
\* stateSteps, on an open call: the states before this one are drawn as done.
StepsDone(c) ==
  CASE call[c].state = "NEW" -> {}
    [] call[c].state = "IDENTIFIED" -> {"NEW"}
    [] OTHER -> {"NEW", "IDENTIFIED"}

\* passedStates, on the card of a closed call: read from the timeline.
PassedStates(c) ==
  {IF kind = "OPENED" THEN "NEW" ELSE kind :
     kind \in DrawnKinds(c) \cap {"OPENED", "IDENTIFIED", "TRIAGED"}}
    \cup (IF Closed(c) THEN {"CLOSED"} ELSE {})

-----------------------------------------------------------------------------
AllForms(c) ==
  {Form(do, Nobody) :
     do \in {"flag", "clear", "return", "rescue", "contact"}
              \cup (ExitKind \ {"DUPLICATE"})}
    \cup {Form("identify", p) : p \in Parties}
    \cup {Form("category", k) : k \in Categories}
    \cup {Form("DUPLICATE", d) : d \in Calls}

\* A call whose requester became a guarantor refuses every update: the run
\* ServiceCallExit.
Movable(c) == Exists(c) /\ TriggersAllow(call[c])
\* The bound of the timeline stops these three, not the code.
PastTheBound(c, f) == f.do \in {"flag", "clear", "category"} /\ ~Room(c)

\* Every form the page draws is taken while the call stays as it was read, or
\* is refused with words of its own.
OfferedIsTaken ==
  \A c \in Calls :
    Movable(c) => \A f \in RenderCallPage(c) :
      \/ Moves(c, f) \/ AlreadySo(c, f) \/ RefusedInWords(c, f)
      \/ PastTheBound(c, f)

\* Every move the commands would take is on the page, but for saving the
\* contact of a returned call, which waits for its rescue.
TakenIsOffered ==
  \A c \in Calls :
    Movable(c) => \A f \in AllForms(c) :
      Moves(c, f) => \/ f \in RenderCallPage(c)
                     \/ f.do = "contact" /\ call[c].returned

\* The course drawn from the state and the one drawn from the timeline are one,
\* and a call that ever was an emergency says so for good.
CourseIsOne ==
  \A c \in Calls :
    Exists(c) =>
      /\ ~Closed(c) => PassedStates(c) = StepsDone(c) \cup {call[c].state}
      /\ call[c].category # Nobody => "TRIAGED" \in PassedStates(c)
      /\ "CLEARED" \in DrawnKinds(c) => WasEmergency(c)

\* The page of a call and the commands agree, whatever moved the call.
PageAgrees == OfferedIsTaken /\ TakenIsOffered /\ CourseIsOne
=============================================================================
