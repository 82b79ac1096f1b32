-------------------------------- MODULE SignIn --------------------------------
(***************************************************************************)
(* Signing in to the portal by a code (portal/internal/codes.ts).  A       *)
(* request prepares a code under the number's and the address's advisory   *)
(* locks, sends it without any lock, and then supersedes the others or     *)
(* marks its own as failed.  Another types digits: it reads the row, and   *)
(* then counts the miss, or uses the code and mints the session.           *)
(*                                                                         *)
(* Abstracted: digits (typed right or wrong), hashes, the audit rows, the  *)
(* notice of a new device.  An answer that writes nothing is no step.      *)
(***************************************************************************)
EXTENDS Naturals, Sequences, FiniteSets

CONSTANTS
  Requests,          \* requests under way at once
  Phones,
  ClientAddresses,         \* client addresses
  CodeChannels,          \* the channels the code sender offers
  ResendWait,        \* RESEND_WAIT_MS
  CodeTtl,           \* CODE_TTL_MS
  Day,               \* DAY_MS
  CodeAttempts,      \* CODE_ATTEMPTS
  SendsPerNumber,    \* SENDS_PER_NUMBER
  SendsPerAddress,   \* SENDS_PER_ADDRESS
  MaxTime,           \* bound: the clock
  MaxLost            \* bound: requests lost between two statements

ASSUME TimesAssumption ==
  /\ {ResendWait, CodeTtl, Day, MaxTime} \subseteq Nat
  /\ 0 < ResendWait /\ ResendWait < CodeTtl /\ CodeTtl < Day
ASSUME CapsAssumption ==
  /\ {CodeAttempts, SendsPerNumber, SendsPerAddress} \subseteq Nat \ {0}
  /\ MaxLost \in Nat

VARIABLES
  now,        \* the clock
  codes,      \* portal_sign_in_code, in the order of created_at
  handed,     \* codes whose present challenge a browser was given
  sessions,   \* portal_session
  request,    \* what each request under way has read
  lost

signInVars == <<now, codes, handed, sessions, request, lost>>

\* fresh: the challenge is no longer the first one.  end tells how consumed_at
\* came to be set, by and late which code's request superseded it, and whether
\* a wait or more after that code's own row.  accepted: the sender sent it.
Code ==
  [phone: Phones, address: ClientAddresses, channel: CodeChannels, at: Nat,
   attempts: Nat, fresh: BOOLEAN, accepted: BOOLEAN,
   end: {"live", "used", "failed", "superseded"}, by: Nat, late: BOOLEAN]

Request ==
  [pc: {"idle", "send", "supersede", "miss", "consume", "mint"},
   code: Nat, now: Nat]

Idle == [pc |-> "idle", code |-> 0, now |-> 0]

SignInTypeOK ==
  /\ now \in 0..MaxTime
  /\ codes \in Seq(Code)
  /\ \A i \in DOMAIN codes :
       /\ codes[i].attempts <= CodeAttempts
       /\ codes[i].by \in 0..Len(codes)
  /\ handed \subseteq DOMAIN codes
  /\ sessions \subseteq [id: Nat, code: DOMAIN codes, phone: Phones]
  /\ request \in [Requests -> Request]
  /\ lost \in 0..MaxLost

SignInInit ==
  /\ now = 0 /\ codes = <<>> /\ handed = {} /\ sessions = {}
  /\ request = [r \in Requests |-> Idle]
  /\ lost = 0

-----------------------------------------------------------------------------
At(r, step) == request[r].pc = step
CodeOf(r) == codes[request[r].code]
Goto(r, step) == request' = [request EXCEPT ![r].pc = step]
Finish(r) == request' = [request EXCEPT ![r] = Idle]

CodesOf(phone) == {i \in DOMAIN codes : codes[i].phone = phone}
CodesFrom(address) == {i \in DOMAIN codes : codes[i].address = address}
IsLatest(i) == \A j \in CodesOf(codes[i].phone) : j <= i
Waiting(phone) ==
  \E i \in CodesOf(phone) : IsLatest(i) /\ now - codes[i].at < ResendWait

\* created_at >= now - DAY_MS, whatever became of the code.
InTheDay(S) == {i \in S : codes[i].at + Day >= now}
MaySend(phone, address) ==
  /\ ~Waiting(phone)
  /\ Cardinality(InTheDay(CodesOf(phone))) < SendsPerNumber
  /\ Cardinality(InTheDay(CodesFrom(address))) < SendsPerAddress

\* How a row stands when it is to be used: the guards of both updates.
NotExhausted(c) == c.attempts < CodeAttempts
OpenCode(c) == c.end = "live" /\ c.attempts < CodeAttempts
Expired(c, time) == c.at + CodeTtl <= time

-----------------------------------------------------------------------------
(* Asking for a code.                                                      *)

\* Within the wait a live code of the same channel is not sent again: the
\* browser gets a fresh challenge for it, and the one before is no more.
Answer(i) == handed \cup {i}

Rotate(phone, channel) ==
  \E i \in CodesOf(phone) :
    /\ IsLatest(i) /\ now - codes[i].at < ResendWait
    /\ codes[i].end = "live" /\ ~Expired(codes[i], now)
    /\ codes[i].channel = channel
    /\ codes' = [codes EXCEPT ![i].fresh = TRUE]
    /\ handed' = Answer(i)
    /\ UNCHANGED <<now, sessions, request, lost>>

PrepareCode(r, phone, address, channel) ==
  /\ At(r, "idle")
  /\ MaySend(phone, address)
  /\ codes' = Append(codes,
       [phone |-> phone, address |-> address, channel |-> channel, at |-> now,
        attempts |-> 0, fresh |-> FALSE, accepted |-> FALSE, end |-> "live",
        by |-> 0, late |-> FALSE])
  /\ request' = [request EXCEPT
       ![r] = [pc |-> "send", code |-> Len(codes) + 1, now |-> 0]]
  /\ UNCHANGED <<now, handed, sessions, lost>>

SendAccepted(r) ==
  /\ At(r, "send")
  /\ codes' = [codes EXCEPT ![request[r].code].accepted = TRUE]
  /\ Goto(r, "supersede")
  /\ UNCHANGED <<now, handed, sessions, lost>>

\* The sender threw.
SendFails(r) ==
  /\ At(r, "send")
  /\ codes' = [codes EXCEPT ![request[r].code].end =
                            IF @ = "live" THEN "failed" ELSE @]
  /\ Finish(r)
  /\ UNCHANGED <<now, handed, sessions, lost>>

OthersUnused(own) ==
  {i \in CodesOf(codes[own].phone) : i # own /\ codes[i].end = "live"}

Supersede(r) ==
  LET own == request[r].code IN
  /\ At(r, "supersede")
  /\ codes' = [i \in DOMAIN codes |->
       IF i \in OthersUnused(own)
         THEN [codes[i] EXCEPT !.end = "superseded", !.by = own,
                               !.late = now - codes[own].at >= ResendWait]
         ELSE codes[i]]
  /\ handed' = IF codes[own].fresh THEN handed ELSE handed \cup {own}
  /\ Finish(r)
  /\ UNCHANGED <<now, sessions, lost>>

-----------------------------------------------------------------------------
(* Typing the digits.                                                      *)
LoadCode(r, i, right) ==
  /\ At(r, "idle")
  /\ i \in handed
  /\ OpenCode(codes[i]) /\ ~Expired(codes[i], now)
  /\ request' = [request EXCEPT
       ![r] = IF right THEN [pc |-> "consume", code |-> i, now |-> now]
                       ELSE [pc |-> "miss", code |-> i, now |-> 0]]
  /\ UNCHANGED <<now, codes, handed, sessions, lost>>

CountMiss(r) ==
  /\ At(r, "miss")
  /\ codes' = IF OpenCode(CodeOf(r))
                THEN [codes EXCEPT ![request[r].code].attempts = @ + 1]
                ELSE codes
  /\ Finish(r)
  /\ UNCHANGED <<now, handed, sessions, lost>>

ConsumeCode(r) ==
  /\ At(r, "consume")
  /\ IF OpenCode(CodeOf(r)) /\ ~Expired(CodeOf(r), request[r].now)
       THEN /\ codes' = [codes EXCEPT ![request[r].code].end = "used"]
            /\ Goto(r, "mint")
       ELSE Finish(r) /\ UNCHANGED codes
  /\ UNCHANGED <<now, handed, sessions, lost>>

\* ensureIdentity and mintPortalSession.
Mint(r) ==
  /\ At(r, "mint")
  /\ sessions' = sessions \cup
       {[id |-> Cardinality({s \in sessions : s.code = request[r].code}),
         code |-> request[r].code, phone |-> CodeOf(r).phone]}
  /\ Finish(r)
  /\ UNCHANGED <<now, codes, handed, lost>>

-----------------------------------------------------------------------------
Lose(r) ==
  /\ lost < MaxLost /\ ~At(r, "idle")
  /\ lost' = lost + 1
  /\ Finish(r)
  /\ UNCHANGED <<now, codes, handed, sessions>>

Tick ==
  /\ now < MaxTime
  /\ now' = now + 1
  /\ UNCHANGED <<codes, handed, sessions, request, lost>>

SignInNext ==
  \/ \E p \in Phones, ch \in CodeChannels :
       \/ Rotate(p, ch)
       \/ \E r \in Requests, a \in ClientAddresses : PrepareCode(r, p, a, ch)
  \/ \E r \in Requests :
       \/ SendAccepted(r) \/ SendFails(r) \/ Supersede(r)
       \/ \E i \in DOMAIN codes, right \in BOOLEAN : LoadCode(r, i, right)
       \/ CountMiss(r) \/ ConsumeCode(r) \/ Mint(r) \/ Lose(r)
  \/ Tick

SignInSpec == SignInInit /\ [][SignInNext]_signInVars

-----------------------------------------------------------------------------
(* SPEC-channel.md: one use, and after the last wrong attempt the code is  *)
(* dead, however many requests read the row before it was: a code that was *)
(* used had an attempt left, brought at most one session, and no session   *)
(* comes from elsewhere.                                                   *)
OneSessionPerCode ==
  /\ \A i \in DOMAIN codes :
       codes[i].end = "used" => codes[i].attempts < CodeAttempts
  /\ \A s \in sessions : codes[s.code].end = "used"
  /\ \A s, u \in sessions : s.code = u.code => s = u

(* SPEC-channel.md: a minute between two codes to one number, so many to a *)
(* number and so many from an address in any day, counted whether or not   *)
(* the code was delivered or used.                                         *)
SendsAreRationed ==
  /\ \A i, j \in DOMAIN codes :
       i < j /\ codes[i].phone = codes[j].phone
         => codes[i].at + ResendWait <= codes[j].at
  /\ \A time \in 0..now :
       LET sent == {i \in DOMAIN codes : codes[i].at \in time..(time + Day)} IN
       /\ \A a \in ClientAddresses :
            Cardinality({i \in sent : codes[i].address = a}) <= SendsPerAddress
       /\ \A p \in Phones :
            Cardinality({i \in sent : codes[i].phone = p}) <= SendsPerNumber

(* codes.ts supersedes only after the send: a code that was not typed is   *)
(* taken out of use by a delivered code alone, a newer one, unless the     *)
(* older one's send took longer than the wait.                             *)
SupersededByADeliveredCode ==
  \A i \in DOMAIN codes :
    codes[i].end = "superseded" =>
      LET j == codes[i].by IN
      /\ j # i /\ codes[j].phone = codes[i].phone
      /\ codes[j].accepted
      /\ j > i \/ codes[i].late

(* Whoever asked last holds the challenge: once no request works on a live *)
(* code, and unless one was lost, some browser can type its digits.        *)
LiveCodeCanBeTyped ==
  \A i \in DOMAIN codes :
    /\ codes[i].end = "live"
    /\ lost = 0
    /\ \A r \in Requests : request[r].code # i
    => i \in handed

(* What becomes of a code, and how many are sent, whatever requests overlap. *)
CodesEndWell ==
  /\ OneSessionPerCode
  /\ SupersededByADeliveredCode
  /\ LiveCodeCanBeTyped
  /\ SendsAreRationed

=============================================================================
