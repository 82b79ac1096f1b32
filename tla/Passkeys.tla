------------------------------ MODULE Passkeys ------------------------------
(***************************************************************************)
(* Passkeys and the tenant's sessions (portal/internal/passkeys.ts,        *)
(* sessions.ts and their routes).  A page carries a challenge; a ceremony  *)
(* spends it and stores a passkey, or reads one, checks its sign count     *)
(* and mints a session.  No step of a ceremony holds a lock.               *)
(*                                                                         *)
(* Abstracted: CBOR, COSE keys, signatures, origins and cookies (a posted  *)
(* ceremony is a well-formed one of this site; one that is not changes at  *)
(* most consumed_at), the forms' csrf token and the audit rows.            *)
(***************************************************************************)
EXTENDS Naturals, FiniteSets

CONSTANTS
  Tenants,         \* portal identities
  Credentials,     \* what authenticators make: credential_id and its key
  Tabs,            \* requests under way at once
  CeremonyTtl,     \* CEREMONY_MS
  SessionAbsolute, \* SESSION_ABSOLUTE_MS
  SessionIdle,     \* SESSION_IDLE_MS
  MaxChallenges,   \* bound: challenges issued
  MaxSessions,     \* bound: sessions
  MaxCount,        \* bound: sign counts
  MaxDay           \* bound: the clock

ASSUME PasskeyBoundsAssumption ==
  /\ {CeremonyTtl, SessionAbsolute} \subseteq Nat \ {0}
  /\ {SessionIdle, MaxChallenges, MaxSessions, MaxCount, MaxDay} \subseteq Nat
  /\ MaxChallenges >= 1 /\ MaxSessions >= 2  \* what there is at the start
ASSUME PasskeysAssumption == "nobody" \notin Tenants /\ "code" \notin Credentials

VARIABLES
  day,            \* the clock
  challenges,     \* portal_passkey_challenge, by number
  passkeys,       \* portal_passkey, by credential
  tenantSessions, \* portal_session, by number
  tab,            \* what each request under way has read
  lowered         \* credentials whose stored count a write has lowered

passkeyVars == <<day, challenges, passkeys, tenantSessions, tab, lowered>>

\* For both kinds, spent is consumed_at.
Challenge ==
  [kind: {"register", "authenticate"}, of: Tenants \cup {"nobody"},
   expires: Nat, spent: BOOLEAN]
Passkey == [of: Tenants, count: Nat, removed: BOOLEAN, challenge: Nat]

\* by is the passkey (or "code"), count the one it was let in with, and before
\* the sessions that passkey had opened when this ceremony read its row.
Session ==
  [of: Tenants, born: Nat, seen: Nat, revoked: BOOLEAN,
   by: Credentials \cup {"code"}, challenge: Nat, count: Nat,
   before: SUBSET Nat]
Tab ==
  [pc: {"idle", "store", "spend", "count", "mint"},
   of: Tenants \cup {"nobody"}, key: Credentials \cup {"code"},
   challenge: Nat, held: Nat, count: Nat, before: SUBSET Nat]

IdleTab ==
  [pc |-> "idle", of |-> "nobody", key |-> "code",
   challenge |-> 0, held |-> 0, count |-> 0, before |-> {}]

PasskeyTypeOK ==
  /\ day \in 0..MaxDay
  /\ DOMAIN challenges \subseteq 1..MaxChallenges
  /\ \A c \in DOMAIN challenges : challenges[c] \in Challenge
  /\ DOMAIN passkeys \subseteq Credentials
  /\ \A k \in DOMAIN passkeys : passkeys[k] \in Passkey
  /\ DOMAIN tenantSessions \subseteq 1..MaxSessions
  /\ \A s \in DOMAIN tenantSessions : tenantSessions[s] \in Session
  /\ tab \in [Tabs -> Tab]
  /\ lowered \subseteq Credentials

CodeSession(t) ==
  [of |-> t, born |-> 0, seen |-> 0, revoked |-> FALSE, by |-> "code",
   challenge |-> 0, count |-> 0, before |-> {}]

\* Some have signed in by a code (SignIn's Mint): either two tenants, or one
\* who has already stored a passkey.
PasskeyInit ==
  /\ day = 0 /\ lowered = {}
  /\ tab = [b \in Tabs |-> IdleTab]
  /\ \/ /\ \E t, u \in Tenants :
             t # u /\ tenantSessions = <<CodeSession(t), CodeSession(u)>>
        /\ challenges = <<>> /\ passkeys = <<>>
     \/ \E t \in Tenants, k \in Credentials :
          /\ tenantSessions = <<CodeSession(t)>>
          /\ challenges = <<[kind |-> "register", of |-> t,
                             expires |-> CeremonyTtl, spent |-> TRUE]>>
          /\ passkeys = [l \in {k} |->
               [of |-> t, count |-> 0, removed |-> FALSE, challenge |-> 1]]

-----------------------------------------------------------------------------
Doing(b, pc) == tab[b].pc = pc
Move(b, pc) == tab' = [tab EXCEPT ![b].pc = pc]
Leave(b) == tab' = [tab EXCEPT ![b] = IdleTab]
Added(f, x) ==
  [i \in DOMAIN f \cup {Cardinality(DOMAIN f) + 1} |->
     IF i \in DOMAIN f THEN f[i] ELSE x]
SessionStands(s) ==
  /\ ~s.revoked /\ day < s.born + SessionAbsolute
  /\ day <= s.seen + SessionIdle
OpenedBy(k) == {s \in DOMAIN tenantSessions : tenantSessions[s].by = k}
HasRoom(f, bound) == Cardinality(DOMAIN f) < bound

IssueChallenge(kind, tenant) ==
  /\ HasRoom(challenges, MaxChallenges)
  /\ challenges' = Added(challenges,
       [kind |-> kind, of |-> tenant, expires |-> day + CeremonyTtl,
        spent |-> FALSE])

\* The guards of consumeChallenge's update.
Consumable(c, kind, tenant) ==
  /\ challenges[c].kind = kind
  /\ ~challenges[c].spent
  /\ challenges[c].expires > day
  /\ kind = "register" => challenges[c].of = tenant
SpendChallenge(c) == challenges' = [challenges EXCEPT ![c].spent = TRUE]

-----------------------------------------------------------------------------
(* Requests with the session cookie.  The session is read, last_seen_at    *)
(* written and the request's own statement run as one step: nothing these  *)
(* write is read by a session that ends in between.                        *)
WithSession(s) ==
  /\ SessionStands(tenantSessions[s])
  /\ tenantSessions' = [tenantSessions EXCEPT ![s].seen = day]

\* GET /passkey.
BeginRegistration(s) ==
  /\ WithSession(s)
  /\ IssueChallenge("register", tenantSessions[s].of)
  /\ UNCHANGED <<day, passkeys, tab, lowered>>

\* POST /passkey/register, its two statements.
FinishRegistration(b, s, c, k) ==
  /\ Doing(b, "idle")
  /\ WithSession(s)
  /\ Consumable(c, "register", tenantSessions[s].of)
  /\ SpendChallenge(c)
  /\ tab' = [tab EXCEPT ![b] =
       [@ EXCEPT !.pc = "store", !.key = k, !.challenge = c,
                 !.of = tenantSessions[s].of]]
  /\ UNCHANGED <<day, passkeys, lowered>>

\* credential_id is unique, a removed one included.
StorePasskey(b, count) ==
  /\ Doing(b, "store")
  /\ passkeys' =
       IF tab[b].key \in DOMAIN passkeys THEN passkeys
       ELSE [k \in DOMAIN passkeys \cup {tab[b].key} |->
               IF k \in DOMAIN passkeys THEN passkeys[k]
               ELSE [of |-> tab[b].of, count |-> count,
                     removed |-> FALSE, challenge |-> tab[b].challenge]]
  /\ Leave(b)
  /\ UNCHANGED <<day, challenges, tenantSessions, lowered>>

\* POST /passkeys/remove.
RemovePasskey(s, k) ==
  /\ WithSession(s)
  /\ passkeys[k].of = tenantSessions[s].of /\ ~passkeys[k].removed
  /\ passkeys' = [passkeys EXCEPT ![k].removed = TRUE]
  /\ UNCHANGED <<day, challenges, tab, lowered>>

\* POST /sign-out/all.
RevokeEvery(s) ==
  /\ SessionStands(tenantSessions[s])
  /\ tenantSessions' = [u \in DOMAIN tenantSessions |->
       [tenantSessions[u] EXCEPT
          !.revoked = @ \/ tenantSessions[u].of = tenantSessions[s].of]]
  /\ UNCHANGED <<day, challenges, passkeys, tab, lowered>>

\* POST /sign-out reads no session first.
RevokeOne(s) ==
  /\ ~tenantSessions[s].revoked
  /\ tenantSessions' = [tenantSessions EXCEPT ![s].revoked = TRUE]
  /\ UNCHANGED <<day, challenges, passkeys, tab, lowered>>

-----------------------------------------------------------------------------
(* Signing in with a passkey: GET / issues the challenge for anybody.      *)
BeginAuthentication ==
  /\ IssueChallenge("authenticate", "nobody")
  /\ UNCHANGED <<day, passkeys, tenantSessions, tab, lowered>>

\* The row is read before the challenge is spent, and its count used after.
ReadPasskey(b, k, c) ==
  /\ Doing(b, "idle")
  /\ ~passkeys[k].removed
  /\ tab' = [tab EXCEPT ![b] =
       [IdleTab EXCEPT !.pc = "spend", !.of = passkeys[k].of, !.key = k,
                       !.challenge = c, !.held = passkeys[k].count,
                       !.before = OpenedBy(k)]]
  /\ UNCHANGED <<day, challenges, passkeys, tenantSessions, lowered>>

SpendAssertion(b) ==
  /\ Doing(b, "spend")
  /\ IF Consumable(tab[b].challenge, "authenticate", "nobody")
       THEN SpendChallenge(tab[b].challenge) /\ Move(b, "count")
       ELSE Leave(b) /\ UNCHANGED challenges
  /\ UNCHANGED <<day, passkeys, tenantSessions, lowered>>

CountNotLower(count, held) == count = 0 \/ held = 0 \/ count >= held
CountRises(count, held) == count = 0 \/ held = 0 \/ count > held

\* The update names no old count: it writes over whatever is there by now.
WriteCount(b, count) ==
  LET k == tab[b].key
      writes == count > tab[b].held /\ ~passkeys[k].removed
  IN
  /\ Doing(b, "count")
  /\ IF CountRises(count, tab[b].held)
       THEN tab' = [tab EXCEPT ![b] = [@ EXCEPT !.pc = "mint", !.count = count]]
       ELSE Leave(b)
  /\ IF CountRises(count, tab[b].held) /\ writes
       THEN /\ passkeys' = [passkeys EXCEPT ![k].count = count]
            /\ lowered' = IF count < passkeys[k].count THEN lowered \cup {k}
                                                       ELSE lowered
       ELSE UNCHANGED <<passkeys, lowered>>
  /\ UNCHANGED <<day, challenges, tenantSessions>>

MintByPasskey(b) ==
  /\ Doing(b, "mint") /\ HasRoom(tenantSessions, MaxSessions)
  /\ tenantSessions' = Added(tenantSessions,
       [of |-> tab[b].of, born |-> day, seen |-> day, revoked |-> FALSE,
        by |-> tab[b].key, challenge |-> tab[b].challenge,
        count |-> tab[b].count, before |-> tab[b].before])
  /\ Leave(b)
  /\ UNCHANGED <<day, challenges, passkeys, lowered>>

DayPasses ==
  /\ day < MaxDay
  /\ day' = day + 1
  /\ UNCHANGED <<challenges, passkeys, tenantSessions, tab, lowered>>

PasskeyNext ==
  \/ \E s \in DOMAIN tenantSessions :
       \/ BeginRegistration(s) \/ RevokeEvery(s) \/ RevokeOne(s)
       \/ \E b \in Tabs, c \in DOMAIN challenges, k \in Credentials :
            FinishRegistration(b, s, c, k)
       \/ \E k \in DOMAIN passkeys : RemovePasskey(s, k)
  \/ \E b \in Tabs :
       \/ \E n \in 0..MaxCount : StorePasskey(b, n) \/ WriteCount(b, n)
       \/ \E k \in DOMAIN passkeys, c \in DOMAIN challenges : ReadPasskey(b, k, c)
       \/ SpendAssertion(b) \/ MintByPasskey(b)
  \/ BeginAuthentication
  \/ DayPasses

PasskeySpec == PasskeyInit /\ [][PasskeyNext]_passkeyVars

-----------------------------------------------------------------------------
(* SPEC.md: the challenge is one-time.  Whatever ceremonies race for it, a *)
(* challenge brings one passkey or one session, the passkey belongs to the *)
(* tenant whose signed-in page asked, and a session to its passkey's.      *)
ChallengeIsSpentOnce ==
  LET keyed == {s \in DOMAIN tenantSessions : tenantSessions[s].by # "code"} IN
  /\ \A s, u \in keyed :
       tenantSessions[s].challenge = tenantSessions[u].challenge => s = u
  /\ \A k, l \in DOMAIN passkeys :
       passkeys[k].challenge = passkeys[l].challenge => k = l
  /\ \A k \in DOMAIN passkeys : challenges[passkeys[k].challenge].of = passkeys[k].of
  /\ \A s \in keyed :
       /\ tenantSessions[s].of = passkeys[tenantSessions[s].by].of
       /\ challenges[tenantSessions[s].challenge].kind = "authenticate"

(* passkeys.ts refuses a sign count that did not rise.  A ceremony that    *)
(* started after another was let in needs a higher count, unless two that  *)
(* overlapped wrote their counts in the wrong order.                       *)
CountIsSpent ==
  \A s \in DOMAIN tenantSessions :
    \A u \in tenantSessions[s].before :
      /\ tenantSessions[s].by \notin lowered
      /\ tenantSessions[s].count > 0
      => tenantSessions[s].count > tenantSessions[u].count

\* Nothing a passkey ceremony rests on is used twice: neither the challenge
\* nor a sign count.
PasskeysAreSpentOnce == ChallengeIsSpentOnce /\ CountIsSpent
=============================================================================
