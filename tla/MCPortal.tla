------------------------------- MODULE MCPortal -------------------------------
(***************************************************************************)
(* The sign-in by code and the portal's parts behind it, one at a time: no *)
(* two of them write one table in the statements modelled, so a behaviour  *)
(* follows one part and the state spaces add.  Clocks are scaled: for the  *)
(* codes a wait of one, a life of two and a day of three; for the rest a   *)
(* day is one jump past every bound.                                       *)
(***************************************************************************)
EXTENDS SignIn, Passkeys, ReportFiles, PortalCalls, TLC

VARIABLE part

PortalVars ==
  <<signInVars, passkeyVars, reportVars, portalCallVars, part>>

\* Which of the tenants has signed in does not matter.
FirstTenant == CHOOSE t \in Tenants : TRUE

PortalInit ==
  /\ part \in {"code", "passkeys", "report", "calls"}
  /\ SignInInit /\ PasskeyInit /\ ReportInit /\ PortalCallsInit
  /\ tenantSessions[1].of = FirstTenant
  /\ part # "passkeys" => passkeys = <<>>
  /\ part # "calls" =>
       tickets[1].requester = Caller /\ \A h \in Homes : homes[h].party = Caller

PortalNext ==
  \/ part = "code" /\ SignInNext
     /\ UNCHANGED <<passkeyVars, reportVars, portalCallVars, part>>
  \/ part = "passkeys" /\ PasskeyNext
     /\ UNCHANGED <<signInVars, reportVars, portalCallVars, part>>
  \/ part = "report" /\ ReportNext
     /\ UNCHANGED <<signInVars, passkeyVars, portalCallVars, part>>
  \/ part = "calls" /\ PortalCallsNext
     /\ UNCHANGED <<signInVars, passkeyVars, reportVars, part>>

PortalSpec == PortalInit /\ [][PortalNext]_PortalVars

\* The tabs stand for requests, sends, clerks and presses too, the addresses
\* for the lettings and the channels for the keys.
PortalSymmetry ==
  Permutations(Tabs) \cup Permutations(ClientAddresses)
    \cup Permutations(CodeChannels)
=============================================================================
