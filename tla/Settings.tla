------------------------------- MODULE Settings -------------------------------
(***************************************************************************)
(* The office's settings of the service calls and the two clocks that read *)
(* them: the response goal of an emergency, the handling time of every     *)
(* other call in business days, the reply target, the duty texts, and the  *)
(* list of non-working dates.  A save writes the keys of its group one     *)
(* statement after another in one transaction; the list of dates is read,  *)
(* changed and written back.  Time is a calendar day, day 0 a Sunday.      *)
(***************************************************************************)
EXTENDS Naturals, FiniteSets, Sequences

CONSTANTS
  Admins,       \* requests with settings.write
  WaitingCalls, \* calls whose age the office sees
  GoalPairs,    \* the <<amber, red>> pairs a form posts
  FreeDates,    \* the calendar dates a form adds or removes
  Unset,        \* a key with no row
  MaxSaves,     \* bound on saves
  LastSettingDay \* bound on the calendar

ASSUME SettingsAssumption ==
  /\ Unset \notin Nat /\ GoalPairs \subseteq Nat \X Nat
  /\ FreeDates \subseteq Nat
  /\ MaxSaves \in Nat /\ LastSettingDay \in Nat

VARIABLES
  settings,   \* config_settings, the keys with one number or text
  freeDates,  \* config_settings, calls.non_working_dates
  saves,      \* admin -> the save under way
  saved,      \* saves begun so far
  toldDates,  \* the dates the audit rows add up to
  overlapped, \* two changes of the list were under way at once
  waiting,    \* call -> the day it opened and its facts
  today       \* today(clock)

settingsVars == <<settings, freeDates, saves, saved, toldDates, overlapped, waiting, today>>

Groups == {"goal", "handling", "reply", "emergency"}

\* The keys of a group in the order its save writes them.
KeysOf(group) ==
  CASE group = "goal" -> <<"response_amber", "response_red">>
    [] group = "handling" -> <<"handling_amber", "handling_red">>
    [] group = "reply" -> <<"reply_days", "reply_shown">>
    [] group = "emergency" -> <<"terms", "duty_phone", "duty_hours">>
    [] OTHER -> <<>>

Keys == {"response_amber", "response_red", "handling_amber", "handling_red", "reply_days",
         "reply_shown", "terms", "duty_phone", "duty_hours"}

Values == {p[1] : p \in GoalPairs} \cup {p[2] : p \in GoalPairs} \cup 1..MaxSaves

Save == [group : Groups \cup {"dates", "none"}, values : Seq(Values), written : 0..3,
         list : SUBSET FreeDates, op : {"add", "remove", "none"}, date : FreeDates \cup {Unset}]

NoSave == [group |-> "none", values |-> <<>>, written |-> 0, list |-> {}, op |-> "none",
           date |-> Unset]

SettingsTypeOK ==
  /\ settings \in [Keys -> Values \cup {Unset}]
  /\ freeDates \subseteq FreeDates /\ toldDates \subseteq FreeDates
  /\ saves \in [Admins -> Save]
  /\ saved \in 0..MaxSaves
  /\ overlapped \in BOOLEAN
  /\ waiting \in [WaitingCalls -> [opened : 0..LastSettingDay, flagged : BOOLEAN, closed : BOOLEAN]]
  /\ today \in 0..LastSettingDay

SettingsInit ==
  /\ settings = [k \in Keys |-> Unset]
  /\ freeDates = {} /\ toldDates = {}
  /\ saves = [a \in Admins |-> NoSave]
  /\ saved = 0
  /\ overlapped = FALSE
  /\ waiting \in [WaitingCalls -> [opened : {0}, flagged : BOOLEAN, closed : {FALSE}]]
  /\ today = 0

-----------------------------------------------------------------------------
\* The two clocks.

\* A key with no row has its fallback: two days amber, five red.
AmberDays == IF settings["handling_amber"] = Unset THEN 2 ELSE settings["handling_amber"]
RedDays == IF settings["handling_red"] = Unset THEN 5 ELSE settings["handling_red"]

\* 240 minutes and 1440: less than a day, and one.
AmberGoal == IF settings["response_amber"] = Unset THEN 0 ELSE settings["response_amber"]
RedGoal == IF settings["response_red"] = Unset THEN 1 ELSE settings["response_red"]

\* Sunday to Thursday, less the non-working dates.
WorkingDay(d, closed) == d % 7 \notin {5, 6} /\ d \notin closed

\* The open date counts, today does not.
BusinessDaysElapsed(opened, now, closed) ==
  Cardinality({d \in opened..now : d < now /\ WorkingDay(d, closed)})

BandPast(age, amber, red) ==
  IF age > red THEN "red" ELSE IF age > amber THEN "amber" ELSE "none"

\* officeBand: an emergency by its minutes (whole days here), any other open
\* call by its business days.
OfficeBand(c) ==
  CASE waiting[c].closed -> "none"
    [] ~waiting[c].closed /\ waiting[c].flagged ->
         BandPast(today - waiting[c].opened, AmberGoal, RedGoal)
    [] OTHER ->
         BandPast(BusinessDaysElapsed(waiting[c].opened, today, freeDates), AmberDays, RedDays)

-----------------------------------------------------------------------------
\* The saves.

\* The values a form may carry: of two clocks only an ordered pair passes.
Postable(group) ==
  CASE group \in {"goal", "handling"} -> {p \in GoalPairs : p[2] > p[1]}
    [] group = "reply" -> {<<saved + 1, saved + 1>>}
    [] group = "emergency" -> {<<saved + 1, saved + 1, saved + 1>>}

BeginSave(a, group) ==
  /\ saves[a].group = "none" /\ saved < MaxSaves
  /\ saved' = saved + 1
  /\ \E v \in Postable(group) :
       saves' = [saves EXCEPT ![a] = [NoSave EXCEPT !.group = group, !.values = v]]
  /\ UNCHANGED <<settings, freeDates, toldDates, overlapped, waiting, today>>

\* The rows a transaction has written and not committed are locked.
Locked(key) ==
  \E a \in Admins : \E i \in 1..saves[a].written : KeysOf(saves[a].group)[i] = key

NextKey(a) == KeysOf(saves[a].group)[saves[a].written + 1]

MoreToWrite(a) == saves[a].written < Len(KeysOf(saves[a].group))

\* writeSetting inside the transaction: nothing is seen before the commit.
WriteSetting(a) ==
  /\ MoreToWrite(a) /\ ~Locked(NextKey(a))
  /\ saves' = [saves EXCEPT ![a].written = @ + 1]
  /\ UNCHANGED <<settings, freeDates, saved, toldDates, overlapped, waiting, today>>

\* The group's values as the transaction leaves them.
Written(a) ==
  LET keys == KeysOf(saves[a].group) IN
  [k \in Keys |-> IF \E i \in DOMAIN keys : keys[i] = k
                  THEN saves[a].values[CHOOSE i \in DOMAIN keys : keys[i] = k]
                  ELSE settings[k]]

\* The audit row and the commit.
CommitSave(a) ==
  /\ saves[a].group \in Groups /\ ~MoreToWrite(a)
  /\ settings' = Written(a)
  /\ saves' = [saves EXCEPT ![a] = NoSave]
  /\ UNCHANGED <<freeDates, saved, toldDates, overlapped, waiting, today>>

\* The connection fails, and the transaction with it.
LoseSave(a) ==
  /\ saves[a].group # "none"
  /\ saves' = [saves EXCEPT ![a] = NoSave]
  /\ UNCHANGED <<settings, freeDates, saved, toldDates, overlapped, waiting, today>>

ChangesList(a) == saves[a].group = "dates"

\* changeNonWorkingDate reads the list; a date kept already, or a removal of
\* one that is not, ends the request.
ReadDates(a, op, d) ==
  /\ saves[a].group = "none" /\ saved < MaxSaves
  /\ saved' = saved + 1
  /\ (op = "add") # (d \in freeDates)
  /\ saves' = [saves EXCEPT ![a] = [NoSave EXCEPT !.group = "dates", !.list = freeDates,
                                                  !.op = op, !.date = d]]
  /\ overlapped' = (overlapped \/ \E b \in Admins : ChangesList(b))
  /\ UNCHANGED <<settings, freeDates, toldDates, waiting, today>>

With(list, op, d) == IF op = "add" THEN list \cup {d} ELSE list \ {d}

\* A removal that keeps only the date.
WithOnly(list, op, d) == IF op = "add" THEN list \cup {d} ELSE list \cap {d}

NextDates(list, op, d) == With(list, op, d)

\* It writes the changed list and one audit row, and commits.
WriteDates(a) ==
  LET s == saves[a] IN
  /\ ChangesList(a)
  /\ freeDates' = NextDates(s.list, s.op, s.date)
  /\ toldDates' = With(toldDates, s.op, s.date)
  /\ saves' = [saves EXCEPT ![a] = NoSave]
  /\ UNCHANGED <<settings, saved, overlapped, waiting, today>>

-----------------------------------------------------------------------------
CloseWaiting(c) ==
  /\ ~waiting[c].closed
  /\ waiting' = [waiting EXCEPT ![c].closed = TRUE]
  /\ UNCHANGED <<settings, freeDates, saves, saved, toldDates, overlapped, today>>

DayBegins ==
  /\ today < LastSettingDay
  /\ today' = today + 1
  /\ UNCHANGED <<settings, freeDates, saves, saved, toldDates, overlapped, waiting>>

SettingsNext ==
  \/ \E a \in Admins :
       \/ \E g \in Groups : BeginSave(a, g)
       \/ WriteSetting(a) \/ CommitSave(a) \/ LoseSave(a)
       \/ \E d \in FreeDates, op \in {"add", "remove"} : ReadDates(a, op, d)
       \/ WriteDates(a)
  \/ \E c \in WaitingCalls : CloseWaiting(c)
  \/ DayBegins

SettingsSpec == SettingsInit /\ [][SettingsNext]_settingsVars

-----------------------------------------------------------------------------
\* A call warns before it is late: no day that begins turns a call from no
\* band to red, whatever saves are under way.  Both clocks pass amber first
\* because a save that is read half done would put red below amber.
AmberComesBeforeRed ==
  today' # today =>
    \A c \in WaitingCalls : OfficeBand(c) = "none" => OfficeBand(c)' # "red"

\* The list of non-working dates is what the audit rows add up to, as long as
\* no two changes of it were under way at once.
DatesTellTheAudit == overlapped \/ freeDates = toldDates

\* The settings two people save at once are still the office's settings.
SettingsHold == [][DatesTellTheAudit' /\ AmberComesBeforeRed]_settingsVars
=============================================================================
