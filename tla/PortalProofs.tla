---------------------------- MODULE PortalProofs ----------------------------
(***************************************************************************)
(* Proofs about the portal's parts, for any tenants, texts, files, codes   *)
(* and passkeys, any requests at once, any times and any bounds.           *)
(*                                                                         *)
(* Each part is proved alone: its inductive invariant, then the property.  *)
(***************************************************************************)
EXTENDS SignIn, Passkeys, LegalNotice, ReportFiles, PortalCalls,
        FiniteSetTheorems,
        SequenceTheorems, TLAPS

-----------------------------------------------------------------------------
(* The notice.  A text is on a page of the reader's before it is posted,   *)
(* and posted before it is acknowledged.                                   *)
Of(kind, language) == {t \in texts : t.kind = kind /\ t.language = language}

\* The versions of a text are 1..n, and the fallback has at least one.
HasVersions(kind, language, n) ==
  /\ n \in 0..MaxVersion
  /\ IsFiniteSet(Of(kind, language)) /\ Cardinality(Of(kind, language)) = n
  /\ \A t \in Text :
       t.kind = kind /\ t.language = language => (t \in texts <=> t.version <= n)
  /\ language = Fallback => n # 0

VersionsAreCounted ==
  \A kind \in Kinds, language \in Languages : \E n \in Nat : HasVersions(kind, language, n)

PostedWasShown ==
  /\ \A page \in pages \cup {p.page : p \in posting} :
       {page.privacy, page.terms} \subseteq shown[page.reader]
  /\ \A r \in Readers : acknowledged[r] \subseteq shown[r] /\ shown[r] \subseteq texts

NoticeInv == NoticeTypeOK /\ VersionsAreCounted /\ PostedWasShown

LEMMA ShownIsAText ==
  ASSUME NoticeInv, NEW kind \in Kinds, NEW language \in Languages
  PROVE  Shown(kind, language) \in texts
<1>1. \E t \in texts : t \in Newest(kind, Fallback)
  <2>1. PICK n \in Nat : HasVersions(kind, Fallback, n)
    BY FallbackAssumption DEF NoticeInv, VersionsAreCounted
  <2> DEFINE t == [kind |-> kind, language |-> Fallback, version |-> n]
  <2>2. n \in 1..MaxVersion
    <3>1. n \in 0..MaxVersion /\ n # 0
      BY <2>1 DEF HasVersions
    <3> QED BY <3>1, NoticeBoundsAssumption
  <2>3. t \in Text
    BY <2>2, FallbackAssumption DEF Text
  <2>4. t \in texts
    BY <2>1, <2>2, <2>3 DEF HasVersions
  <2>5. \A u \in texts : u.kind = kind /\ u.language = Fallback => u.version <= n
    BY <2>1 DEF HasVersions, NoticeInv, NoticeTypeOK
  <2> QED BY <2>4, <2>5 DEF Newest
<1>2. \E t \in texts : IF Newest(kind, language) # {} THEN t \in Newest(kind, language)
                                                      ELSE t \in Newest(kind, Fallback)
  BY <1>1 DEF Newest
<1> QED BY <1>2 DEF Shown

LEMMA NoticeInitInv == NoticeInit => NoticeInv
<1> SUFFICES ASSUME NoticeInit PROVE NoticeInv
  OBVIOUS
<1>1. NoticeTypeOK
  BY FallbackAssumption, NoticeBoundsAssumption DEF NoticeInit, NoticeTypeOK, Text
<1>2. ASSUME NEW kind \in Kinds PROVE HasVersions(kind, Fallback, 1)
  <2>1. Of(kind, Fallback) = {[kind |-> kind, language |-> Fallback, version |-> 1]}
    BY DEF NoticeInit, Of
  <2>2. \A t \in Text : t.kind = kind /\ t.language = Fallback => (t \in texts <=> t.version <= 1)
    BY DEF NoticeInit, Text
  <2>3. IsFiniteSet(Of(kind, Fallback)) /\ Cardinality(Of(kind, Fallback)) = 1
    BY <2>1, FS_Singleton
  <2>4. 1 \in 0..MaxVersion
    BY NoticeBoundsAssumption
  <2> QED BY <2>2, <2>3, <2>4 DEF HasVersions
<1>3. ASSUME NEW kind \in Kinds, NEW language \in Languages, language # Fallback
      PROVE  HasVersions(kind, language, 0)
  <2>1. Of(kind, language) = {}
    BY <1>3 DEF NoticeInit, Of
  <2>2. \A t \in Text : t.kind = kind /\ t.language = language => (t \in texts <=> t.version <= 0)
    BY <1>3 DEF NoticeInit, Text
  <2> QED BY <1>3, <2>1, <2>2, FS_EmptySet, NoticeBoundsAssumption DEF HasVersions
<1>4. VersionsAreCounted
  BY <1>2, <1>3 DEF VersionsAreCounted
<1>5. PostedWasShown
  BY DEF NoticeInit, PostedWasShown
<1> QED BY <1>1, <1>4, <1>5 DEF NoticeInv

LEMMA PublishTextInv ==
  ASSUME NoticeInv, NEW kind \in Kinds, NEW language \in Languages,
         PublishText(kind, language)
  PROVE  NoticeInv'
<1>1. PICK n \in Nat : HasVersions(kind, language, n)
  BY DEF NoticeInv, VersionsAreCounted
<1> DEFINE t == [kind |-> kind, language |-> language, version |-> n + 1]
<1>2. n < MaxVersion /\ texts' = texts \cup {t}
  BY <1>1 DEF PublishText, HasVersions, Of
<1>3. t \in Text /\ t \notin texts
  BY <1>1, <1>2, NoticeBoundsAssumption DEF HasVersions, Text
<1>4. NoticeTypeOK'
  BY <1>2, <1>3 DEF PublishText, NoticeInv, NoticeTypeOK
<1>5. HasVersions(kind, language, n + 1)'
  <2>1. Of(kind, language)' = Of(kind, language) \cup {t} /\ t \notin Of(kind, language)
    BY <1>2, <1>3 DEF Of
  <2>2. IsFiniteSet(Of(kind, language)') /\ Cardinality(Of(kind, language)') = n + 1
    BY <1>1, <2>1, FS_AddElement DEF HasVersions
  <2>3. \A u \in Text : u.kind = kind /\ u.language = language
                         => (u \in texts' <=> u.version <= n + 1)
    BY <1>1, <1>2 DEF HasVersions, Text
  <2> QED BY <1>1, <1>2, <2>2, <2>3, NoticeBoundsAssumption DEF HasVersions
<1>6. ASSUME NEW k \in Kinds, NEW l \in Languages, <<k, l>> # <<kind, language>>,
             NEW m \in Nat, HasVersions(k, l, m)
      PROVE  HasVersions(k, l, m)'
  <2>1. Of(k, l)' = Of(k, l)
    BY <1>2, <1>6 DEF Of
  <2>2. \A u \in Text : u.kind = k /\ u.language = l => (u \in texts' <=> u \in texts)
    BY <1>2, <1>6
  <2> QED BY <1>6, <2>1, <2>2 DEF HasVersions
<1>7. VersionsAreCounted'
  <2> SUFFICES ASSUME NEW k \in Kinds, NEW l \in Languages
               PROVE  \E m \in Nat : HasVersions(k, l, m)'
    BY DEF VersionsAreCounted
  <2>1. PICK m \in Nat : HasVersions(k, l, m)
    BY DEF NoticeInv, VersionsAreCounted
  <2> QED BY <1>5, <1>6, <2>1
<1>8. PostedWasShown'
  BY DEF PublishText, NoticeInv, PostedWasShown
<1> QED BY <1>4, <1>7, <1>8 DEF NoticeInv

LEMMA AfterPages ==
  ASSUME NoticeInv, NEW p \in posting, NEW part
  PROVE  /\ {q.page : q \in After(p, part)} \subseteq {q.page : q \in posting}
         /\ \A q \in After(p, part) : q \in Post
<1>1. p \in Post
  BY DEF NoticeInv, NoticeTypeOK
<1>2. LET q == [p EXCEPT !.left = p.left \ {part}] IN q.page = p.page /\ q \in Post
  BY <1>1 DEF Post
<1> QED BY <1>2 DEF After, NoticeInv, NoticeTypeOK

LEMMA NoticeNextInv == NoticeInv /\ [NoticeNext]_noticeVars => NoticeInv'
<1> SUFFICES ASSUME NoticeInv, [NoticeNext]_noticeVars PROVE NoticeInv'
  OBVIOUS
<1>a. ASSUME UNCHANGED texts PROVE VersionsAreCounted'
  BY <1>a DEF NoticeInv, VersionsAreCounted, HasVersions, Of
<1>1. ASSUME NEW r \in Readers, NEW language \in Languages, ShowNotice(r, language)
      PROVE  NoticeInv'
  <2> DEFINE page == PageFor(r, language)
             seen == {Shown(kind, language) : kind \in Kinds}
  <2>1. /\ page.reader = r /\ {page.privacy, page.terms} \subseteq seen
        /\ pages' = pages \cup {page}
        /\ shown' = [shown EXCEPT ![r] = @ \cup seen]
        /\ UNCHANGED <<texts, acknowledged, optIn, posting>>
    BY <1>1 DEF ShowNotice, PageFor, Kinds
  <2>2. seen \subseteq Text /\ seen \subseteq texts /\ page \in Page
    BY ShownIsAText DEF NoticeInv, NoticeTypeOK, PageFor, Page, Kinds
  <2> HIDE DEF page, seen
  <2>3. NoticeTypeOK'
    BY <2>1, <2>2 DEF NoticeInv, NoticeTypeOK
  <2>4. /\ \A x \in Readers : shown[x] \subseteq shown'[x]
        /\ seen \subseteq shown'[r]
    BY <2>1 DEF NoticeInv, NoticeTypeOK
  <2>5. \A x \in pages \cup {p.page : p \in posting} : x.reader \in Readers
    BY DEF NoticeInv, NoticeTypeOK, Page, Post
  <2>6. PostedWasShown'
    BY <2>1, <2>2, <2>4, <2>5 DEF NoticeInv, NoticeTypeOK, PostedWasShown
  <2> QED BY <1>a, <2>1, <2>3, <2>6 DEF NoticeInv
<1>2. ASSUME NEW page \in pages, NEW tick \in BOOLEAN, PostNotice(page, tick) PROVE NoticeInv'
  <2> DEFINE post == [page |-> page, tick |-> tick, left |-> Kinds \cup {"opt_in"}]
  <2>1. post \in Post /\ post.page = page
    BY DEF NoticeInv, NoticeTypeOK, Post
  <2>2. /\ pages' = pages \ {page} /\ posting' = posting \cup {post}
        /\ UNCHANGED <<texts, shown, acknowledged, optIn>>
    BY <1>2 DEF PostNotice
  <2> HIDE DEF post
  <2>3. NoticeTypeOK' /\ PostedWasShown'
    BY <2>1, <2>2 DEF NoticeInv, NoticeTypeOK, PostedWasShown
  <2> QED BY <1>a, <2>2, <2>3 DEF NoticeInv
<1>3. ASSUME NEW p \in posting, Acknowledge(p) PROVE NoticeInv'
  <2>1. UNCHANGED <<texts, pages, shown, optIn>>
    BY <1>3 DEF Acknowledge
  <2>2. PICK kind \in Kinds :
          /\ acknowledged' = [acknowledged EXCEPT ![p.page.reader] = @ \cup {Posted(p, kind)}]
          /\ posting' = After(p, kind)
    BY <1>3 DEF Acknowledge, Kinds
  <2>3. Posted(p, kind) \in shown[p.page.reader] /\ Posted(p, kind) \in texts
        /\ p.page.reader \in Readers
    BY DEF NoticeInv, NoticeTypeOK, PostedWasShown, Posted, Post, Page
  <2>4. {q.page : q \in posting'} \subseteq {q.page : q \in posting}
    BY <2>2, AfterPages
  <2>5. NoticeTypeOK'
    BY <2>1, <2>2, <2>3, AfterPages DEF NoticeInv, NoticeTypeOK
  <2>6. PostedWasShown'
    BY <2>1, <2>2, <2>3, <2>4 DEF NoticeInv, NoticeTypeOK, PostedWasShown
  <2> QED BY <1>a, <2>1, <2>5, <2>6 DEF NoticeInv
<1>4. ASSUME NEW p \in posting, WriteOptIn(p) \/ LosePost(p) PROVE NoticeInv'
  <2>1. /\ UNCHANGED <<texts, pages, shown, acknowledged>> /\ posting' = posting \ {p}
        /\ \E w \in {"on", "off"} :
             optIn' = optIn \/ optIn' = [optIn EXCEPT ![p.page.reader] = w]
    BY <1>4 DEF WriteOptIn, LosePost
  <2>2. NoticeTypeOK' /\ PostedWasShown'
    BY <2>1 DEF NoticeInv, NoticeTypeOK, PostedWasShown
  <2> QED BY <1>a, <2>1, <2>2 DEF NoticeInv
<1>5. CASE UNCHANGED noticeVars
  <2>1. NoticeTypeOK' /\ PostedWasShown'
    BY <1>5 DEF noticeVars, NoticeInv, NoticeTypeOK, PostedWasShown
  <2> QED BY <1>5, <1>a, <2>1 DEF noticeVars, NoticeInv
<1> QED BY <1>1, <1>2, <1>3, <1>4, <1>5, PublishTextInv DEF NoticeNext

(* Every page and every acknowledgement names a text there is, and a page  *)
(* can always be painted: the fallback language has every text.            *)
THEOREM NoticeTypeCorrect == NoticeSpec => []NoticeTypeOK
<1>1. NoticeInv => NoticeTypeOK
  BY DEF NoticeInv
<1> QED BY <1>1, NoticeInitInv, NoticeNextInv, PTL DEF NoticeSpec

(* The portal opens in a language only on texts that were on a page of the *)
(* reader's, whatever was published while pages were open and wherever a   *)
(* post stopped.                                                           *)
THEOREM PortalOpensOnSeenTexts == NoticeSpec => []OpensOnSeenTexts
<1>1. NoticeInv => OpensOnSeenTexts
  BY DEF NoticeInv, PostedWasShown, OpensOnSeenTexts, Due
<1> QED BY <1>1, NoticeInitInv, NoticeNextInv, PTL DEF NoticeSpec

-----------------------------------------------------------------------------
(* The report's files.                                                     *)
CleanBeforeHeld ==
  \A f \in Files : upload[f] \in {"save", "held", "removed"} => verdict[f] = "clean"

OnceHeld(S) == \A f \in S : upload[f] \in {"held", "removed"}

\* What a send listed and what the report carries was held; a send that got
\* past the page's check has every field.
ListedWereHeld ==
  /\ \A s \in Sends :
       /\ OnceHeld(send[s].ids)
       /\ send[s].pc \in {"list", "store"} => send[s].form = Fields
  /\ OnceHeld(report.files)
  /\ report.stored => report.form = Fields

OneClerkAtATime ==
  /\ \A c, d \in Clerks : clerk[c] # {} /\ clerk[d] # {} => c = d
  /\ \A c \in Clerks, f \in Files : clerk[c] = {f} => documents[f] = 0

FewAreHeld == IsFiniteSet(Held) /\ Cardinality(Held) <= ReportFileMax

ReportInv ==
  /\ ReportTypeOK
  /\ CleanBeforeHeld /\ ListedWereHeld /\ OneClerkAtATime /\ FewAreHeld
  /\ OneDocumentPerAttachment

LEMMA ReportInitInv == ReportInit => ReportInv
<1> SUFFICES ASSUME ReportInit PROVE ReportInv
  OBVIOUS
<1>1. ReportTypeOK
  BY MaxOffersAssumption DEF ReportInit, ReportTypeOK, NoReport, IdleSend
<1>2. FewAreHeld
  <2>1. Held = {}
    BY DEF ReportInit, Held
  <2> QED BY <2>1, FS_EmptySet, ReportFileMaxAssumption DEF FewAreHeld
<1>3. CleanBeforeHeld /\ ListedWereHeld /\ OneClerkAtATime /\ OneDocumentPerAttachment
  BY DEF ReportInit, CleanBeforeHeld, ListedWereHeld, OnceHeld, OneClerkAtATime,
         OneDocumentPerAttachment, NoReport, IdleSend
<1> QED BY <1>1, <1>2, <1>3 DEF ReportInv

\* A file's request goes on; a hold, once saved, is held or removed.
LEMMA UploadMoves ==
  ASSUME ReportInv, NEW f \in Files, NEW step, Reach(f, step),
         step \in {"room", "scan", "save", "held", "removed", "refused"},
         upload[f] \in {"held", "removed"} => step = "removed",
         step = "held" => upload[f] = "save" /\ RoomAtTheRow,
         step = "removed" => upload[f] = "held",
         step = "save" => verdict'[f] = "clean",
         verdict' = verdict \/ (upload[f] = "scan" /\ \E said \in {"clean", "infected", "unavailable"} :
                                  verdict' = [verdict EXCEPT ![f] = said]),
         UNCHANGED <<offers, send, report, clerk, documents>>
  PROVE  ReportInv'
<1> USE DEF ReportInv
<1>1. ReportTypeOK'
  BY DEF ReportTypeOK, Reach
<1>2. \A g \in Files : upload'[g] = IF g = f THEN step ELSE upload[g]
  BY DEF ReportTypeOK, Reach
<1>3. \A g \in Files : g # f => verdict'[g] = verdict[g]
  BY DEF ReportTypeOK
<1>4. CleanBeforeHeld'
  BY <1>2, <1>3 DEF CleanBeforeHeld
<1>5. ListedWereHeld'
  BY <1>2 DEF ListedWereHeld, OnceHeld, ReportTypeOK
<1>6. FewAreHeld'
  <2>1. CASE step = "held"
    <3>1. Held' = Held \cup {f} /\ f \notin Held
      BY <1>2, <2>1 DEF Held
    <3>2. Cardinality(Held) < ReportFileMax
      BY <2>1 DEF RoomAtTheRow, RoomForAnother
    <3>3. IsFiniteSet(Held) /\ Cardinality(Held) \in Nat
      BY FS_CardinalityType DEF FewAreHeld
    <3> QED BY <3>1, <3>2, <3>3, FS_AddElement, ReportFileMaxAssumption DEF FewAreHeld
  <2>2. CASE step # "held"
    <3>1. Held' \subseteq Held
      BY <1>2, <2>2 DEF Held
    <3>2. IsFiniteSet(Held) /\ Cardinality(Held) \in Nat
      BY FS_CardinalityType DEF FewAreHeld
    <3>3. IsFiniteSet(Held') /\ Cardinality(Held') <= Cardinality(Held)
      BY <3>1, <3>2, FS_Subset
    <3>4. Cardinality(Held') \in Nat
      BY <3>3, FS_CardinalityType
    <3> QED BY <3>2, <3>3, <3>4, ReportFileMaxAssumption DEF FewAreHeld
  <2> QED BY <2>1, <2>2
<1>7. OneClerkAtATime' /\ OneDocumentPerAttachment'
  BY DEF OneClerkAtATime, OneDocumentPerAttachment
<1> QED BY <1>1, <1>4, <1>5, <1>6, <1>7

LEMMA ReportNextInv == ReportInv /\ [ReportNext]_reportVars => ReportInv'
<1> SUFFICES ASSUME ReportInv, [ReportNext]_reportVars PROVE ReportInv'
  OBVIOUS
<1>0. ReportTypeOK /\ ListedWereHeld /\ CleanBeforeHeld
  BY DEF ReportInv
<1>a. ASSUME UNCHANGED <<upload, verdict>>
      PROVE  CleanBeforeHeld' /\ FewAreHeld'
  BY <1>a DEF ReportInv, CleanBeforeHeld, FewAreHeld, Held
<1>b. ASSUME UNCHANGED <<clerk, documents>>
      PROVE  OneClerkAtATime' /\ OneDocumentPerAttachment'
  BY <1>b DEF ReportInv, OneClerkAtATime, OneDocumentPerAttachment
<1>c. ASSUME UNCHANGED <<upload, send, report>> PROVE ListedWereHeld'
  BY <1>c DEF ReportInv, ListedWereHeld, OnceHeld
<1>1. ASSUME NEW f \in Files,
             \/ AskRoom(f) \/ PutObject(f) \/ SaveHold(f) \/ RemoveHold(f)
             \/ \E said \in {"clean", "infected", "unavailable"} : ScanObject(f, said)
      PROVE  ReportInv'
  <2>1. CASE AskRoom(f) \/ PutObject(f)
    BY <2>1, UploadMoves DEF AskRoom, PutObject
  <2>2. CASE SaveHold(f) \/ RemoveHold(f)
    BY <2>2, UploadMoves DEF SaveHold, RemoveHold
  <2>3. ASSUME NEW said \in {"clean", "infected", "unavailable"}, ScanObject(f, said)
        PROVE  ReportInv'
    <3>1. verdict'[f] = said
      BY <1>0, <2>3 DEF ScanObject, ReportTypeOK
    <3> QED BY <2>3, <3>1, UploadMoves DEF ScanObject
  <2> QED BY <1>1, <2>1, <2>2, <2>3
<1>2. CASE UpsertReportCategory
  <2>1. ReportTypeOK'
    BY <1>0, <1>2, MaxOffersAssumption DEF UpsertReportCategory, ReportTypeOK
  <2> QED BY <1>2, <1>a, <1>b, <1>c, <2>1 DEF UpsertReportCategory, ReportInv
<1>3. ASSUME NEW s \in Sends, NEW form \in SUBSET Fields, SendReport(s, form)
      PROVE  ReportInv'
  <2> DEFINE row == [pc |-> IF Sendable(form) THEN "list" ELSE "refused",
                     form |-> form, ids |-> {}]
  <2>1. send' = [send EXCEPT ![s] = row] /\ UNCHANGED <<upload, verdict, offers, report, clerk, documents>>
    BY <1>3 DEF SendReport
  <2>2. /\ row \in [pc: {"idle", "list", "store", "done", "refused"},
                    form: SUBSET Fields, ids: SUBSET Files]
        /\ row.ids = {} /\ (row.pc \in {"list", "store"} => row.form = Fields)
    BY DEF Sendable
  <2> HIDE DEF row
  <2>3. ReportTypeOK' /\ ListedWereHeld'
    BY <1>0, <2>1, <2>2 DEF ReportTypeOK, ListedWereHeld, OnceHeld
  <2> QED BY <1>a, <1>b, <2>1, <2>3 DEF ReportInv
<1>4. ASSUME NEW s \in Sends, ListHolds(s) PROVE ReportInv'
  <2> DEFINE row == [send[s] EXCEPT !.pc = "store", !.ids = Held]
  <2>1. send' = [send EXCEPT ![s] = row] /\ UNCHANGED <<upload, verdict, offers, report, clerk, documents>>
    BY <1>0, <1>4 DEF ListHolds, ReportTypeOK
  <2>2. /\ row \in [pc: {"idle", "list", "store", "done", "refused"},
                    form: SUBSET Fields, ids: SUBSET Files]
        /\ row.ids = Held /\ row.form = Fields
    BY <1>0, <1>4 DEF ListHolds, ReportTypeOK, ListedWereHeld, Held
  <2> HIDE DEF row
  <2>3. ReportTypeOK' /\ ListedWereHeld'
    BY <1>0, <2>1, <2>2 DEF ReportTypeOK, ListedWereHeld, OnceHeld, Held
  <2> QED BY <1>a, <1>b, <2>1, <2>3 DEF ReportInv
<1>5. ASSUME NEW s \in Sends, StoreReport(s) PROVE ReportInv'
  <2>1. PICK pc \in {"done", "refused"} : send' = [send EXCEPT ![s].pc = pc]
    BY <1>5 DEF StoreReport
  <2>2. \A x \in Sends : /\ send'[x].ids = send[x].ids /\ send'[x].form = send[x].form
                         /\ send'[x].pc = IF x = s THEN pc ELSE send[x].pc
    BY <1>0, <2>1 DEF ReportTypeOK
  <2>3. send' \in [Sends -> [pc: {"idle", "list", "store", "done", "refused"},
                             form: SUBSET Fields, ids: SUBSET Files]]
    BY <1>0, <2>1 DEF ReportTypeOK
  <2>4. \/ report' = report
        \/ report' = [stored |-> TRUE, form |-> send[s].form, files |-> send[s].ids \cap Held]
    BY <1>5 DEF StoreReport
  <2>5. send[s].form = Fields /\ send[s] \in [pc: {"idle", "list", "store", "done", "refused"},
                             form: SUBSET Fields, ids: SUBSET Files]
    BY <1>0, <1>5 DEF StoreReport, ListedWereHeld, ReportTypeOK
  <2>6. ReportTypeOK'
    BY <1>0, <1>5, <2>3, <2>4, <2>5 DEF StoreReport, ReportTypeOK
  <2>7. ListedWereHeld'
    BY <1>0, <1>5, <2>2, <2>4, <2>5 DEF StoreReport, ListedWereHeld, OnceHeld, Held
  <2> QED BY <1>5, <1>a, <1>b, <2>6, <2>7 DEF StoreReport, ReportInv
<1>6. ASSUME NEW c \in Clerks, NEW f \in Files, LockAttachment(c, f) PROVE ReportInv'
  <2>1. \A d \in Clerks : clerk'[d] = IF d = c THEN {f} ELSE {}
    BY <1>0, <1>6 DEF LockAttachment, FileLocked, Unlocked, ReportTypeOK
  <2>2. ReportTypeOK'
    BY <1>0, <1>6 DEF LockAttachment, ReportTypeOK
  <2>3. OneClerkAtATime' /\ OneDocumentPerAttachment'
    BY <1>6, <2>1 DEF LockAttachment, ReportInv, OneClerkAtATime, OneDocumentPerAttachment
  <2> QED BY <1>6, <1>a, <1>c, <2>2, <2>3 DEF LockAttachment, ReportInv
<1>7. ASSUME NEW c \in Clerks, NEW f \in Files, NEW ok \in BOOLEAN, FileAttachment(c, f, ok)
      PROVE  ReportInv'
  <2>1. \A d \in Clerks : clerk'[d] = {}
    BY <1>0, <1>7 DEF FileAttachment, ReportInv, OneClerkAtATime, ReportTypeOK
  <2>2. \A g \in Files : documents'[g] = documents[g] \/ (documents'[g] = 1 /\ documents[g] = 0)
    BY <1>0, <1>7 DEF FileAttachment, ReportInv, OneClerkAtATime, ReportTypeOK
  <2>3. ReportTypeOK'
    BY <1>0, <1>7 DEF FileAttachment, ReportTypeOK
  <2>4. OneClerkAtATime' /\ OneDocumentPerAttachment'
    BY <2>1, <2>2 DEF ReportInv, OneClerkAtATime, OneDocumentPerAttachment
  <2> QED BY <1>7, <1>a, <1>c, <2>3, <2>4 DEF FileAttachment, ReportInv
<1>8. CASE UNCHANGED reportVars
  <2>1. ReportTypeOK'
    BY <1>0, <1>8 DEF reportVars, ReportTypeOK
  <2> QED BY <1>8, <1>a, <1>b, <1>c, <2>1 DEF reportVars, ReportInv
<1> QED
  BY <1>1, <1>2, <1>3, <1>4, <1>5, <1>6, <1>7, <1>8 DEF ReportNext

(* However many uploads, sends and clerks race: no more files are held     *)
(* than a send may carry, the one report has every field and clean files   *)
(* only, and an attachment is filed as one document.                       *)
THEOREM FilesAreWhole == ReportSpec => []FilesKeepTheirWord
<1>1. ReportInv => FilesKeepTheirWord
  BY DEF ReportInv, FilesKeepTheirWord, ReportIsWhole, FewAreHeld, ListedWereHeld,
         CleanBeforeHeld, OnceHeld, OneDocumentPerAttachment, ReportTypeOK
<1> QED BY <1>1, ReportInitInv, ReportNextInv, PTL DEF ReportSpec

-----------------------------------------------------------------------------
(* Signing in by a code.                                                   *)

\* A request under way knows its code: it was accepted by the sender before
\* the others are superseded, handed out before it is typed, and used before
\* a session is minted.
RequestsKnowTheirCode ==
  \A r \in Requests :
    IF request[r].pc = "idle" THEN request[r].code = 0
    ELSE LET c == request[r].code IN
         /\ c \in DOMAIN codes
         /\ request[r].pc = "supersede" => codes[c].accepted
         /\ request[r].pc \in {"miss", "consume", "mint"} => c \in handed
         /\ request[r].pc = "mint" =>
              codes[c].end = "used" /\ \A s \in sessions : s.code # c

\* A code is used by one request.
OneMints ==
  \A q, r \in Requests :
    request[q].pc = "mint" /\ request[r].pc = "mint" /\ request[q].code = request[r].code
      => q = r

CodesArePast == \A i \in DOMAIN codes : codes[i].at <= now

NamesItsSuperseder ==
  \A i \in DOMAIN codes : codes[i].end = "superseded" => codes[i].by \in DOMAIN codes

FreshIsHanded == \A i \in DOMAIN codes : codes[i].fresh => i \in handed

\* A number that was sent a code has a latest one.
SomeIsLatest ==
  \A p \in Phones : CodesOf(p) # {} => \E i \in CodesOf(p) : IsLatest(i)

SentInWindow(S, time) == {i \in S : codes[i].at \in time..(time + Day)}

\* SendsAreRationed, one number, address and window at a time.
Rationed ==
  /\ \A i, j \in DOMAIN codes :
       i < j /\ codes[i].phone = codes[j].phone
         => codes[i].at + ResendWait <= codes[j].at
  /\ \A time \in 0..now :
       /\ \A a \in ClientAddresses :
            Cardinality(SentInWindow(CodesFrom(a), time)) <= SendsPerAddress
       /\ \A p \in Phones :
            Cardinality(SentInWindow(CodesOf(p), time)) <= SendsPerNumber

SignInInv ==
  /\ SignInTypeOK
  /\ RequestsKnowTheirCode /\ OneMints
  /\ CodesArePast /\ FreshIsHanded /\ SomeIsLatest /\ NamesItsSuperseder
  /\ OneSessionPerCode /\ SupersededByADeliveredCode /\ LiveCodeCanBeTyped
  /\ Rationed

\* The rows there are keep what tells them apart, and a row that was used or
\* superseded stays so.
RowsStay ==
  /\ codes' \in Seq(Code) /\ DOMAIN codes' = DOMAIN codes
  /\ \A i \in DOMAIN codes :
       /\ codes'[i].phone = codes[i].phone /\ codes'[i].address = codes[i].address
       /\ codes'[i].at = codes[i].at
       /\ codes[i].accepted => codes'[i].accepted
       /\ codes'[i].attempts <= CodeAttempts /\ codes'[i].by \in 0..Len(codes')

LEMMA CodesAreRows ==
  ASSUME SignInTypeOK
  PROVE  /\ Len(codes) \in Nat /\ DOMAIN codes = 1..Len(codes)
         /\ \A i \in DOMAIN codes : codes[i] \in Code
BY LenProperties, ElementOfSeq DEF SignInTypeOK

\* Writing to one row of the sequence.
LEMMA OneRowMoves ==
  ASSUME SignInTypeOK, NEW i \in DOMAIN codes, NEW row \in Code,
         codes' = [codes EXCEPT ![i] = row]
  PROVE  /\ codes' \in Seq(Code) /\ DOMAIN codes' = DOMAIN codes
         /\ Len(codes') = Len(codes)
         /\ \A j \in DOMAIN codes : codes'[j] = IF j = i THEN row ELSE codes[j]
BY CodesAreRows, ExceptSeq DEF SignInTypeOK

LEMMA OneRowIsAdded ==
  ASSUME SignInTypeOK, NEW row \in Code, codes' = Append(codes, row)
  PROVE  /\ codes' \in Seq(Code) /\ Len(codes') = Len(codes) + 1
         /\ DOMAIN codes' = DOMAIN codes \cup {Len(codes) + 1}
         /\ \A j \in DOMAIN codes : codes'[j] = codes[j]
         /\ codes'[Len(codes) + 1] = row
<1>1. /\ codes' \in Seq(Code) /\ Len(codes') = Len(codes) + 1
      /\ \A j \in 1..Len(codes) : codes'[j] = codes[j]
      /\ codes'[Len(codes) + 1] = row
  BY AppendProperties DEF SignInTypeOK
<1>2. DOMAIN codes' = 1..Len(codes') /\ Len(codes) \in Nat /\ DOMAIN codes = 1..Len(codes)
  BY <1>1, LenProperties, CodesAreRows
<1> QED BY <1>1, <1>2

LEMMA RowStep ==
  ASSUME SignInTypeOK, NEW i \in DOMAIN codes, NEW row \in Code,
         row.phone = codes[i].phone, row.address = codes[i].address, row.at = codes[i].at,
         codes[i].accepted => row.accepted, row.attempts <= CodeAttempts,
         row.by = codes[i].by, codes' = [codes EXCEPT ![i] = row]
  PROVE  RowsStay /\ \A j \in DOMAIN codes : codes'[j] = IF j = i THEN row ELSE codes[j]
<1>1. /\ codes' \in Seq(Code) /\ DOMAIN codes' = DOMAIN codes /\ Len(codes') = Len(codes)
      /\ \A j \in DOMAIN codes : codes'[j] = IF j = i THEN row ELSE codes[j]
  BY OneRowMoves
<1> QED BY <1>1 DEF RowsStay, SignInTypeOK

LEMMA SameRows == ASSUME SignInTypeOK, UNCHANGED codes PROVE RowsStay
BY DEF RowsStay, SignInTypeOK

\* While no code is added and the clock stands, the rations are as they were.
LEMMA RationsStay ==
  ASSUME SignInInv, RowsStay, now' = now
  PROVE  Rationed' /\ SomeIsLatest' /\ CodesArePast'
<1>1. \A p : CodesOf(p)' = CodesOf(p)
  BY DEF RowsStay, CodesOf
<1>2. \A a : CodesFrom(a)' = CodesFrom(a)
  BY DEF RowsStay, CodesFrom
<1>3. /\ \A p, time : SentInWindow(CodesOf(p), time)' = SentInWindow(CodesOf(p), time)
      /\ \A a, time : SentInWindow(CodesFrom(a), time)' = SentInWindow(CodesFrom(a), time)
  BY <1>1, <1>2 DEF RowsStay, SentInWindow, CodesOf, CodesFrom
<1>4. \A i \in DOMAIN codes : IsLatest(i) => IsLatest(i)'
  BY <1>1 DEF IsLatest, RowsStay
<1>5. SomeIsLatest'
  BY <1>1, <1>4 DEF SignInInv, SomeIsLatest, CodesOf
<1>6. CodesArePast'
  BY DEF SignInInv, CodesArePast, RowsStay
<1>7. \A i, j \in DOMAIN codes' :
        i < j /\ codes'[i].phone = codes'[j].phone
          => codes'[i].at + ResendWait <= codes'[j].at
  BY DEF SignInInv, Rationed, RowsStay
<1>8. Rationed'
  BY <1>3, <1>7 DEF SignInInv, Rationed
<1> QED BY <1>5, <1>6, <1>8

LEMMA TickRations ==
  ASSUME SignInInv, Tick
  PROVE  Rationed' /\ SomeIsLatest' /\ CodesArePast'
<1>0. /\ now \in Nat /\ now' = now + 1 /\ codes' = codes
      /\ \A i \in DOMAIN codes : codes[i].at \in Nat /\ codes[i].at <= now
  BY CodesAreRows, TimesAssumption DEF SignInInv, Tick, SignInTypeOK, CodesArePast, Code
<1>1. SomeIsLatest' /\ CodesArePast'
  <2>1. CodesArePast'
    BY <1>0 DEF CodesArePast
  <2>2. /\ \A p : CodesOf(p)' = CodesOf(p)
        /\ \A i : IsLatest(i) => IsLatest(i)'
    BY <1>0 DEF IsLatest, CodesOf
  <2>3. SomeIsLatest
    BY DEF SignInInv
  <2> QED BY <2>1, <2>2, <2>3 DEF SomeIsLatest
<1>2. \A S, time : S \subseteq DOMAIN codes /\ time = now + 1 => SentInWindow(S, time) = {}
  BY <1>0 DEF SentInWindow
<1>3. \A S, time : SentInWindow(S, time)' = SentInWindow(S', time)
  BY <1>0 DEF SentInWindow
<1>4. ASSUME NEW time \in 0..now',
             NEW a \in ClientAddresses
      PROVE  Cardinality(SentInWindow(CodesFrom(a), time)') <= SendsPerAddress
  <2>1. SentInWindow(CodesFrom(a), time)' = SentInWindow(CodesFrom(a), time)
    BY <1>0 DEF SentInWindow, CodesFrom
  <2>2. CASE time \in 0..now
    BY <2>1, <2>2 DEF SignInInv, Rationed
  <2>3. CASE time = now + 1
    <3>1. SentInWindow(CodesFrom(a), time) = {}
      BY <1>2, <2>3 DEF CodesFrom
    <3> QED BY <2>1, <3>1, FS_EmptySet, CapsAssumption
  <2> QED BY <1>0, <2>2, <2>3
<1>5. ASSUME NEW time \in 0..now', NEW p \in Phones
      PROVE  Cardinality(SentInWindow(CodesOf(p), time)') <= SendsPerNumber
  <2>1. SentInWindow(CodesOf(p), time)' = SentInWindow(CodesOf(p), time)
    BY <1>0 DEF SentInWindow, CodesOf
  <2>2. CASE time \in 0..now
    BY <2>1, <2>2 DEF SignInInv, Rationed
  <2>3. CASE time = now + 1
    <3>1. SentInWindow(CodesOf(p), time) = {}
      BY <1>2, <2>3 DEF CodesOf
    <3> QED BY <2>1, <3>1, FS_EmptySet, CapsAssumption
  <2> QED BY <1>0, <2>2, <2>3
<1>6. Rationed'
  BY <1>0, <1>4, <1>5 DEF SignInInv, Rationed
<1> QED BY <1>1, <1>6

\* The guard counted the codes of the day that ends now: a window that would
\* hold the new one holds no others.
LEMMA OneMoreFits ==
  ASSUME SignInTypeOK, CodesArePast, NEW S \in SUBSET DOMAIN codes, NEW n, n \notin S,
         NEW W, NEW time \in 0..now, NEW cap \in Nat,
         Cardinality(InTheDay(S)) < cap,
         Cardinality(SentInWindow(S, time)) <= cap,
         W = SentInWindow(S, time) \/ (now <= time + Day /\ W = SentInWindow(S, time) \cup {n})
  PROVE  Cardinality(W) <= cap
<1>0. /\ now \in Nat /\ Len(codes) \in Nat /\ DOMAIN codes = 1..Len(codes)
      /\ \A i \in DOMAIN codes : codes[i].at \in Nat
  BY CodesAreRows, TimesAssumption DEF SignInTypeOK, Code
<1>1. IsFiniteSet(S)
  <2>1. IsFiniteSet(1..Len(codes))
    BY <1>0, FS_Interval
  <2>2. S \in SUBSET (1..Len(codes))
    BY <1>0
  <2> QED BY <2>1, <2>2, FS_Subset
<1>2. IsFiniteSet(InTheDay(S)) /\ IsFiniteSet(SentInWindow(S, time))
  BY <1>1, FS_Subset DEF InTheDay, SentInWindow
<1>3. CASE W = SentInWindow(S, time)
  BY <1>3
<1>4. CASE now <= time + Day /\ W = SentInWindow(S, time) \cup {n}
  <2>1. SentInWindow(S, time) \subseteq InTheDay(S)
    BY <1>0, <1>4, TimesAssumption DEF SentInWindow, InTheDay
  <2>2. Cardinality(SentInWindow(S, time)) <= Cardinality(InTheDay(S))
    BY <1>2, <2>1, FS_Subset
  <2>3. Cardinality(SentInWindow(S, time)) \in Nat /\ Cardinality(InTheDay(S)) \in Nat
    BY <1>2, FS_CardinalityType
  <2>4. n \notin SentInWindow(S, time)
    BY DEF SentInWindow
  <2>5. Cardinality(W) = Cardinality(SentInWindow(S, time)) + 1
    BY <1>2, <1>4, <2>4, FS_AddElement
  <2> QED BY <2>2, <2>3, <2>5
<1> QED BY <1>3, <1>4

LEMMA PrepareRations ==
  ASSUME SignInInv, NEW r \in Requests, NEW phone \in Phones,
         NEW address \in ClientAddresses, NEW channel \in CodeChannels,
         PrepareCode(r, phone, address, channel)
  PROVE  Rationed' /\ SomeIsLatest' /\ CodesArePast'
<1> DEFINE row == [phone |-> phone, address |-> address, channel |-> channel, at |-> now,
                   attempts |-> 0, fresh |-> FALSE, accepted |-> FALSE, end |-> "live",
                   by |-> 0, late |-> FALSE]
           n == Len(codes) + 1
<1>0. now \in Nat /\ now' = now
  BY TimesAssumption DEF SignInInv, SignInTypeOK, PrepareCode
<1>1. row \in Code
  BY <1>0 DEF Code
<1>2. codes' = Append(codes, row)
  BY DEF PrepareCode
<1>3. row.phone = phone /\ row.address = address /\ row.at = now
  OBVIOUS
<1> HIDE DEF row
<1>4. /\ DOMAIN codes' = DOMAIN codes \cup {n} /\ codes'[n] = row
      /\ \A j \in DOMAIN codes : codes'[j] = codes[j]
      /\ n \notin DOMAIN codes /\ \A j \in DOMAIN codes : j < n
      /\ DOMAIN codes \subseteq Nat /\ n \in Nat
      /\ \A j \in DOMAIN codes : codes[j].at \in Nat
  <2>1. /\ DOMAIN codes' = DOMAIN codes \cup {n} /\ codes'[n] = row
        /\ \A j \in DOMAIN codes : codes'[j] = codes[j]
    BY <1>1, <1>2, OneRowIsAdded DEF SignInInv
  <2> QED BY <2>1, CodesAreRows DEF SignInInv, Code
<1> HIDE DEF n
<1>5. CodesOf(phone)' = CodesOf(phone) \cup {n}
      /\ \A p : p # phone => CodesOf(p)' = CodesOf(p)
  BY <1>3, <1>4 DEF CodesOf
<1>6. CodesFrom(address)' = CodesFrom(address) \cup {n}
      /\ \A a : a # address => CodesFrom(a)' = CodesFrom(a)
  BY <1>3, <1>4 DEF CodesFrom
<1>7. CodesArePast'
  BY <1>0, <1>3, <1>4 DEF SignInInv, CodesArePast
<1>8. SomeIsLatest'
  <2> SUFFICES ASSUME NEW p \in Phones, CodesOf(p)' # {}
               PROVE  \E i \in CodesOf(p)' : IsLatest(i)'
    BY DEF SomeIsLatest
  <2>1. CASE p = phone
    <3>1. n \in CodesOf(p)' /\ codes'[n].phone = phone
      BY <1>3, <1>4, <1>5, <2>1
    <3>2. \A j \in CodesOf(phone)' : j <= n
      BY <1>4, <1>5 DEF CodesOf
    <3> QED BY <3>1, <3>2 DEF IsLatest
  <2>2. CASE p # phone
    <3>1. PICK i \in CodesOf(p) : IsLatest(i)
      BY <1>5, <2>2 DEF SignInInv, SomeIsLatest
    <3>2. codes'[i].phone = p /\ codes[i].phone = p
      BY <1>4, <3>1 DEF CodesOf
    <3> QED BY <1>5, <2>2, <3>1, <3>2 DEF IsLatest
  <2> QED BY <2>1, <2>2
<1>9. \A i \in CodesOf(phone) : codes[i].at + ResendWait <= now
  <2> SUFFICES ASSUME NEW i \in CodesOf(phone) PROVE codes[i].at + ResendWait <= now
    OBVIOUS
  <2>1. PICK l \in CodesOf(phone) : IsLatest(l)
    BY DEF SignInInv, SomeIsLatest
  <2>2. codes[l].at + ResendWait <= now
    BY <1>0, <1>4, <2>1, TimesAssumption DEF PrepareCode, MaySend, Waiting, CodesOf
  <2>3. i <= l /\ i \in DOMAIN codes /\ l \in DOMAIN codes /\ codes[i].phone = codes[l].phone
    BY <2>1 DEF IsLatest, CodesOf
  <2>4. i = l \/ codes[i].at + ResendWait <= codes[l].at
    BY <1>4, <2>3 DEF SignInInv, Rationed
  <2> QED BY <1>0, <1>4, <2>2, <2>3, <2>4, TimesAssumption
<1>10. \A i, j \in DOMAIN codes' :
         i < j /\ codes'[i].phone = codes'[j].phone
           => codes'[i].at + ResendWait <= codes'[j].at
  <2> SUFFICES ASSUME NEW i \in DOMAIN codes', NEW j \in DOMAIN codes',
                      i < j, codes'[i].phone = codes'[j].phone
               PROVE  codes'[i].at + ResendWait <= codes'[j].at
    OBVIOUS
  <2>1. i \in DOMAIN codes
    BY <1>4
  <2>2. CASE j \in DOMAIN codes
    BY <1>4, <2>1, <2>2 DEF SignInInv, Rationed
  <2>3. CASE j = n
    BY <1>3, <1>4, <1>9, <2>1, <2>3 DEF CodesOf
  <2> QED BY <1>4, <2>2, <2>3
<1>11. \A S, time : S \subseteq DOMAIN codes => SentInWindow(S, time)' = SentInWindow(S', time)
  BY <1>4 DEF SentInWindow
<1>12. ASSUME NEW a \in ClientAddresses, NEW time \in 0..now
       PROVE  Cardinality(SentInWindow(CodesFrom(a), time)') <= SendsPerAddress
  <2>0. Cardinality(SentInWindow(CodesFrom(a), time)) <= SendsPerAddress
    BY DEF SignInInv, Rationed
  <2>1. CASE a # address
    <3>1. SentInWindow(CodesFrom(a), time)' = SentInWindow(CodesFrom(a), time)
      BY <1>4, <1>6, <2>1 DEF SentInWindow, CodesFrom
    <3> QED BY <2>0, <3>1
  <2>2. CASE a = address
    <3>1. \/ SentInWindow(CodesFrom(a), time)' = SentInWindow(CodesFrom(a), time)
          \/ /\ now <= time + Day
             /\ SentInWindow(CodesFrom(a), time)' = SentInWindow(CodesFrom(a), time) \cup {n}
      BY <1>0, <1>3, <1>4, <1>6, <2>2, TimesAssumption DEF SentInWindow, CodesFrom
    <3>2. CodesFrom(a) \in SUBSET DOMAIN codes /\ n \notin CodesFrom(a)
      BY <1>4 DEF CodesFrom
    <3>3. Cardinality(InTheDay(CodesFrom(a))) < SendsPerAddress
      BY <2>2 DEF PrepareCode, MaySend
    <3>4. SignInTypeOK /\ CodesArePast /\ SendsPerAddress \in Nat
      BY CapsAssumption DEF SignInInv
    <3> QED BY <2>0, <3>1, <3>2, <3>3, <3>4, OneMoreFits
  <2> QED BY <2>1, <2>2
<1>13. ASSUME NEW p \in Phones, NEW time \in 0..now
       PROVE  Cardinality(SentInWindow(CodesOf(p), time)') <= SendsPerNumber
  <2>0. Cardinality(SentInWindow(CodesOf(p), time)) <= SendsPerNumber
    BY DEF SignInInv, Rationed
  <2>1. CASE p # phone
    <3>1. SentInWindow(CodesOf(p), time)' = SentInWindow(CodesOf(p), time)
      BY <1>4, <1>5, <2>1 DEF SentInWindow, CodesOf
    <3> QED BY <2>0, <3>1
  <2>2. CASE p = phone
    <3>1. \/ SentInWindow(CodesOf(p), time)' = SentInWindow(CodesOf(p), time)
          \/ /\ now <= time + Day
             /\ SentInWindow(CodesOf(p), time)' = SentInWindow(CodesOf(p), time) \cup {n}
      BY <1>0, <1>3, <1>4, <1>5, <2>2, TimesAssumption DEF SentInWindow, CodesOf
    <3>2. CodesOf(p) \in SUBSET DOMAIN codes /\ n \notin CodesOf(p)
      BY <1>4 DEF CodesOf
    <3>3. Cardinality(InTheDay(CodesOf(p))) < SendsPerNumber
      BY <2>2 DEF PrepareCode, MaySend
    <3>4. SignInTypeOK /\ CodesArePast /\ SendsPerNumber \in Nat
      BY CapsAssumption DEF SignInInv
    <3> QED BY <2>0, <3>1, <3>2, <3>3, <3>4, OneMoreFits
  <2> QED BY <2>1, <2>2
<1>14. Rationed'
  BY <1>0, <1>10, <1>12, <1>13 DEF Rationed
<1> QED BY <1>7, <1>8, <1>14

-----------------------------------------------------------------------------
\* What is not about the rations.
Fates ==
  /\ SignInTypeOK
  /\ RequestsKnowTheirCode /\ OneMints /\ FreshIsHanded /\ NamesItsSuperseder
  /\ OneSessionPerCode /\ SupersededByADeliveredCode /\ LiveCodeCanBeTyped

LEMMA InvParts ==
  /\ SignInInv <=> Fates /\ CodesArePast /\ SomeIsLatest /\ Rationed
  /\ SignInInv' <=> Fates' /\ CodesArePast' /\ SomeIsLatest' /\ Rationed'
BY DEF SignInInv, Fates

LEMMA RotateFates ==
  ASSUME SignInInv, NEW phone, NEW channel, Rotate(phone, channel)
  PROVE  RowsStay /\ now' = now /\ Fates'
<1>1. PICK i \in DOMAIN codes :
        /\ codes' = [codes EXCEPT ![i].fresh = TRUE] /\ handed' = handed \cup {i}
        /\ UNCHANGED <<now, sessions, request, lost>>
  BY DEF Rotate, CodesOf, Answer
<1> DEFINE row == [codes[i] EXCEPT !.fresh = TRUE]
<1>2. /\ row \in Code /\ codes[i].attempts <= CodeAttempts
      /\ row.phone = codes[i].phone /\ row.address = codes[i].address
      /\ row.at = codes[i].at /\ row.accepted = codes[i].accepted
      /\ row.attempts = codes[i].attempts /\ row.by = codes[i].by
      /\ row.end = codes[i].end /\ row.late = codes[i].late
  BY CodesAreRows DEF SignInInv, SignInTypeOK, Code
<1>3. codes' = [codes EXCEPT ![i] = row]
  BY <1>1, CodesAreRows DEF SignInInv
<1> HIDE DEF row
<1>4. RowsStay /\ \A j \in DOMAIN codes : codes'[j] = IF j = i THEN row ELSE codes[j]
  BY <1>2, <1>3, RowStep DEF SignInInv
<1>5. SignInTypeOK'
  BY <1>1, <1>4 DEF SignInInv, SignInTypeOK, RowsStay
<1>6. RequestsKnowTheirCode' /\ OneMints'
  BY <1>1, <1>2, <1>4 DEF SignInInv, RequestsKnowTheirCode, OneMints, RowsStay
<1>7. FreshIsHanded' /\ LiveCodeCanBeTyped'
  BY <1>1, <1>2, <1>4 DEF SignInInv, FreshIsHanded, LiveCodeCanBeTyped, RowsStay
<1>8. OneSessionPerCode' /\ SupersededByADeliveredCode' /\ NamesItsSuperseder'
  <2>1. \A j \in DOMAIN codes :
          /\ codes'[j].end = codes[j].end /\ codes'[j].attempts = codes[j].attempts
          /\ codes'[j].by = codes[j].by /\ codes'[j].late = codes[j].late
          /\ codes'[j].accepted = codes[j].accepted /\ codes'[j].phone = codes[j].phone
    BY <1>2, <1>4
  <2>2. \A j \in DOMAIN codes : codes[j].end = "superseded" => codes[j].by \in DOMAIN codes
    BY DEF SignInInv, NamesItsSuperseder
  <2>3. OneSessionPerCode'
    BY <1>1, <1>4, <2>1 DEF SignInInv, SignInTypeOK, OneSessionPerCode, RowsStay
  <2>4. SupersededByADeliveredCode' /\ NamesItsSuperseder'
    BY <1>4, <2>1, <2>2
       DEF SignInInv, SupersededByADeliveredCode, NamesItsSuperseder, RowsStay
  <2> QED BY <2>3, <2>4
<1> QED BY <1>1, <1>4, <1>5, <1>6, <1>7, <1>8 DEF Fates

\* A request ends: it works on no code any more.
LEMMA FinishRequests ==
  ASSUME SignInTypeOK, NEW r \in Requests, Finish(r)
  PROVE  /\ request' \in [Requests -> Request]
         /\ \A q \in Requests : request'[q] = IF q = r THEN Idle ELSE request[q]
         /\ Idle.pc = "idle" /\ Idle.code = 0
BY DEF Finish, SignInTypeOK, Idle, Request

LEMMA GotoRequests ==
  ASSUME SignInTypeOK, NEW r \in Requests,
         NEW step \in {"idle", "send", "supersede", "miss", "consume", "mint"}, Goto(r, step)
  PROVE  /\ request' \in [Requests -> Request]
         /\ \A q \in Requests :
              /\ request'[q].pc = IF q = r THEN step ELSE request[q].pc
              /\ request'[q].code = request[q].code
BY DEF Goto, SignInTypeOK, Request

LEMMA PrepareFates ==
  ASSUME SignInInv, NEW r \in Requests, NEW phone \in Phones,
         NEW address \in ClientAddresses, NEW channel \in CodeChannels,
         PrepareCode(r, phone, address, channel)
  PROVE  Fates'
<1> DEFINE row == [phone |-> phone, address |-> address, channel |-> channel, at |-> now,
                   attempts |-> 0, fresh |-> FALSE, accepted |-> FALSE, end |-> "live",
                   by |-> 0, late |-> FALSE]
           n == Len(codes) + 1
           req == [pc |-> "send", code |-> n, now |-> 0]
<1>0. UNCHANGED <<now, handed, sessions, lost>>
  BY DEF PrepareCode
<1>1. /\ row \in Code /\ row.attempts = 0 /\ ~row.fresh /\ row.end = "live" /\ row.by = 0
      /\ codes' = Append(codes, row)
  BY TimesAssumption DEF SignInInv, SignInTypeOK, Code, PrepareCode
<1>2. req \in Request /\ req.pc = "send" /\ req.code = n /\ request' = [request EXCEPT ![r] = req]
  BY CodesAreRows DEF SignInInv, PrepareCode, Request
<1> HIDE DEF row, req
<1>3. /\ codes' \in Seq(Code) /\ Len(codes') = n
      /\ DOMAIN codes' = DOMAIN codes \cup {n} /\ codes'[n] = row
      /\ \A j \in DOMAIN codes : codes'[j] = codes[j]
  BY <1>1, OneRowIsAdded DEF SignInInv
<1>4. /\ n \in Nat \ {0} /\ n \notin DOMAIN codes /\ 0 \notin DOMAIN codes /\ Len(codes) < n
  BY CodesAreRows DEF SignInInv
<1> HIDE DEF n
<1>5. SignInTypeOK'
  <2>1. \A i \in DOMAIN codes' : codes'[i].attempts <= CodeAttempts /\ codes'[i].by \in 0..Len(codes')
    <3>1. \A i \in DOMAIN codes : codes'[i].attempts <= CodeAttempts /\ codes'[i].by \in 0..Len(codes')
      BY <1>3, <1>4, CodesAreRows DEF SignInInv, SignInTypeOK
    <3>2. 0 <= CodeAttempts /\ 0 \in 0..Len(codes')
      BY <1>3, <1>4, CapsAssumption
    <3> QED BY <1>1, <1>3, <3>1, <3>2
  <2>2. /\ handed' \subseteq DOMAIN codes'
        /\ sessions' \subseteq [id: Nat, code: DOMAIN codes', phone: Phones]
    BY <1>0, <1>3 DEF SignInInv, SignInTypeOK
  <2>3. request' \in [Requests -> Request]
    BY <1>2 DEF SignInInv, SignInTypeOK
  <2> QED BY <1>0, <1>3, <2>1, <2>2, <2>3 DEF SignInInv, SignInTypeOK
<1>6. \A q \in Requests : request'[q] = IF q = r THEN req ELSE request[q]
  BY <1>2 DEF SignInInv, SignInTypeOK
<1>7. RequestsKnowTheirCode' /\ OneMints'
  BY <1>0, <1>2, <1>3, <1>6 DEF SignInInv, RequestsKnowTheirCode, OneMints
<1>8. FreshIsHanded' /\ OneSessionPerCode'
  BY <1>0, <1>1, <1>3 DEF SignInInv, SignInTypeOK, FreshIsHanded, OneSessionPerCode
<1>9. SupersededByADeliveredCode' /\ NamesItsSuperseder'
  BY <1>1, <1>3 DEF SignInInv, SupersededByADeliveredCode, NamesItsSuperseder
<1>10. LiveCodeCanBeTyped'
  <2> SUFFICES ASSUME NEW i \in DOMAIN codes', codes'[i].end = "live", lost = 0,
                      \A q \in Requests : request'[q].code # i
               PROVE  i \in handed
    BY <1>0 DEF LiveCodeCanBeTyped
  <2>1. i \in DOMAIN codes
    BY <1>2, <1>3, <1>6
  <2>2. request[r].code = 0
    BY DEF SignInInv, RequestsKnowTheirCode, PrepareCode, At
  <2>3. \A q \in Requests : request[q].code # i
    BY <1>4, <1>6, <2>1, <2>2
  <2> QED BY <1>3, <2>1, <2>3 DEF SignInInv, LiveCodeCanBeTyped
<1> QED BY <1>5, <1>7, <1>8, <1>9, <1>10 DEF Fates

\* A request r writes one row, its own code's, and goes on or ends.
LEMMA SendFates ==
  ASSUME SignInInv, NEW r \in Requests, SendAccepted(r) \/ SendFails(r)
  PROVE  RowsStay /\ now' = now /\ Fates'
<1>0. PICK i \in DOMAIN codes :
        /\ i = request[r].code /\ request[r].pc = "send"
        /\ UNCHANGED <<now, handed, sessions, lost>>
  BY DEF SignInInv, RequestsKnowTheirCode, SendAccepted, SendFails, At
<1>1. CASE SendAccepted(r)
  <2> DEFINE row == [codes[i] EXCEPT !.accepted = TRUE]
  <2>0. codes[i] \in Code /\ codes[i].attempts <= CodeAttempts
    BY <1>0, CodesAreRows DEF SignInInv, SignInTypeOK
  <2>1. /\ row \in Code
        /\ row.phone = codes[i].phone /\ row.address = codes[i].address
        /\ row.at = codes[i].at /\ row.accepted /\ row.fresh = codes[i].fresh
        /\ row.attempts = codes[i].attempts /\ row.by = codes[i].by
        /\ row.end = codes[i].end /\ row.late = codes[i].late
    BY <2>0 DEF Code
  <2>2. codes' = [codes EXCEPT ![i] = row]
    BY <1>0, <1>1, CodesAreRows DEF SendAccepted, SignInInv
  <2> HIDE DEF row
  <2>3. RowsStay /\ \A j \in DOMAIN codes : codes'[j] = IF j = i THEN row ELSE codes[j]
    BY <1>0, <2>0, <2>1, <2>2, RowStep DEF SignInInv
  <2>4. /\ request' \in [Requests -> Request]
        /\ \A q \in Requests : /\ request'[q].pc = IF q = r THEN "supersede" ELSE request[q].pc
                               /\ request'[q].code = request[q].code
    BY <1>1, GotoRequests DEF SignInInv, SendAccepted
  <2>5. SignInTypeOK'
    BY <1>0, <2>3, <2>4 DEF SignInInv, SignInTypeOK, RowsStay
  <2>6. \A j \in DOMAIN codes :
          /\ codes'[j].end = codes[j].end /\ codes'[j].attempts = codes[j].attempts
          /\ codes'[j].by = codes[j].by /\ codes'[j].late = codes[j].late
          /\ codes[j].accepted => codes'[j].accepted
          /\ codes'[j].phone = codes[j].phone /\ codes'[j].fresh = codes[j].fresh
    BY <2>1, <2>3
  <2>7. RequestsKnowTheirCode'
    BY <1>0, <2>1, <2>3, <2>4, <2>6 DEF SignInInv, RequestsKnowTheirCode, RowsStay
  <2>8. OneMints' /\ FreshIsHanded' /\ LiveCodeCanBeTyped'
    BY <1>0, <2>3, <2>4, <2>6
       DEF SignInInv, OneMints, FreshIsHanded, LiveCodeCanBeTyped, RowsStay
  <2>9. OneSessionPerCode'
    BY <1>0, <2>3, <2>6 DEF SignInInv, SignInTypeOK, OneSessionPerCode, RowsStay
  <2>10. SupersededByADeliveredCode' /\ NamesItsSuperseder'
    BY <2>3, <2>6 DEF SignInInv, SupersededByADeliveredCode, NamesItsSuperseder, RowsStay
  <2> QED BY <1>0, <2>3, <2>5, <2>7, <2>8, <2>9, <2>10 DEF Fates
<1>2. CASE SendFails(r)
  <2> DEFINE row == [codes[i] EXCEPT !.end = IF codes[i].end = "live" THEN "failed" ELSE codes[i].end]
  <2>0. codes[i] \in Code /\ codes[i].attempts <= CodeAttempts
    BY <1>0, CodesAreRows DEF SignInInv, SignInTypeOK
  <2>1. /\ row \in Code
        /\ row.phone = codes[i].phone /\ row.address = codes[i].address
        /\ row.at = codes[i].at /\ row.accepted = codes[i].accepted
        /\ row.attempts = codes[i].attempts /\ row.by = codes[i].by
        /\ row.fresh = codes[i].fresh /\ row.late = codes[i].late
        /\ row.end # "live"
        /\ row.end = codes[i].end \/ (row.end = "failed" /\ codes[i].end = "live")
    BY <2>0 DEF Code
  <2>2. codes' = [codes EXCEPT ![i] = row]
    BY <1>0, <1>2 DEF SendFails
  <2> HIDE DEF row
  <2>3. RowsStay /\ \A j \in DOMAIN codes : codes'[j] = IF j = i THEN row ELSE codes[j]
    BY <1>0, <2>0, <2>1, <2>2, RowStep DEF SignInInv
  <2>4. /\ request' \in [Requests -> Request]
        /\ \A q \in Requests : request'[q] = IF q = r THEN Idle ELSE request[q]
        /\ Idle.pc = "idle" /\ Idle.code = 0
    BY <1>2, FinishRequests DEF SignInInv, SendFails
  <2>5. SignInTypeOK'
    BY <1>0, <2>3, <2>4 DEF SignInInv, SignInTypeOK, RowsStay
  <2>6. \A j \in DOMAIN codes :
          /\ codes'[j].end = codes[j].end \/ (codes[j].end = "live" /\ codes'[j].end = "failed" /\ j = i)
          /\ codes'[j].attempts = codes[j].attempts
          /\ codes'[j].by = codes[j].by /\ codes'[j].late = codes[j].late
          /\ codes'[j].accepted = codes[j].accepted
          /\ codes'[j].phone = codes[j].phone /\ codes'[j].fresh = codes[j].fresh
          /\ j = i => codes'[j].end # "live"
    BY <2>1, <2>3
  <2>7. RequestsKnowTheirCode' /\ OneMints'
    <3>1. handed' = handed /\ sessions' = sessions /\ DOMAIN codes' = DOMAIN codes
      BY <1>2, <2>3 DEF SendFails, RowsStay
    <3>2. OneMints'
      BY <2>4 DEF SignInInv, OneMints
    <3>3. RequestsKnowTheirCode'
      BY <2>4, <2>6, <3>1 DEF SignInInv, RequestsKnowTheirCode
    <3> QED BY <3>2, <3>3
  <2>8. FreshIsHanded' /\ LiveCodeCanBeTyped'
    <3>1. handed' = handed /\ lost' = lost /\ DOMAIN codes' = DOMAIN codes
      BY <1>2, <2>3 DEF SendFails, RowsStay
    <3>2. FreshIsHanded'
      BY <2>6, <3>1 DEF SignInInv, FreshIsHanded
    <3>3. ASSUME NEW j \in DOMAIN codes', (codes[j].end = "live")',
                 lost' = 0, \A q \in Requests : request'[q].code # j
          PROVE  j \in handed'
      <4>1. j # i /\ codes[j].end = "live"
        BY <2>6, <3>1, <3>3
      <4>2. \A q \in Requests : request[q].code # j
        BY <1>0, <2>4, <3>3, <4>1
      <4> QED BY <3>1, <3>3, <4>1, <4>2 DEF SignInInv, LiveCodeCanBeTyped
    <3> QED BY <3>2, <3>3 DEF LiveCodeCanBeTyped
  <2>9. OneSessionPerCode'
    <3>1. sessions' = sessions /\ DOMAIN codes' = DOMAIN codes
      BY <1>2, <2>3 DEF SendFails, RowsStay
    <3>2. \A j \in DOMAIN codes' : codes'[j].end = "used" => codes'[j].attempts < CodeAttempts
      BY <2>6, <3>1 DEF SignInInv, OneSessionPerCode
    <3>3. \A s \in sessions' : codes'[s.code].end = "used"
      <4>1. \A s \in sessions : s.code \in DOMAIN codes /\ codes[s.code].end = "used"
        BY DEF SignInInv, SignInTypeOK, OneSessionPerCode
      <4>2. \A j \in DOMAIN codes : codes[j].end = "used" => codes'[j].end = "used"
        BY <2>6
      <4> QED BY <3>1, <4>1, <4>2
    <3>4. \A s, u \in sessions' : s.code = u.code => s = u
      BY <3>1 DEF SignInInv, OneSessionPerCode
    <3> QED BY <3>2, <3>3, <3>4 DEF OneSessionPerCode
  <2>10. SupersededByADeliveredCode' /\ NamesItsSuperseder'
    BY <2>3, <2>6 DEF SignInInv, SupersededByADeliveredCode, NamesItsSuperseder, RowsStay
  <2> QED BY <1>0, <2>3, <2>5, <2>7, <2>8, <2>9, <2>10 DEF Fates
<1> QED BY <1>1, <1>2

\* A newer code is a wait or more newer, so a code that supersedes a newer
\* one has been on its way for as long.
LEMMA SupersedeFates ==
  ASSUME SignInInv, NEW r \in Requests, Supersede(r)
  PROVE  RowsStay /\ now' = now /\ Fates'
<1>0. PICK own \in DOMAIN codes :
        /\ own = request[r].code /\ codes[own].accepted
        /\ codes' = [i \in DOMAIN codes |->
             IF i \in OthersUnused(own)
               THEN [codes[i] EXCEPT !.end = "superseded", !.by = own,
                                     !.late = now - codes[own].at >= ResendWait]
               ELSE codes[i]]
        /\ handed' = IF codes[own].fresh THEN handed ELSE handed \cup {own}
        /\ Finish(r) /\ UNCHANGED <<now, sessions, lost>>
  BY DEF SignInInv, RequestsKnowTheirCode, Supersede, At
<1>1. /\ Len(codes) \in Nat /\ DOMAIN codes = 1..Len(codes) /\ DOMAIN codes' = DOMAIN codes
      /\ \A i \in DOMAIN codes : codes[i] \in Code
  BY <1>0, CodesAreRows DEF SignInInv
<1>2. now \in Nat /\ ResendWait \in Nat
  BY TimesAssumption DEF SignInInv, SignInTypeOK
<1>3. \A i \in OthersUnused(own) :
        /\ i \in DOMAIN codes /\ i # own
        /\ codes[i].phone = codes[own].phone /\ codes[i].end = "live"
  BY DEF OthersUnused, CodesOf
<1>4. ASSUME NEW i \in DOMAIN codes
      PROVE  /\ codes'[i] \in Code
             /\ codes'[i].phone = codes[i].phone /\ codes'[i].address = codes[i].address
             /\ codes'[i].at = codes[i].at /\ codes'[i].accepted = codes[i].accepted
             /\ codes'[i].attempts = codes[i].attempts /\ codes'[i].fresh = codes[i].fresh
             /\ \/ /\ i \in OthersUnused(own)
                   /\ codes'[i].end = "superseded" /\ codes'[i].by = own
                   /\ now - codes[own].at >= ResendWait => codes'[i].late = TRUE
                \/ i \notin OthersUnused(own) /\ codes'[i] = codes[i]
  <2>1. CASE i \in OthersUnused(own)
    <3> DEFINE late == now - codes[own].at >= ResendWait
    <3>1. codes'[i] = [codes[i] EXCEPT !.end = "superseded", !.by = own, !.late = late]
      BY <1>0, <2>1
    <3>2. late \in BOOLEAN /\ (now - codes[own].at >= ResendWait => late = TRUE)
      OBVIOUS
    <3> HIDE DEF late
    <3>3. codes[i] \in Code /\ own \in Nat
      BY <1>1
    <3>4. /\ codes'[i] \in Code
          /\ codes'[i].phone = codes[i].phone /\ codes'[i].address = codes[i].address
          /\ codes'[i].at = codes[i].at /\ codes'[i].accepted = codes[i].accepted
          /\ codes'[i].attempts = codes[i].attempts /\ codes'[i].fresh = codes[i].fresh
          /\ codes'[i].end = "superseded" /\ codes'[i].by = own /\ codes'[i].late = late
      BY <3>1, <3>2, <3>3 DEF Code
    <3> QED BY <2>1, <3>2, <3>4
  <2>2. CASE i \notin OthersUnused(own)
    BY <1>0, <1>1, <2>2
  <2> QED BY <2>1, <2>2
<1>a. \A i \in DOMAIN codes :
        /\ codes'[i] \in Code
        /\ codes'[i].phone = codes[i].phone /\ codes'[i].address = codes[i].address
        /\ codes'[i].at = codes[i].at /\ codes'[i].accepted = codes[i].accepted
        /\ codes'[i].attempts = codes[i].attempts /\ codes'[i].fresh = codes[i].fresh
  BY <1>4
<1>b. \A i \in OthersUnused(own) :
        /\ codes'[i].end = "superseded" /\ codes'[i].by = own
        /\ now - codes[own].at >= ResendWait => codes'[i].late = TRUE
  BY <1>3, <1>4
<1>c. \A i \in DOMAIN codes : i \notin OthersUnused(own) => codes'[i] = codes[i]
  BY <1>4
<1>5. codes' \in Seq(Code) /\ Len(codes') = Len(codes)
  <2>1. codes' \in [1..Len(codes) -> Code]
    BY <1>0, <1>1, <1>a
  <2>2. codes' \in Seq(Code)
    BY <1>1, <2>1, SeqDef
  <2> QED BY <1>1, <2>1, <2>2, LenProperties
<1>6. RowsStay
  <2>1. \A i \in DOMAIN codes : codes'[i].by \in 0..Len(codes')
    BY <1>1, <1>5, <1>b, <1>c DEF SignInInv, SignInTypeOK
  <2> QED BY <1>1, <1>5, <1>a, <2>1 DEF RowsStay, SignInInv, SignInTypeOK
<1>7. /\ request' \in [Requests -> Request]
      /\ \A q \in Requests : request'[q] = IF q = r THEN Idle ELSE request[q]
      /\ Idle.pc = "idle" /\ Idle.code = 0
  BY <1>0, FinishRequests DEF SignInInv
<1>8. SignInTypeOK'
  BY <1>0, <1>1, <1>6, <1>7 DEF SignInInv, SignInTypeOK, RowsStay
<1>9. RequestsKnowTheirCode' /\ OneMints'
  <2>1. \A i \in DOMAIN codes :
          /\ codes[i].end # "live" => codes'[i].end = codes[i].end
          /\ codes'[i].accepted = codes[i].accepted
    BY <1>3, <1>a, <1>c
  <2>2. handed \subseteq handed'
    BY <1>0
  <2>3. OneMints'
    BY <1>7 DEF SignInInv, OneMints
  <2>4. ASSUME NEW q \in Requests, q # r, request[q].pc # "idle"
        PROVE  LET c == request[q].code IN
               /\ c \in DOMAIN codes
               /\ request[q].pc = "supersede" => codes'[c].accepted
               /\ request[q].pc \in {"miss", "consume", "mint"} => c \in handed'
               /\ request[q].pc = "mint" =>
                    codes'[c].end = "used" /\ \A s \in sessions : s.code # c
    BY <2>1, <2>2, <2>4 DEF SignInInv, RequestsKnowTheirCode
  <2>5. \A q \in Requests : request[q].pc = "idle" => request[q].code = 0
    BY DEF SignInInv, RequestsKnowTheirCode
  <2>6. RequestsKnowTheirCode'
    <3>1. ASSUME NEW q \in Requests
          PROVE  IF request'[q].pc = "idle" THEN request'[q].code = 0
                 ELSE LET c == request'[q].code IN
                      /\ c \in DOMAIN codes'
                      /\ request'[q].pc = "supersede" => codes'[c].accepted
                      /\ request'[q].pc \in {"miss", "consume", "mint"} => c \in handed'
                      /\ request'[q].pc = "mint" =>
                           codes'[c].end = "used" /\ \A s \in sessions' : s.code # c
      <4>1. CASE q = r
        BY <1>7, <4>1
      <4>2. CASE q # r /\ request[q].pc = "idle"
        BY <1>7, <2>5, <4>2
      <4>3. CASE q # r /\ request[q].pc # "idle"
        BY <1>0, <1>1, <1>7, <2>4, <4>3
      <4> QED BY <4>1, <4>2, <4>3
    <3> QED BY <3>1 DEF RequestsKnowTheirCode
  <2> QED BY <2>3, <2>6
<1>10. FreshIsHanded' /\ LiveCodeCanBeTyped'
  <2>1. handed \subseteq handed' /\ own \in handed'
    BY <1>0 DEF SignInInv, FreshIsHanded
  <2>2. FreshIsHanded'
    BY <1>1, <1>a, <2>1 DEF SignInInv, FreshIsHanded
  <2>3. LiveCodeCanBeTyped'
    <3> SUFFICES ASSUME NEW i \in DOMAIN codes, codes'[i].end = "live", lost = 0,
                        \A q \in Requests : request'[q].code # i, i # own
                 PROVE  i \in handed
      BY <1>0, <1>1, <2>1 DEF LiveCodeCanBeTyped
    <3>1. codes[i].end = "live" /\ \A q \in Requests : request[q].code # i
      BY <1>0, <1>b, <1>c, <1>7
    <3> QED BY <3>1 DEF SignInInv, LiveCodeCanBeTyped
  <2> QED BY <2>2, <2>3
<1>11. OneSessionPerCode'
  <2>1. \A i \in DOMAIN codes : codes'[i].end = "used" => codes[i].end = "used"
    BY <1>b, <1>c
  <2>2. \A i \in DOMAIN codes : codes[i].end = "used" => codes'[i].end = "used"
    BY <1>3, <1>c
  <2> QED BY <1>0, <1>1, <1>a, <2>1, <2>2 DEF SignInInv, SignInTypeOK, OneSessionPerCode
<1>12. SupersededByADeliveredCode' /\ NamesItsSuperseder'
  <2> SUFFICES ASSUME NEW i \in DOMAIN codes, codes'[i].end = "superseded"
               PROVE  /\ codes'[i].by \in DOMAIN codes /\ codes'[i].by # i
                      /\ codes'[codes'[i].by].phone = codes'[i].phone
                      /\ codes'[codes'[i].by].accepted
                      /\ codes'[i].by > i \/ codes'[i].late
    BY <1>1 DEF SupersededByADeliveredCode, NamesItsSuperseder
  <2>1. CASE i \notin OthersUnused(own)
    <3>1. codes'[i] = codes[i] /\ codes[i].by \in DOMAIN codes
      BY <1>c, <2>1 DEF SignInInv, NamesItsSuperseder
    <3> QED BY <1>a, <3>1 DEF SignInInv, SupersededByADeliveredCode
  <2>2. CASE i \in OthersUnused(own)
    <3>1. own > i \/ (now - codes[own].at >= ResendWait)
      <4>1. own < i => codes[own].at + ResendWait <= codes[i].at
        BY <1>3, <2>2 DEF SignInInv, Rationed
      <4>2. codes[i].at <= now /\ codes[i].at \in Nat /\ codes[own].at \in Nat
        BY <1>1 DEF SignInInv, CodesArePast, Code
      <4>3. own # i /\ own \in Nat /\ i \in Nat
        BY <1>1, <1>3, <2>2
      <4> QED BY <1>2, <4>1, <4>2, <4>3
    <3>2. codes'[i].by = own /\ (now - codes[own].at >= ResendWait => codes'[i].late = TRUE)
      BY <1>b, <2>2
    <3>3. /\ codes'[i].phone = codes[own].phone /\ own # i
          /\ codes'[own].phone = codes[own].phone /\ codes'[own].accepted
      BY <1>0, <1>3, <1>a, <2>2
    <3> QED BY <3>1, <3>2, <3>3
  <2> QED BY <2>1, <2>2
<1> QED BY <1>0, <1>6, <1>8, <1>9, <1>10, <1>11, <1>12 DEF Fates

LEMMA LoadFates ==
  ASSUME SignInInv, NEW r \in Requests, NEW i \in DOMAIN codes, NEW right \in BOOLEAN,
         LoadCode(r, i, right)
  PROVE  Fates'
<1>0. /\ request[r].pc = "idle" /\ i \in handed
      /\ UNCHANGED <<now, codes, handed, sessions, lost>>
  BY DEF LoadCode, At
<1>1. PICK req \in Request :
        /\ req.pc \in {"consume", "miss"} /\ req.code = i
        /\ request' = [request EXCEPT ![r] = req]
  <2>1. now \in Nat /\ i \in Nat
    BY CodesAreRows, TimesAssumption DEF SignInInv, SignInTypeOK
  <2> QED BY <2>1 DEF LoadCode, Request
<1>2. \A q \in Requests : request'[q] = IF q = r THEN req ELSE request[q]
  BY <1>1 DEF SignInInv, SignInTypeOK
<1>3. SignInTypeOK'
  BY <1>0, <1>1 DEF SignInInv, SignInTypeOK
<1>4. RequestsKnowTheirCode' /\ OneMints'
  BY <1>0, <1>1, <1>2 DEF SignInInv, RequestsKnowTheirCode, OneMints
<1>5. LiveCodeCanBeTyped'
  <2> SUFFICES ASSUME NEW j \in DOMAIN codes, codes[j].end = "live", lost = 0,
                      \A q \in Requests : request'[q].code # j
               PROVE  j \in handed
    BY <1>0 DEF LiveCodeCanBeTyped
  <2>1. 0 \notin DOMAIN codes /\ request[r].code = 0
    BY <1>0, CodesAreRows DEF SignInInv, RequestsKnowTheirCode
  <2>2. \A q \in Requests : request[q].code # j
    BY <1>2, <2>1
  <2> QED BY <2>2 DEF SignInInv, LiveCodeCanBeTyped
<1>6. FreshIsHanded' /\ NamesItsSuperseder' /\ OneSessionPerCode' /\ SupersededByADeliveredCode'
  BY <1>0 DEF SignInInv, FreshIsHanded, NamesItsSuperseder, OneSessionPerCode,
              SupersededByADeliveredCode
<1> QED BY <1>3, <1>4, <1>5, <1>6 DEF Fates

\* The guards of both updates are asked on the row as it is now.
LEMMA TypeFates ==
  ASSUME SignInInv, NEW r \in Requests, CountMiss(r) \/ ConsumeCode(r)
  PROVE  RowsStay /\ now' = now /\ Fates'
<1>0. PICK i \in DOMAIN codes :
        /\ i = request[r].code /\ request[r].pc \in {"miss", "consume"} /\ i \in handed
        /\ UNCHANGED <<now, handed, sessions, lost>>
  BY DEF SignInInv, RequestsKnowTheirCode, CountMiss, ConsumeCode, At
<1>1. PICK step \in {"idle", "mint"} :
        /\ \/ step = "idle" /\ UNCHANGED codes
           \/ step = "idle" /\ OpenCode(codes[i])
              /\ codes' = [codes EXCEPT ![i].attempts = @ + 1]
           \/ step = "mint" /\ OpenCode(codes[i])
              /\ codes' = [codes EXCEPT ![i].end = "used"]
        /\ IF step = "mint" THEN Goto(r, "mint") ELSE Finish(r)
  <2>1. CASE CountMiss(r)
    BY <1>0, <2>1 DEF CountMiss, CodeOf
  <2>2. CASE ConsumeCode(r)
    BY <1>0, <2>2 DEF ConsumeCode, CodeOf
  <2> QED BY <2>1, <2>2
<1>2. codes[i] \in Code /\ codes[i].attempts <= CodeAttempts /\ CodeAttempts \in Nat
  BY CodesAreRows, CapsAssumption DEF SignInInv, SignInTypeOK
<1>3. PICK row \in Code :
        /\ row.phone = codes[i].phone /\ row.address = codes[i].address
        /\ row.at = codes[i].at /\ row.accepted = codes[i].accepted
        /\ row.by = codes[i].by /\ row.late = codes[i].late /\ row.fresh = codes[i].fresh
        /\ row.attempts <= CodeAttempts /\ codes' = [codes EXCEPT ![i] = row]
        /\ \/ step = "idle" /\ row = codes[i]
           \/ step = "idle" /\ row.end = "live" /\ codes[i].end = "live"
           \/ /\ step = "mint" /\ row.end = "used" /\ codes[i].end = "live"
              /\ row.attempts < CodeAttempts
  <2>1. CASE step = "idle" /\ UNCHANGED codes
    <3>1. codes' = [codes EXCEPT ![i] = codes[i]]
      BY <2>1, LenProperties DEF SignInInv, SignInTypeOK
    <3> QED BY <1>2, <2>1, <3>1
  <2>2. CASE step = "idle" /\ OpenCode(codes[i]) /\ codes' = [codes EXCEPT ![i].attempts = @ + 1]
    <3> DEFINE miss == [codes[i] EXCEPT !.attempts = @ + 1]
    <3>1. codes' = [codes EXCEPT ![i] = miss]
      BY <2>2
    <3>2. /\ miss \in Code /\ miss.phone = codes[i].phone /\ miss.address = codes[i].address
          /\ miss.at = codes[i].at /\ miss.accepted = codes[i].accepted
          /\ miss.by = codes[i].by /\ miss.late = codes[i].late /\ miss.fresh = codes[i].fresh
          /\ miss.attempts <= CodeAttempts /\ miss.end = "live" /\ codes[i].end = "live"
      BY <1>2, <2>2 DEF OpenCode, Code
    <3> HIDE DEF miss
    <3> QED BY <2>2, <3>1, <3>2
  <2>3. CASE step = "mint" /\ OpenCode(codes[i]) /\ codes' = [codes EXCEPT ![i].end = "used"]
    <3> DEFINE used == [codes[i] EXCEPT !.end = "used"]
    <3>1. codes' = [codes EXCEPT ![i] = used]
      BY <2>3
    <3>2. /\ used \in Code /\ used.phone = codes[i].phone /\ used.address = codes[i].address
          /\ used.at = codes[i].at /\ used.accepted = codes[i].accepted
          /\ used.by = codes[i].by /\ used.late = codes[i].late /\ used.fresh = codes[i].fresh
          /\ used.attempts < CodeAttempts /\ used.attempts <= CodeAttempts
          /\ used.end = "used" /\ codes[i].end = "live"
      BY <1>2, <2>3 DEF OpenCode, Code
    <3> HIDE DEF used
    <3> QED BY <2>3, <3>1, <3>2
  <2> QED BY <1>1, <2>1, <2>2, <2>3
<1>4. RowsStay /\ \A j \in DOMAIN codes : codes'[j] = IF j = i THEN row ELSE codes[j]
  BY <1>3, RowStep DEF SignInInv
<1>5. /\ request' \in [Requests -> Request]
      /\ \A q \in Requests \ {r} : request'[q] = request[q]
      /\ step = "idle" => request'[r].pc = "idle" /\ request'[r].code = 0
      /\ step = "mint" => request'[r].pc = "mint" /\ request'[r].code = i
  <2>1. CASE step = "idle"
    BY <1>1, <2>1, FinishRequests DEF SignInInv
  <2>2. CASE step = "mint"
    <3>1. Goto(r, "mint")
      BY <1>1, <2>2
    <3>2. \A q \in Requests \ {r} : request'[q] = request[q]
      BY <3>1 DEF Goto, SignInInv, SignInTypeOK
    <3> QED BY <1>0, <2>2, <3>1, <3>2, GotoRequests DEF SignInInv
  <2> QED BY <2>1, <2>2
<1>6. SignInTypeOK'
  BY <1>0, <1>4, <1>5 DEF SignInInv, SignInTypeOK, RowsStay
<1>7. \A j \in DOMAIN codes :
        /\ codes'[j].end # codes[j].end =>
             /\ j = i /\ step = "mint" /\ codes[j].end = "live" /\ codes'[j].end = "used"
             /\ codes'[j].attempts < CodeAttempts
        /\ codes[j].end # "live" => codes'[j].end = codes[j].end
        /\ codes[j].end = "used" => codes'[j].attempts = codes[j].attempts
        /\ codes'[j].by = codes[j].by /\ codes'[j].late = codes[j].late
        /\ codes'[j].accepted = codes[j].accepted
        /\ codes'[j].phone = codes[j].phone /\ codes'[j].fresh = codes[j].fresh
        /\ j = i /\ step = "mint" => codes[j].end = "live" /\ codes'[j].end = "used"
  BY <1>3, <1>4
<1>8. RequestsKnowTheirCode'
  <2> SUFFICES ASSUME NEW q \in Requests, request'[q].pc # "idle"
               PROVE  LET c == request'[q].code IN
                      /\ c \in DOMAIN codes
                      /\ request'[q].pc = "supersede" => codes'[c].accepted
                      /\ request'[q].pc \in {"miss", "consume", "mint"} => c \in handed
                      /\ request'[q].pc = "mint" =>
                           codes'[c].end = "used" /\ \A s \in sessions : s.code # c
    BY <1>0, <1>4, <1>5 DEF RequestsKnowTheirCode, RowsStay, SignInInv
  <2>1. CASE q # r
    BY <1>5, <1>7, <2>1 DEF SignInInv, RequestsKnowTheirCode
  <2>2. CASE q = r /\ step = "mint"
    <3>1. \A s \in sessions : s.code # i
      BY <1>7, <2>2 DEF SignInInv, OneSessionPerCode
    <3> QED BY <1>0, <1>5, <1>7, <2>2, <3>1
  <2> QED BY <1>5, <2>1, <2>2
<1>9. OneMints'
  <2> SUFFICES ASSUME NEW q \in Requests, q # r, step = "mint",
                      request[q].pc = "mint", request[q].code = i
               PROVE  FALSE
    BY <1>0, <1>5 DEF SignInInv, OneMints
  <2>1. codes[i].end = "used"
    BY DEF SignInInv, RequestsKnowTheirCode
  <2> QED BY <1>7, <2>1
<1>10. FreshIsHanded' /\ LiveCodeCanBeTyped'
  BY <1>0, <1>4, <1>5, <1>7 DEF SignInInv, FreshIsHanded, LiveCodeCanBeTyped, RowsStay
<1>11. OneSessionPerCode'
  BY <1>0, <1>4, <1>7 DEF SignInInv, SignInTypeOK, OneSessionPerCode, RowsStay
<1>12. SupersededByADeliveredCode' /\ NamesItsSuperseder'
  BY <1>4, <1>7 DEF SignInInv, SupersededByADeliveredCode, NamesItsSuperseder, RowsStay
<1> QED BY <1>0, <1>4, <1>6, <1>8, <1>9, <1>10, <1>11, <1>12 DEF Fates

LEMMA MintFates ==
  ASSUME SignInInv, NEW r \in Requests, Mint(r)
  PROVE  Fates'
<1>0. PICK i \in DOMAIN codes :
        /\ i = request[r].code /\ request[r].pc = "mint" /\ i \in handed
        /\ codes[i].end = "used" /\ \A s \in sessions : s.code # i
  BY DEF SignInInv, RequestsKnowTheirCode, Mint, At
<1> DEFINE mine == {s \in sessions : s.code = i}
           new == [id |-> Cardinality(mine), code |-> i, phone |-> codes[i].phone]
<1>1. new \in [id: Nat, code: DOMAIN codes, phone: Phones] /\ new.code = i
  <2>1. mine = {} /\ codes[i].phone \in Phones
    BY <1>0, CodesAreRows DEF SignInInv, Code
  <2>2. Cardinality(mine) = 0
    BY <2>1, FS_EmptySet
  <2> QED BY <2>1, <2>2
<1>2. /\ sessions' = sessions \cup {new} /\ Finish(r)
      /\ UNCHANGED <<now, codes, handed, lost>>
  BY <1>0 DEF Mint, CodeOf
<1> HIDE DEF new
<1>3. /\ request' \in [Requests -> Request]
      /\ \A q \in Requests : request'[q] = IF q = r THEN Idle ELSE request[q]
      /\ Idle.pc = "idle" /\ Idle.code = 0
  BY <1>2, FinishRequests DEF SignInInv
<1>4. SignInTypeOK'
  BY <1>1, <1>2, <1>3 DEF SignInInv, SignInTypeOK
<1>5. RequestsKnowTheirCode' /\ OneMints'
  <2>1. \A q \in Requests : q # r /\ request[q].pc = "mint" => request[q].code # i
    BY <1>0 DEF SignInInv, OneMints
  <2> QED BY <1>1, <1>2, <1>3, <2>1 DEF SignInInv, RequestsKnowTheirCode, OneMints
<1>6. LiveCodeCanBeTyped'
  BY <1>0, <1>2, <1>3 DEF SignInInv, LiveCodeCanBeTyped
<1>7. OneSessionPerCode'
  BY <1>0, <1>1, <1>2 DEF SignInInv, OneSessionPerCode
<1>8. FreshIsHanded' /\ NamesItsSuperseder' /\ SupersededByADeliveredCode'
  BY <1>2 DEF SignInInv, FreshIsHanded, NamesItsSuperseder, SupersededByADeliveredCode
<1> QED BY <1>4, <1>5, <1>6, <1>7, <1>8 DEF Fates

LEMMA LoseFates ==
  ASSUME SignInInv, NEW r \in Requests, Lose(r)
  PROVE  Fates'
<1>1. /\ lost' \in 0..MaxLost /\ lost' # 0 /\ Finish(r)
      /\ UNCHANGED <<now, codes, handed, sessions>>
  BY CapsAssumption DEF SignInInv, SignInTypeOK, Lose
<1>2. /\ request' \in [Requests -> Request]
      /\ \A q \in Requests : request'[q] = IF q = r THEN Idle ELSE request[q]
      /\ Idle.pc = "idle" /\ Idle.code = 0
  BY <1>1, FinishRequests DEF SignInInv
<1>3. SignInTypeOK' /\ LiveCodeCanBeTyped'
  BY <1>1, <1>2 DEF SignInInv, SignInTypeOK, LiveCodeCanBeTyped
<1>4. RequestsKnowTheirCode' /\ OneMints'
  BY <1>1, <1>2 DEF SignInInv, RequestsKnowTheirCode, OneMints
<1>5. FreshIsHanded' /\ NamesItsSuperseder' /\ OneSessionPerCode' /\ SupersededByADeliveredCode'
  BY <1>1 DEF SignInInv, FreshIsHanded, NamesItsSuperseder, OneSessionPerCode,
              SupersededByADeliveredCode
<1> QED BY <1>3, <1>4, <1>5 DEF Fates

LEMMA StillFates ==
  ASSUME SignInInv, now' \in 0..MaxTime, UNCHANGED <<codes, handed, sessions, request, lost>>
  PROVE  Fates'
<1>1. SignInTypeOK'
  BY DEF SignInInv, SignInTypeOK
<1>2. RequestsKnowTheirCode' /\ OneMints' /\ LiveCodeCanBeTyped'
  BY DEF SignInInv, RequestsKnowTheirCode, OneMints, LiveCodeCanBeTyped
<1>3. FreshIsHanded' /\ NamesItsSuperseder' /\ OneSessionPerCode' /\ SupersededByADeliveredCode'
  BY DEF SignInInv, FreshIsHanded, NamesItsSuperseder, OneSessionPerCode,
         SupersededByADeliveredCode
<1> QED BY <1>1, <1>2, <1>3 DEF Fates

LEMMA SignInInitInv == SignInInit => SignInInv
<1> SUFFICES ASSUME SignInInit PROVE SignInInv
  OBVIOUS
<1>0. /\ codes = <<>> /\ DOMAIN codes = {} /\ Len(codes) = 0 /\ codes \in Seq(Code)
      /\ now = 0 /\ handed = {} /\ sessions = {} /\ lost = 0
      /\ \A r \in Requests : request[r] = Idle
  BY EmptySeq DEF SignInInit
<1>1. SignInTypeOK
  BY <1>0, TimesAssumption, CapsAssumption DEF SignInInit, SignInTypeOK, Request, Idle
<1>2. RequestsKnowTheirCode /\ OneMints
  BY <1>0 DEF RequestsKnowTheirCode, OneMints, Idle
<1>3. /\ CodesArePast /\ FreshIsHanded /\ SomeIsLatest /\ NamesItsSuperseder
      /\ OneSessionPerCode /\ SupersededByADeliveredCode /\ LiveCodeCanBeTyped
  BY <1>0 DEF CodesArePast, FreshIsHanded, SomeIsLatest, NamesItsSuperseder, CodesOf,
              OneSessionPerCode, SupersededByADeliveredCode, LiveCodeCanBeTyped
<1>4. Rationed
  <2>1. \A S, time : S \subseteq DOMAIN codes => Cardinality(SentInWindow(S, time)) = 0
    <3> SUFFICES ASSUME NEW S, NEW time, S \subseteq DOMAIN codes
                 PROVE  Cardinality(SentInWindow(S, time)) = 0
      OBVIOUS
    <3>1. SentInWindow(S, time) = {}
      BY <1>0 DEF SentInWindow
    <3> QED BY <3>1, FS_EmptySet
  <2>2. /\ \A p : CodesOf(p) \subseteq DOMAIN codes
        /\ \A a : CodesFrom(a) \subseteq DOMAIN codes
    BY DEF CodesOf, CodesFrom
  <2> QED BY <1>0, <2>1, <2>2, CapsAssumption DEF Rationed
<1> QED BY <1>1, <1>2, <1>3, <1>4 DEF SignInInv

LEMMA SignInNextInv == SignInInv /\ [SignInNext]_signInVars => SignInInv'
<1> SUFFICES ASSUME SignInInv, [SignInNext]_signInVars PROVE SignInInv'
  OBVIOUS
<1>a. ASSUME RowsStay, now' = now, Fates' PROVE SignInInv'
  BY <1>a, RationsStay, InvParts
<1>b. ASSUME UNCHANGED <<codes, now>>, Fates' PROVE SignInInv'
  <2>1. RowsStay
    BY <1>b, SameRows DEF SignInInv
  <2> QED BY <1>a, <1>b, <2>1
<1>1. ASSUME NEW p \in Phones, NEW ch \in CodeChannels, Rotate(p, ch) PROVE SignInInv'
  BY <1>1, <1>a, RotateFates
<1>2. ASSUME NEW p \in Phones, NEW ch \in CodeChannels, NEW r \in Requests,
             NEW a \in ClientAddresses, PrepareCode(r, p, a, ch)
      PROVE  SignInInv'
  BY <1>2, PrepareFates, PrepareRations, InvParts
<1>3. ASSUME NEW r \in Requests,
             \/ SendAccepted(r) \/ SendFails(r) \/ Supersede(r)
             \/ CountMiss(r) \/ ConsumeCode(r)
      PROVE  SignInInv'
  BY <1>3, <1>a, SendFates, SupersedeFates, TypeFates
<1>4. ASSUME NEW r \in Requests, NEW i \in DOMAIN codes, NEW right \in BOOLEAN,
             LoadCode(r, i, right)
      PROVE  SignInInv'
  BY <1>4, <1>b, LoadFates DEF LoadCode
<1>5. ASSUME NEW r \in Requests, Mint(r) \/ Lose(r) PROVE SignInInv'
  BY <1>5, <1>b, MintFates, LoseFates DEF Mint, Lose
<1>6. CASE Tick
  <2>1. now' \in 0..MaxTime
    BY <1>6, TimesAssumption DEF Tick, SignInInv, SignInTypeOK
  <2> QED BY <1>6, <2>1, StillFates, TickRations, InvParts DEF Tick
<1>7. CASE UNCHANGED signInVars
  <2>1. now' \in 0..MaxTime
    BY <1>7 DEF signInVars, SignInInv, SignInTypeOK
  <2> QED BY <1>7, <1>b, <2>1, StillFates DEF signInVars
<1> QED BY <1>1, <1>2, <1>3, <1>4, <1>5, <1>6, <1>7 DEF SignInNext

(* Every code and every request keeps its type.                            *)
THEOREM SignInTypeCorrect == SignInSpec => []SignInTypeOK
<1>1. SignInInv => SignInTypeOK
  BY DEF SignInInv
<1> QED BY <1>1, SignInInitInv, SignInNextInv, PTL DEF SignInSpec

(* However requests for codes and typed digits overlap: a code brings at   *)
(* most one session, an unused one gives way to a delivered one alone and  *)
(* can otherwise be typed, and the rations of a number and of an address   *)
(* hold in every window of a day.                                          *)
THEOREM CodesEndWellAlways == SignInSpec => []CodesEndWell
<1>1. Rationed => SendsAreRationed
  <2>1. \A a, time : {i \in {j \in DOMAIN codes : codes[j].at \in time..(time + Day)} :
                        codes[i].address = a} = SentInWindow(CodesFrom(a), time)
    BY DEF SentInWindow, CodesFrom
  <2>2. \A p, time : {i \in {j \in DOMAIN codes : codes[j].at \in time..(time + Day)} :
                        codes[i].phone = p} = SentInWindow(CodesOf(p), time)
    BY DEF SentInWindow, CodesOf
  <2> QED BY <2>1, <2>2 DEF Rationed, SendsAreRationed
<1>2. SignInInv => CodesEndWell
  BY <1>1 DEF SignInInv, CodesEndWell
<1> QED BY <1>2, SignInInitInv, SignInNextInv, PTL DEF SignInSpec

-----------------------------------------------------------------------------
(* Passkeys.  A ceremony under way holds the challenge it has spent, the   *)
(* passkey or session it leaves keeps it, and no two hold one challenge.   *)
Spent(c, kind) ==
  c \in DOMAIN challenges /\ challenges[c].spent /\ challenges[c].kind = kind
Keyed == {s \in DOMAIN tenantSessions : tenantSessions[s].by # "code"}

\* The numbers of the rows are 1..n.
RowsAreNumbered ==
  /\ \E n \in Nat : DOMAIN challenges = 1..n
  /\ \E n \in Nat : DOMAIN tenantSessions = 1..n

\* Unless a write has lowered it, the count stored for a passkey is the
\* highest that let anybody in by it.
RowsFit ==
  /\ \A k \in DOMAIN passkeys :
       /\ Spent(passkeys[k].challenge, "register")
       /\ challenges[passkeys[k].challenge].of = passkeys[k].of
       /\ k \notin lowered /\ ~passkeys[k].removed =>
            \A s \in OpenedBy(k) : tenantSessions[s].count <= passkeys[k].count
  /\ \A k, l \in DOMAIN passkeys :
       passkeys[k].challenge = passkeys[l].challenge => k = l
  /\ \A s \in Keyed :
       /\ tenantSessions[s].by \in DOMAIN passkeys
       /\ tenantSessions[s].of = passkeys[tenantSessions[s].by].of
       /\ Spent(tenantSessions[s].challenge, "authenticate")
  /\ \A s, u \in Keyed :
       tenantSessions[s].challenge = tenantSessions[u].challenge => s = u
  /\ \A s \in DOMAIN tenantSessions :
       tenantSessions[s].before \subseteq DOMAIN tenantSessions
  /\ CountIsSpent

\* What a request under way has read stays true of the rows: a ceremony knows
\* of the sessions there were when it read its passkey.
TabFits(b) ==
  /\ tab[b].pc = "store" =>
       /\ tab[b].of \in Tenants /\ tab[b].key \in Credentials
       /\ Spent(tab[b].challenge, "register")
       /\ challenges[tab[b].challenge].of = tab[b].of
       /\ \A k \in DOMAIN passkeys : passkeys[k].challenge # tab[b].challenge
  /\ tab[b].pc \in {"spend", "count", "mint"} =>
       /\ tab[b].challenge \in DOMAIN challenges
       /\ tab[b].key \in DOMAIN passkeys /\ tab[b].of = passkeys[tab[b].key].of
       /\ tab[b].before \subseteq DOMAIN tenantSessions
       /\ tab[b].key \notin lowered =>
            \A u \in tab[b].before : tenantSessions[u].count <= tab[b].held
  /\ tab[b].pc \in {"count", "mint"} =>
       /\ Spent(tab[b].challenge, "authenticate")
       /\ \A s \in Keyed : tenantSessions[s].challenge # tab[b].challenge
  /\ tab[b].pc = "mint" /\ tab[b].key \notin lowered =>
       /\ ~passkeys[tab[b].key].removed => tab[b].count <= passkeys[tab[b].key].count
       /\ tab[b].count > 0 =>
            \A u \in tab[b].before : tenantSessions[u].count < tab[b].count
Apart(b, d) ==
  /\ tab[b].challenge = tab[d].challenge
  /\ \/ tab[b].pc = "store" /\ tab[d].pc = "store"
     \/ {tab[b].pc, tab[d].pc} \subseteq {"count", "mint"}
  => b = d

TabsFit == \A b \in Tabs : TabFits(b) /\ \A d \in Tabs : Apart(b, d)
PasskeyInv == PasskeyTypeOK /\ RowsAreNumbered /\ RowsFit /\ TabsFit

\* What a step leaves of the rows: a challenge keeps its use, a session its
\* origin, and a passkey its count until it is removed.
ChallengesStay ==
  \A c \in DOMAIN challenges :
    /\ c \in DOMAIN challenges' /\ challenges'[c].kind = challenges[c].kind
    /\ challenges'[c].of = challenges[c].of
    /\ challenges[c].spent => challenges'[c].spent
SameOrigin(s) ==
  /\ tenantSessions'[s].by = tenantSessions[s].by
  /\ tenantSessions'[s].of = tenantSessions[s].of
  /\ tenantSessions'[s].challenge = tenantSessions[s].challenge
  /\ tenantSessions'[s].count = tenantSessions[s].count
  /\ tenantSessions'[s].before = tenantSessions[s].before
SessionsStay ==
  /\ DOMAIN tenantSessions' = DOMAIN tenantSessions
  /\ \A s \in DOMAIN tenantSessions : SameOrigin(s)
PasskeysStay ==
  /\ DOMAIN passkeys' = DOMAIN passkeys
  /\ \A k \in DOMAIN passkeys :
       /\ passkeys'[k].of = passkeys[k].of
       /\ passkeys'[k].challenge = passkeys[k].challenge
       /\ passkeys'[k].count = passkeys[k].count
       /\ passkeys[k].removed => passkeys'[k].removed
SpentNext(c, kind) ==
  c \in DOMAIN challenges' /\ challenges'[c].spent /\ challenges'[c].kind = kind

LEMMA AddedRow ==
  ASSUME NEW n \in Nat, NEW f, DOMAIN f = 1..n, NEW x
  PROVE  /\ Cardinality(DOMAIN f) = n
         /\ DOMAIN Added(f, x) = 1..(n + 1)
         /\ \A i \in DOMAIN f : Added(f, x)[i] = f[i]
         /\ n + 1 \notin DOMAIN f /\ Added(f, x)[n + 1] = x
<1>1. Cardinality(DOMAIN f) = n
  BY FS_Interval
<1>2. DOMAIN f \cup {n + 1} = 1..(n + 1) /\ n + 1 \notin DOMAIN f
  OBVIOUS
<1> QED BY <1>1, <1>2 DEF Added

LEMMA SpentStays ==
  ASSUME ChallengesStay
  PROVE  \A c, kind : Spent(c, kind) =>
           SpentNext(c, kind) /\ challenges'[c].of = challenges[c].of
BY DEF ChallengesStay, Spent, SpentNext

\* Rows that stay leave a request what it has read.
LEMMA RowsStayTabFits ==
  ASSUME RowsFit, ChallengesStay, SessionsStay, PasskeysStay, UNCHANGED lowered,
         NEW b \in Tabs, TabFits(b), tab'[b] = tab[b]
  PROVE  TabFits(b)'
<1>1. Keyed' = Keyed /\ \A s \in Keyed : SameOrigin(s)
  BY DEF SessionsStay, SameOrigin, Keyed
<1>2. CASE tab[b].pc = "store"
  BY <1>2, SpentStays DEF TabFits, PasskeysStay, Spent, SpentNext
<1>3. CASE tab[b].pc \in {"spend", "count", "mint"}
  <2>1. /\ tab[b].before \subseteq DOMAIN tenantSessions
        /\ \A u \in tab[b].before : tenantSessions'[u].count = tenantSessions[u].count
    BY <1>3 DEF TabFits, SessionsStay, SameOrigin
  <2>2. tab[b].pc \in {"count", "mint"} =>
          /\ SpentNext(tab[b].challenge, "authenticate")
          /\ \A s \in Keyed : tenantSessions'[s].challenge # tab[b].challenge
    BY <1>1, SpentStays DEF TabFits, SameOrigin
  <2>3. tab[b].key \in DOMAIN passkeys /\ tab[b].challenge \in DOMAIN challenges'
    BY <1>3 DEF TabFits, ChallengesStay
  <2> QED BY <1>1, <1>3, <2>1, <2>2, <2>3 DEF TabFits, PasskeysStay, SessionsStay, Spent, SpentNext
<1>4. CASE tab[b].pc \notin {"store", "spend", "count", "mint"}
  BY <1>4 DEF TabFits
<1> QED BY <1>2, <1>3, <1>4

LEMMA RowsStayRowsFit ==
  ASSUME RowsFit, ChallengesStay, SessionsStay, PasskeysStay, UNCHANGED lowered
  PROVE  RowsFit'
<1>1. Keyed' = Keyed /\ \A k : OpenedBy(k)' = OpenedBy(k)
  BY DEF SessionsStay, SameOrigin, Keyed, OpenedBy
<1>2. ASSUME NEW k \in DOMAIN passkeys
      PROVE  /\ SpentNext(passkeys'[k].challenge, "register")
             /\ challenges'[passkeys'[k].challenge].of = passkeys'[k].of
             /\ k \notin lowered /\ ~passkeys'[k].removed =>
                  \A s \in OpenedBy(k) : tenantSessions'[s].count <= passkeys'[k].count
  <2>1. passkeys'[k].challenge = passkeys[k].challenge /\ passkeys'[k].of = passkeys[k].of
    BY DEF PasskeysStay
  <2>2. \A s \in OpenedBy(k) : tenantSessions'[s].count = tenantSessions[s].count
    BY DEF OpenedBy, SessionsStay, SameOrigin
  <2> QED BY <2>1, <2>2, SpentStays DEF RowsFit, PasskeysStay
<1>3. ASSUME NEW s \in Keyed
      PROVE  /\ tenantSessions'[s].by \in DOMAIN passkeys
             /\ tenantSessions'[s].of = passkeys'[tenantSessions'[s].by].of
             /\ SpentNext(tenantSessions'[s].challenge, "authenticate")
  BY SpentStays DEF RowsFit, PasskeysStay, SessionsStay, SameOrigin, Keyed
<1>4. \A k, l \in DOMAIN passkeys' : passkeys'[k].challenge = passkeys'[l].challenge => k = l
  BY DEF RowsFit, PasskeysStay
<1>5. \A s, u \in Keyed : tenantSessions'[s].challenge = tenantSessions'[u].challenge => s = u
  BY DEF RowsFit, SessionsStay, SameOrigin, Keyed
<1>6. \A s \in DOMAIN tenantSessions' : tenantSessions'[s].before \subseteq DOMAIN tenantSessions'
  BY DEF RowsFit, SessionsStay, SameOrigin
<1>7. CountIsSpent'
  <2> SUFFICES ASSUME NEW s \in DOMAIN tenantSessions, NEW u \in tenantSessions'[s].before,
                      tenantSessions'[s].by \notin lowered, tenantSessions'[s].count > 0
               PROVE  tenantSessions'[s].count > tenantSessions'[u].count
    BY DEF CountIsSpent, SessionsStay
  <2>1. SameOrigin(s) /\ u \in tenantSessions[s].before
    BY DEF SessionsStay, SameOrigin
  <2>2. SameOrigin(u)
    BY <2>1 DEF RowsFit, SessionsStay
  <2> QED BY <2>1, <2>2 DEF RowsFit, CountIsSpent, SameOrigin
<1> QED BY <1>1, <1>2, <1>3, <1>4, <1>5, <1>6, <1>7
        DEF RowsFit, PasskeysStay, Spent, SpentNext

\* A step in which no request does more than leave.
LEMMA LeavingFits ==
  ASSUME PasskeyInv, ChallengesStay, SessionsStay, PasskeysStay, UNCHANGED lowered,
         \A b \in Tabs : tab'[b] = tab[b] \/ tab'[b].pc = "idle"
  PROVE  RowsFit' /\ TabsFit'
<1>1. ASSUME NEW b \in Tabs PROVE TabFits(b)'
  <2>1. CASE tab'[b] = tab[b]
    BY <2>1, RowsStayTabFits DEF PasskeyInv, TabsFit
  <2>2. CASE tab'[b].pc = "idle"
    BY <2>2 DEF TabFits
  <2> QED BY <2>1, <2>2
<1>2. ASSUME NEW b \in Tabs, NEW d \in Tabs PROVE Apart(b, d)'
  BY DEF Apart, PasskeyInv, TabsFit
<1> QED BY <1>1, <1>2, RowsStayRowsFit DEF PasskeyInv, TabsFit

\* A step in which one request moves on.
LEMMA MovingFits ==
  ASSUME PasskeyInv, ChallengesStay, SessionsStay, PasskeysStay, UNCHANGED lowered,
         NEW b \in Tabs, \A d \in Tabs \ {b} : tab'[d] = tab[d],
         TabFits(b)', \A d \in Tabs \ {b} : Apart(b, d)'
  PROVE  RowsFit' /\ TabsFit'
<1>1. \A d \in Tabs : TabFits(d)'
  BY RowsStayTabFits DEF PasskeyInv, TabsFit
<1>2. ASSUME NEW d \in Tabs, NEW e \in Tabs PROVE Apart(d, e)'
  <2>1. CASE d # b /\ e # b
    BY <2>1 DEF Apart, PasskeyInv, TabsFit
  <2>2. CASE d = b \/ e = b
    BY <2>2 DEF Apart
  <2> QED BY <2>1, <2>2
<1> QED BY <1>1, <1>2, RowsStayRowsFit DEF PasskeyInv, TabsFit

-----------------------------------------------------------------------------
ChallengesTyped ==
  /\ DOMAIN challenges \subseteq 1..MaxChallenges
  /\ \A c \in DOMAIN challenges : challenges[c] \in Challenge
SessionsTyped ==
  /\ DOMAIN tenantSessions \subseteq 1..MaxSessions
  /\ \A s \in DOMAIN tenantSessions : tenantSessions[s] \in Session
PasskeysTyped ==
  /\ DOMAIN passkeys \subseteq Credentials
  /\ \A k \in DOMAIN passkeys : passkeys[k] \in Passkey
TabsTyped == tab \in [Tabs -> Tab]
RestTyped == day \in 0..MaxDay /\ lowered \subseteq Credentials

ChallengesNumbered == \E n \in Nat : DOMAIN challenges = 1..n
SessionsNumbered == \E n \in Nat : DOMAIN tenantSessions = 1..n

LEMMA InvNow ==
  ASSUME ChallengesTyped, SessionsTyped, PasskeysTyped, TabsTyped, RestTyped,
         RowsAreNumbered, RowsFit, TabsFit
  PROVE  PasskeyInv
BY DEF PasskeyInv, PasskeyTypeOK, ChallengesTyped, SessionsTyped, PasskeysTyped, TabsTyped,
       RestTyped

LEMMA InvNext ==
  ASSUME ChallengesTyped', SessionsTyped', PasskeysTyped', TabsTyped', RestTyped',
         ChallengesNumbered', SessionsNumbered', RowsFit', TabsFit'
  PROVE  PasskeyInv'
BY DEF PasskeyInv, PasskeyTypeOK, ChallengesTyped, SessionsTyped, PasskeysTyped, TabsTyped,
       RestTyped, RowsAreNumbered, ChallengesNumbered, SessionsNumbered

\* The steps that touch one table each.
LEMMA IssueStays ==
  ASSUME PasskeyInv, NEW kind \in {"register", "authenticate"},
         NEW t \in Tenants \cup {"nobody"}, IssueChallenge(kind, t)
  PROVE  ChallengesStay /\ ChallengesTyped' /\ ChallengesNumbered'
<1> DEFINE row == [kind |-> kind, of |-> t, expires |-> day + CeremonyTtl, spent |-> FALSE]
<1>1. day \in Nat /\ CeremonyTtl \in Nat /\ MaxChallenges \in Nat
  BY PasskeyBoundsAssumption DEF PasskeyInv, PasskeyTypeOK
<1>2. row \in Challenge
  BY <1>1 DEF Challenge
<1>3. PICK n \in Nat : DOMAIN challenges = 1..n
  BY DEF PasskeyInv, RowsAreNumbered
<1>4. challenges' = Added(challenges, row) /\ Cardinality(DOMAIN challenges) < MaxChallenges
  BY DEF IssueChallenge, HasRoom
<1> HIDE DEF row
<1>5. /\ Cardinality(DOMAIN challenges) = n
      /\ DOMAIN Added(challenges, row) = 1..(n + 1)
      /\ \A i \in DOMAIN challenges : Added(challenges, row)[i] = challenges[i]
      /\ n + 1 \notin DOMAIN challenges /\ Added(challenges, row)[n + 1] = row
  BY <1>3, AddedRow
<1>6. ChallengesStay
  BY <1>3, <1>4, <1>5 DEF ChallengesStay
<1>7. ChallengesTyped'
  <2>1. DOMAIN challenges' \subseteq 1..MaxChallenges
    BY <1>1, <1>4, <1>5
  <2>2. \A c \in DOMAIN challenges' : challenges'[c] \in Challenge
    BY <1>2, <1>3, <1>4, <1>5 DEF PasskeyInv, PasskeyTypeOK
  <2> QED BY <2>1, <2>2 DEF ChallengesTyped
<1> QED BY <1>4, <1>5, <1>6, <1>7 DEF ChallengesNumbered

LEMMA SpendStays ==
  ASSUME PasskeyInv, NEW c \in DOMAIN challenges, SpendChallenge(c)
  PROVE  /\ ChallengesStay /\ ChallengesTyped' /\ ChallengesNumbered'
         /\ SpentNext(c, challenges[c].kind) /\ challenges'[c].of = challenges[c].of
<1> DEFINE row == [challenges[c] EXCEPT !.spent = TRUE]
<1>1. challenges[c] \in Challenge /\ row \in Challenge
  BY DEF PasskeyInv, PasskeyTypeOK, Challenge
<1>2. row.kind = challenges[c].kind /\ row.of = challenges[c].of /\ row.spent
  BY <1>1 DEF Challenge
<1>3. challenges' = [challenges EXCEPT ![c] = row]
  BY DEF SpendChallenge
<1> HIDE DEF row
<1>4. /\ DOMAIN challenges' = DOMAIN challenges /\ challenges'[c] = row
      /\ \A d \in DOMAIN challenges : d # c => challenges'[d] = challenges[d]
  BY <1>3
<1>5. ChallengesStay
  BY <1>2, <1>4 DEF ChallengesStay
<1>6. ChallengesTyped'
  BY <1>1, <1>4 DEF ChallengesTyped, PasskeyInv, PasskeyTypeOK
<1> QED BY <1>2, <1>4, <1>5, <1>6
        DEF ChallengesNumbered, PasskeyInv, RowsAreNumbered, SpentNext

LEMMA SeenStays ==
  ASSUME PasskeyInv, NEW s \in DOMAIN tenantSessions, WithSession(s)
  PROVE  SessionsStay /\ SessionsTyped' /\ SessionsNumbered'
<1> DEFINE row == [tenantSessions[s] EXCEPT !.seen = day]
<1>1. day \in Nat /\ tenantSessions[s] \in Session
  BY PasskeyBoundsAssumption DEF PasskeyInv, PasskeyTypeOK
<1>2. row \in Session
  BY <1>1 DEF Session
<1>3. /\ row.by = tenantSessions[s].by /\ row.of = tenantSessions[s].of
      /\ row.challenge = tenantSessions[s].challenge
      /\ row.count = tenantSessions[s].count /\ row.before = tenantSessions[s].before
  BY <1>1 DEF Session
<1>4. tenantSessions' = [tenantSessions EXCEPT ![s] = row]
  BY DEF WithSession
<1> HIDE DEF row
<1>5. /\ DOMAIN tenantSessions' = DOMAIN tenantSessions /\ tenantSessions'[s] = row
      /\ \A u \in DOMAIN tenantSessions : u # s => tenantSessions'[u] = tenantSessions[u]
  BY <1>4
<1>6. SessionsStay
  <2> SUFFICES ASSUME NEW u \in DOMAIN tenantSessions PROVE SameOrigin(u)
    BY <1>5 DEF SessionsStay
  <2> QED BY <1>3, <1>5 DEF SameOrigin
<1>7. SessionsTyped'
  BY <1>2, <1>5 DEF SessionsTyped, PasskeyInv, PasskeyTypeOK
<1> QED BY <1>5, <1>6, <1>7 DEF SessionsNumbered, PasskeyInv, RowsAreNumbered

LEMMA RevokeStays ==
  ASSUME PasskeyInv, NEW s \in DOMAIN tenantSessions, RevokeEvery(s) \/ RevokeOne(s)
  PROVE  SessionsStay /\ SessionsTyped' /\ SessionsNumbered'
<1>1. /\ DOMAIN tenantSessions' = DOMAIN tenantSessions
      /\ \A u \in DOMAIN tenantSessions : \E x \in BOOLEAN :
           tenantSessions'[u] = [tenantSessions[u] EXCEPT !.revoked = x]
  <2>1. \A u \in DOMAIN tenantSessions :
          /\ tenantSessions[u] \in Session
          /\ tenantSessions[u] = [tenantSessions[u] EXCEPT !.revoked = tenantSessions[u].revoked]
          /\ tenantSessions[u].revoked \in BOOLEAN
    BY DEF PasskeyInv, PasskeyTypeOK, Session
  <2>2. CASE RevokeEvery(s)
    <3>1. \A u \in DOMAIN tenantSessions :
            /\ tenantSessions'[u] = [tenantSessions[u] EXCEPT !.revoked =
                 tenantSessions[u].revoked \/ tenantSessions[u].of = tenantSessions[s].of]
            /\ (tenantSessions[u].revoked \/ tenantSessions[u].of = tenantSessions[s].of)
                 \in BOOLEAN
      BY <2>2 DEF RevokeEvery
    <3>2. DOMAIN tenantSessions' = DOMAIN tenantSessions
      BY <2>2 DEF RevokeEvery
    <3> QED BY <3>1, <3>2
  <2>3. CASE RevokeOne(s)
    <3>1. /\ DOMAIN tenantSessions' = DOMAIN tenantSessions
          /\ tenantSessions'[s] = [tenantSessions[s] EXCEPT !.revoked = TRUE]
          /\ \A u \in DOMAIN tenantSessions : u # s => tenantSessions'[u] = tenantSessions[u]
      BY <2>3 DEF RevokeOne
    <3> QED BY <2>1, <3>1
  <2> QED BY <2>2, <2>3
<1>2. ASSUME NEW u \in DOMAIN tenantSessions
      PROVE  SameOrigin(u) /\ tenantSessions'[u] \in Session
  <2>1. PICK x \in BOOLEAN : tenantSessions'[u] = [tenantSessions[u] EXCEPT !.revoked = x]
    BY <1>1
  <2>2. tenantSessions[u] \in Session
    BY DEF PasskeyInv, PasskeyTypeOK
  <2> QED BY <2>1, <2>2 DEF SameOrigin, Session
<1> QED BY <1>1, <1>2 DEF SessionsStay, SessionsTyped, SessionsNumbered,
                          PasskeyInv, PasskeyTypeOK, RowsAreNumbered

LEMMA RemoveStays ==
  ASSUME PasskeyInv, NEW k \in DOMAIN passkeys,
         passkeys' = [passkeys EXCEPT ![k].removed = TRUE]
  PROVE  PasskeysStay /\ PasskeysTyped'
<1> DEFINE row == [passkeys[k] EXCEPT !.removed = TRUE]
<1>1. passkeys[k] \in Passkey /\ row \in Passkey
  BY DEF PasskeyInv, PasskeyTypeOK, Passkey
<1>2. /\ row.of = passkeys[k].of /\ row.challenge = passkeys[k].challenge
      /\ row.count = passkeys[k].count /\ row.removed
  BY <1>1 DEF Passkey
<1>3. passkeys' = [passkeys EXCEPT ![k] = row]
  OBVIOUS
<1> HIDE DEF row
<1>4. /\ DOMAIN passkeys' = DOMAIN passkeys /\ passkeys'[k] = row
      /\ \A l \in DOMAIN passkeys : l # k => passkeys'[l] = passkeys[l]
  BY <1>3
<1> QED BY <1>1, <1>2, <1>4 DEF PasskeysStay, PasskeysTyped, PasskeyInv, PasskeyTypeOK

\* What UNCHANGED gives.
LEMMA StayingStays ==
  /\ PasskeyInv /\ UNCHANGED challenges =>
       ChallengesStay /\ ChallengesTyped' /\ ChallengesNumbered'
  /\ PasskeyInv /\ UNCHANGED tenantSessions =>
       SessionsStay /\ SessionsTyped' /\ SessionsNumbered'
  /\ PasskeyInv /\ UNCHANGED passkeys => PasskeysStay /\ PasskeysTyped'
  /\ PasskeyInv /\ UNCHANGED tab => TabsTyped'
  /\ PasskeyInv /\ UNCHANGED <<day, lowered>> => RestTyped'
<1>1. PasskeyInv /\ UNCHANGED challenges =>
        ChallengesStay /\ ChallengesTyped' /\ ChallengesNumbered'
  BY DEF PasskeyInv, PasskeyTypeOK, ChallengesStay, ChallengesTyped, ChallengesNumbered,
         RowsAreNumbered
<1>2. PasskeyInv /\ UNCHANGED tenantSessions =>
        SessionsStay /\ SessionsTyped' /\ SessionsNumbered'
  BY DEF PasskeyInv, PasskeyTypeOK, SessionsStay, SameOrigin, SessionsTyped,
         SessionsNumbered, RowsAreNumbered
<1>3. PasskeyInv /\ UNCHANGED passkeys => PasskeysStay /\ PasskeysTyped'
  BY DEF PasskeyInv, PasskeyTypeOK, PasskeysStay, PasskeysTyped
<1>4. PasskeyInv /\ UNCHANGED tab => TabsTyped'
  BY DEF PasskeyInv, PasskeyTypeOK, TabsTyped
<1>5. PasskeyInv /\ UNCHANGED <<day, lowered>> => RestTyped'
  BY DEF PasskeyInv, PasskeyTypeOK, RestTyped
<1> QED BY <1>1, <1>2, <1>3, <1>4, <1>5

LEMMA LeaveTyped ==
  ASSUME PasskeyInv, NEW b \in Tabs, Leave(b)
  PROVE  TabsTyped' /\ \A d \in Tabs : tab'[d] = tab[d] \/ tab'[d].pc = "idle"
<1>1. IdleTab \in Tab /\ IdleTab.pc = "idle"
  BY DEF IdleTab, Tab
<1>2. tab' = [tab EXCEPT ![b] = IdleTab] /\ tab \in [Tabs -> Tab]
  BY DEF Leave, PasskeyInv, PasskeyTypeOK
<1> HIDE DEF IdleTab
<1> QED BY <1>1, <1>2 DEF TabsTyped

LEMMA MoveTyped ==
  ASSUME PasskeyInv, NEW b \in Tabs, NEW row \in Tab, tab' = [tab EXCEPT ![b] = row]
  PROVE  TabsTyped' /\ tab'[b] = row /\ \A d \in Tabs \ {b} : tab'[d] = tab[d]
BY DEF TabsTyped, PasskeyInv, PasskeyTypeOK

-----------------------------------------------------------------------------
LEMMA FinishInv ==
  ASSUME PasskeyInv, NEW b \in Tabs, NEW s \in DOMAIN tenantSessions,
         NEW c \in DOMAIN challenges, NEW k \in Credentials, FinishRegistration(b, s, c, k)
  PROVE  PasskeyInv'
<1> DEFINE t == tenantSessions[s].of
           row == [tab[b] EXCEPT !.pc = "store", !.key = k, !.challenge = c, !.of = t]
<1>1. /\ tab[b].pc = "idle" /\ challenges[c].kind = "register"
      /\ ~challenges[c].spent /\ challenges[c].of = t
  BY DEF FinishRegistration, Doing, Consumable
<1>2. c \in Nat /\ t \in Tenants /\ tab[b] \in Tab
  BY PasskeyBoundsAssumption DEF PasskeyInv, PasskeyTypeOK, Session
<1>3. /\ row \in Tab /\ row.pc = "store" /\ row.key = k /\ row.challenge = c /\ row.of = t
  BY <1>2 DEF Tab
<1>4. tab' = [tab EXCEPT ![b] = row]
  BY DEF FinishRegistration
<1>5. /\ ChallengesStay /\ ChallengesTyped' /\ ChallengesNumbered'
      /\ SpentNext(c, "register") /\ challenges'[c].of = t
  BY <1>1, SpendStays DEF FinishRegistration
<1>6. SessionsStay /\ SessionsTyped' /\ SessionsNumbered'
  BY SeenStays DEF FinishRegistration
<1>7. UNCHANGED <<passkeys, day, lowered>> /\ PasskeysStay /\ PasskeysTyped' /\ RestTyped'
  BY StayingStays DEF FinishRegistration
<1> HIDE DEF row, t
<1>8. TabsTyped' /\ tab'[b] = row /\ \A d \in Tabs \ {b} : tab'[d] = tab[d]
  BY <1>3, <1>4, MoveTyped
<1>9. TabFits(b)'
  <2>1. \A l \in DOMAIN passkeys : passkeys[l].challenge # c
    BY <1>1 DEF PasskeyInv, RowsFit, Spent
  <2> QED BY <1>2, <1>3, <1>5, <1>7, <1>8, <2>1 DEF TabFits, Spent, SpentNext
<1>10. \A d \in Tabs \ {b} : Apart(b, d)'
  <2>1. \A d \in Tabs : tab[d].pc = "store" => tab[d].challenge # c
    BY <1>1 DEF PasskeyInv, TabsFit, TabFits, Spent
  <2> QED BY <1>3, <1>8, <2>1 DEF Apart
<1>11. RowsFit' /\ TabsFit'
  BY <1>5, <1>6, <1>7, <1>8, <1>9, <1>10, MovingFits
<1> QED BY <1>5, <1>6, <1>7, <1>8, <1>11, InvNext

LEMMA ReadInv ==
  ASSUME PasskeyInv, NEW b \in Tabs, NEW k \in DOMAIN passkeys,
         NEW c \in DOMAIN challenges, ReadPasskey(b, k, c)
  PROVE  PasskeyInv'
<1> DEFINE row == [IdleTab EXCEPT !.pc = "spend", !.of = passkeys[k].of, !.key = k,
                                  !.challenge = c, !.held = passkeys[k].count,
                                  !.before = OpenedBy(k)]
<1>1. /\ c \in Nat /\ k \in Credentials /\ passkeys[k].of \in Tenants
      /\ passkeys[k].count \in Nat /\ OpenedBy(k) \subseteq DOMAIN tenantSessions
      /\ OpenedBy(k) \in SUBSET Nat
  BY PasskeyBoundsAssumption DEF PasskeyInv, PasskeyTypeOK, Passkey, OpenedBy
<1>2. /\ row \in Tab /\ row.pc = "spend" /\ row.of = passkeys[k].of /\ row.key = k
      /\ row.challenge = c /\ row.held = passkeys[k].count /\ row.before = OpenedBy(k)
  BY <1>1 DEF Tab, IdleTab
<1>3. tab' = [tab EXCEPT ![b] = row] /\ ~passkeys[k].removed
  BY DEF ReadPasskey
<1>4. /\ UNCHANGED <<day, challenges, passkeys, tenantSessions, lowered>>
      /\ ChallengesStay /\ ChallengesTyped' /\ ChallengesNumbered'
      /\ SessionsStay /\ SessionsTyped' /\ SessionsNumbered'
      /\ PasskeysStay /\ PasskeysTyped' /\ RestTyped'
  BY StayingStays DEF ReadPasskey
<1> HIDE DEF row
<1>5. TabsTyped' /\ tab'[b] = row /\ \A d \in Tabs \ {b} : tab'[d] = tab[d]
  BY <1>2, <1>3, MoveTyped
<1>6. TabFits(b)'
  <2>1. k \notin lowered => \A u \in OpenedBy(k) : tenantSessions[u].count <= passkeys[k].count
    BY <1>3 DEF PasskeyInv, RowsFit
  <2> QED BY <1>1, <1>2, <1>4, <1>5, <2>1 DEF TabFits
<1>7. \A d \in Tabs \ {b} : Apart(b, d)'
  BY <1>2, <1>5 DEF Apart
<1>8. RowsFit' /\ TabsFit'
  BY <1>4, <1>5, <1>6, <1>7, MovingFits
<1> QED BY <1>4, <1>5, <1>8, InvNext

LEMMA SpendInv ==
  ASSUME PasskeyInv, NEW b \in Tabs, SpendAssertion(b)
  PROVE  PasskeyInv'
<1>1. /\ UNCHANGED <<day, passkeys, tenantSessions, lowered>>
      /\ SessionsStay /\ SessionsTyped' /\ SessionsNumbered'
      /\ PasskeysStay /\ PasskeysTyped' /\ RestTyped'
  BY StayingStays DEF SpendAssertion
<1>2. CASE Leave(b) /\ UNCHANGED challenges
  <2>1. ChallengesStay /\ ChallengesTyped' /\ ChallengesNumbered'
    BY <1>2, StayingStays
  <2>2. TabsTyped' /\ \A d \in Tabs : tab'[d] = tab[d] \/ tab'[d].pc = "idle"
    BY <1>2, LeaveTyped
  <2>3. RowsFit' /\ TabsFit'
    BY <1>1, <2>1, <2>2, LeavingFits
  <2> QED BY <1>1, <2>1, <2>2, <2>3, InvNext
<1>3. ASSUME Consumable(tab[b].challenge, "authenticate", "nobody"),
             SpendChallenge(tab[b].challenge), Move(b, "count")
      PROVE  PasskeyInv'
  <2> DEFINE c == tab[b].challenge
             row == [tab[b] EXCEPT !.pc = "count"]
  <2>1. tab[b].pc = "spend" /\ tab[b] \in Tab /\ TabFits(b)
    BY DEF SpendAssertion, Doing, PasskeyInv, PasskeyTypeOK, TabsFit
  <2>2. /\ row \in Tab /\ row.pc = "count" /\ row.challenge = c /\ row.key = tab[b].key
        /\ row.of = tab[b].of /\ row.before = tab[b].before /\ row.held = tab[b].held
    BY <2>1 DEF Tab
  <2>3. c \in DOMAIN challenges
    BY <2>1 DEF TabFits
  <2>4. challenges[c].kind = "authenticate" /\ ~challenges[c].spent
    BY <1>3 DEF Consumable
  <2>5. /\ ChallengesStay /\ ChallengesTyped' /\ ChallengesNumbered'
        /\ SpentNext(c, "authenticate")
    BY <1>3, <2>3, <2>4, SpendStays
  <2>6. tab' = [tab EXCEPT ![b] = row]
    BY <1>3 DEF Move
  <2> HIDE DEF row, c
  <2>7. TabsTyped' /\ tab'[b] = row /\ \A d \in Tabs \ {b} : tab'[d] = tab[d]
    BY <2>2, <2>6, MoveTyped
  <2>8. TabFits(b)'
    <3>1. \A s \in Keyed : tenantSessions[s].challenge # c
      BY <2>4 DEF PasskeyInv, RowsFit, Spent
    <3>2. Keyed' = Keyed
      BY <1>1 DEF Keyed
    <3> QED BY <1>1, <2>1, <2>2, <2>5, <2>7, <3>1, <3>2 DEF TabFits, Spent, SpentNext
  <2>9. \A d \in Tabs \ {b} : Apart(b, d)'
    <3>1. \A d \in Tabs : tab[d].pc \in {"count", "mint"} => tab[d].challenge # c
      BY <2>4 DEF PasskeyInv, TabsFit, TabFits, Spent
    <3> QED BY <2>2, <2>7, <3>1 DEF Apart
  <2>10. RowsFit' /\ TabsFit'
    BY <1>1, <2>5, <2>7, <2>8, <2>9, MovingFits
  <2> QED BY <1>1, <2>5, <2>7, <2>10, InvNext
<1> QED BY <1>2, <1>3 DEF SpendAssertion

LEMMA StoreInv ==
  ASSUME PasskeyInv, NEW b \in Tabs, NEW count \in 0..MaxCount, StorePasskey(b, count)
  PROVE  PasskeyInv'
<1>1. /\ UNCHANGED <<day, challenges, tenantSessions, lowered>>
      /\ ChallengesStay /\ ChallengesTyped' /\ ChallengesNumbered'
      /\ SessionsStay /\ SessionsTyped' /\ SessionsNumbered' /\ RestTyped'
  BY StayingStays DEF StorePasskey
<1>2. TabsTyped' /\ \A d \in Tabs : tab'[d] = tab[d] \/ tab'[d].pc = "idle"
  BY LeaveTyped DEF StorePasskey
<1>3. CASE tab[b].key \in DOMAIN passkeys
  <2>1. PasskeysStay /\ PasskeysTyped'
    BY <1>3, StayingStays DEF StorePasskey
  <2>2. RowsFit' /\ TabsFit'
    BY <1>1, <1>2, <2>1, LeavingFits
  <2> QED BY <1>1, <1>2, <2>1, <2>2, InvNext
<1>4. CASE tab[b].key \notin DOMAIN passkeys
  <2> DEFINE key == tab[b].key
             c == tab[b].challenge
             row == [of |-> tab[b].of, count |-> count, removed |-> FALSE, challenge |-> c]
  <2>1. /\ tab[b].pc = "store" /\ tab[b] \in Tab /\ TabFits(b)
        /\ tab[b].of \in Tenants /\ key \in Credentials
    BY DEF StorePasskey, Doing, PasskeyInv, PasskeyTypeOK, TabsFit, TabFits
  <2>2. row \in Passkey /\ row.of = tab[b].of /\ row.challenge = c
    BY <2>1, PasskeyBoundsAssumption DEF Passkey, Tab
  <2>3. passkeys' = [k \in DOMAIN passkeys \cup {key} |->
                       IF k \in DOMAIN passkeys THEN passkeys[k] ELSE row]
    BY <1>4 DEF StorePasskey
  <2>4. /\ Spent(c, "register") /\ challenges[c].of = tab[b].of
        /\ \A k \in DOMAIN passkeys : passkeys[k].challenge # c
    BY <2>1 DEF TabFits
  <2>5. \A d \in Tabs : tab'[d].pc # "idle" => d # b
    BY DEF StorePasskey, Leave, IdleTab, PasskeyInv, PasskeyTypeOK
  <2>6. key \notin DOMAIN passkeys
    BY <1>4
  <2>7. \A d \in Tabs : tab[d].pc = "store" /\ tab[d].challenge = c => d = b
    BY <2>1 DEF PasskeyInv, TabsFit, Apart
  <2> HIDE DEF row, key, c
  <2>8. /\ DOMAIN passkeys' = DOMAIN passkeys \cup {key} /\ passkeys'[key] = row
        /\ \A k \in DOMAIN passkeys : passkeys'[k] = passkeys[k]
    BY <2>3, <2>6
  <2>9. PasskeysTyped'
    BY <2>1, <2>2, <2>8 DEF PasskeysTyped, PasskeyInv, PasskeyTypeOK
  <2>10. Keyed' = Keyed /\ \A k : OpenedBy(k)' = OpenedBy(k)
    BY <1>1 DEF Keyed, OpenedBy
  <2>11. OpenedBy(key) = {}
    BY <2>1, <2>6, PasskeysAssumption DEF OpenedBy, PasskeyInv, RowsFit, Keyed
  <2>12. RowsFit'
    <3>1. ASSUME NEW k \in DOMAIN passkeys'
          PROVE  /\ Spent(passkeys'[k].challenge, "register")
                 /\ challenges[passkeys'[k].challenge].of = passkeys'[k].of
                 /\ k \notin lowered /\ ~passkeys'[k].removed =>
                      \A s \in OpenedBy(k) : tenantSessions[s].count <= passkeys'[k].count
      <4>1. CASE k = key
        BY <4>1, <2>2, <2>4, <2>8, <2>11
      <4>2. CASE k # key
        BY <4>2, <2>8 DEF PasskeyInv, RowsFit
      <4> QED BY <4>1, <4>2
    <3>2. \A k, l \in DOMAIN passkeys' : passkeys'[k].challenge = passkeys'[l].challenge => k = l
      BY <2>2, <2>4, <2>8 DEF PasskeyInv, RowsFit
    <3>3. \A s \in Keyed :
            /\ tenantSessions[s].by \in DOMAIN passkeys'
            /\ tenantSessions[s].of = passkeys'[tenantSessions[s].by].of
            /\ Spent(tenantSessions[s].challenge, "authenticate")
      BY <2>8 DEF PasskeyInv, RowsFit
    <3>4. CountIsSpent'
      BY <1>1 DEF CountIsSpent, PasskeyInv, RowsFit
    <3>5. \A c_1, kind : Spent(c_1, kind)' <=> Spent(c_1, kind)
      BY <1>1 DEF Spent
    <3> QED BY <1>1, <2>10, <3>1, <3>2, <3>3, <3>4, <3>5 DEF PasskeyInv, RowsFit, Spent
  <2>13. ASSUME NEW d \in Tabs PROVE TabFits(d)'
    <3>1. CASE tab'[d].pc = "idle"
      BY <3>1 DEF TabFits
    <3>2. CASE tab'[d].pc # "idle"
      <4>1. tab'[d] = tab[d] /\ TabFits(d) /\ d # b
        BY <1>2, <2>5, <3>2 DEF PasskeyInv, TabsFit
      <4>2. tab[d].pc = "store" => tab[d].challenge # c
        BY <2>7, <4>1
      <4>3. CASE tab[d].pc = "store"
        BY <1>1, <2>2, <2>8, <4>1, <4>2, <4>3 DEF TabFits, Spent
      <4>4. CASE tab[d].pc # "store"
        BY <1>1, <2>8, <2>10, <4>1, <4>4 DEF TabFits, Spent
      <4> QED BY <4>3, <4>4
    <3> QED BY <3>1, <3>2
  <2>14. ASSUME NEW d \in Tabs, NEW e \in Tabs PROVE Apart(d, e)'
    BY <1>2 DEF Apart, PasskeyInv, TabsFit
  <2> QED BY <1>1, <1>2, <2>9, <2>12, <2>13, <2>14, InvNext DEF TabsFit
<1> QED BY <1>3, <1>4

LEMMA MintInv ==
  ASSUME PasskeyInv, NEW b \in Tabs, MintByPasskey(b)
  PROVE  PasskeyInv'
<1> DEFINE key == tab[b].key
           c == tab[b].challenge
           before == tab[b].before
           row == [of |-> tab[b].of, born |-> day, seen |-> day, revoked |-> FALSE,
                   by |-> key, challenge |-> c, count |-> tab[b].count, before |-> before]
<1>1. /\ UNCHANGED <<day, challenges, passkeys, lowered>>
      /\ ChallengesStay /\ ChallengesTyped' /\ ChallengesNumbered'
      /\ PasskeysStay /\ PasskeysTyped' /\ RestTyped'
  BY StayingStays DEF MintByPasskey
<1>2. TabsTyped' /\ \A d \in Tabs : tab'[d] = tab[d] \/ tab'[d].pc = "idle"
  BY LeaveTyped DEF MintByPasskey
<1>3. tab[b].pc = "mint" /\ tab[b] \in Tab /\ TabFits(b) /\ day \in Nat
  BY PasskeyBoundsAssumption DEF MintByPasskey, Doing, PasskeyInv, PasskeyTypeOK, TabsFit
<1>4. /\ key \in DOMAIN passkeys /\ tab[b].of = passkeys[key].of
      /\ before \subseteq DOMAIN tenantSessions /\ Spent(c, "authenticate")
      /\ \A s \in Keyed : tenantSessions[s].challenge # c
      /\ key \notin lowered =>
           /\ ~passkeys[key].removed => tab[b].count <= passkeys[key].count
           /\ tab[b].count > 0 => \A u \in before : tenantSessions[u].count < tab[b].count
  BY <1>3 DEF TabFits
<1>5. key # "code" /\ tab[b].of \in Tenants /\ key \in Credentials
  BY <1>4, PasskeysAssumption DEF PasskeyInv, PasskeyTypeOK, Passkey
<1>6. /\ row \in Session /\ row.of = tab[b].of /\ row.by = key /\ row.challenge = c
      /\ row.count = tab[b].count /\ row.before = before
  BY <1>3, <1>5 DEF Session, Tab
<1>7. PICK n \in Nat : DOMAIN tenantSessions = 1..n
  BY DEF PasskeyInv, RowsAreNumbered
<1>8. /\ tenantSessions' = Added(tenantSessions, row)
      /\ Cardinality(DOMAIN tenantSessions) < MaxSessions /\ MaxSessions \in Nat
  BY PasskeyBoundsAssumption DEF MintByPasskey, HasRoom
<1>9. \A d \in Tabs : tab'[d].pc # "idle" => d # b
  BY DEF MintByPasskey, Leave, IdleTab, PasskeyInv, PasskeyTypeOK
<1>10. \A d \in Tabs : tab[d].pc \in {"count", "mint"} /\ tab[d].challenge = c => d = b
  BY <1>3 DEF PasskeyInv, TabsFit, Apart
<1> HIDE DEF row, key, c, before
<1> DEFINE m == n + 1
<1>11. /\ Cardinality(DOMAIN tenantSessions) = n
       /\ DOMAIN tenantSessions' = 1..m
       /\ \A i \in DOMAIN tenantSessions : tenantSessions'[i] = tenantSessions[i]
       /\ m \notin DOMAIN tenantSessions /\ tenantSessions'[m] = row
  <2>1. /\ Cardinality(DOMAIN tenantSessions) = n
        /\ DOMAIN Added(tenantSessions, row) = 1..(n + 1)
        /\ \A i \in DOMAIN tenantSessions : Added(tenantSessions, row)[i] = tenantSessions[i]
        /\ n + 1 \notin DOMAIN tenantSessions /\ Added(tenantSessions, row)[n + 1] = row
    BY <1>7, AddedRow
  <2> QED BY <1>8, <2>1
<1>12. DOMAIN tenantSessions' = DOMAIN tenantSessions \cup {m}
  BY <1>7, <1>11
<1>13. SessionsTyped' /\ SessionsNumbered'
  <2>1. DOMAIN tenantSessions' \subseteq 1..MaxSessions
    BY <1>8, <1>11
  <2>2. \A s \in DOMAIN tenantSessions' : tenantSessions'[s] \in Session
    BY <1>6, <1>11, <1>12 DEF PasskeyInv, PasskeyTypeOK
  <2> QED BY <1>7, <1>11, <2>1, <2>2 DEF SessionsTyped, SessionsNumbered
<1> HIDE DEF m
<1>14. /\ Keyed' = Keyed \cup {m} /\ Keyed \subseteq DOMAIN tenantSessions
       /\ \A k : k # key => OpenedBy(k)' = OpenedBy(k)
       /\ \A k : k = key => OpenedBy(k)' = OpenedBy(k) \cup {m}
       /\ \A k : OpenedBy(k) \subseteq DOMAIN tenantSessions
  <2>1. tenantSessions'[m].by = key /\ m \in DOMAIN tenantSessions'
    BY <1>6, <1>11, <1>12
  <2>2. Keyed' = Keyed \cup {m}
    BY <1>5, <1>11, <1>12, <2>1 DEF Keyed
  <2>3. \A k : k # key => OpenedBy(k)' = OpenedBy(k)
    BY <1>11, <1>12, <2>1 DEF OpenedBy
  <2>4. \A k : k = key => OpenedBy(k)' = OpenedBy(k) \cup {m}
    BY <1>11, <1>12, <2>1 DEF OpenedBy
  <2> QED BY <2>2, <2>3, <2>4 DEF Keyed, OpenedBy
<1>15. RowsFit'
  <2>1. ASSUME NEW k \in DOMAIN passkeys, k \notin lowered, ~passkeys[k].removed
        PROVE  \A s \in OpenedBy(k)' : tenantSessions'[s].count <= passkeys[k].count
    BY <1>4, <1>6, <1>11, <1>14, <2>1 DEF PasskeyInv, RowsFit
  <2>2. ASSUME NEW s \in Keyed'
        PROVE  /\ tenantSessions'[s].by \in DOMAIN passkeys
               /\ tenantSessions'[s].of = passkeys[tenantSessions'[s].by].of
               /\ Spent(tenantSessions'[s].challenge, "authenticate")
    BY <1>4, <1>6, <1>11, <1>14 DEF PasskeyInv, RowsFit
  <2>3. \A s, u \in Keyed' :
          tenantSessions'[s].challenge = tenantSessions'[u].challenge => s = u
    BY <1>4, <1>6, <1>11, <1>14 DEF PasskeyInv, RowsFit
  <2>4. \A s \in DOMAIN tenantSessions' :
          tenantSessions'[s].before \subseteq DOMAIN tenantSessions
    BY <1>4, <1>6, <1>11, <1>12 DEF PasskeyInv, RowsFit
  <2>5. CountIsSpent'
    <3> SUFFICES ASSUME NEW s \in DOMAIN tenantSessions', NEW u \in tenantSessions'[s].before,
                        tenantSessions'[s].by \notin lowered, tenantSessions'[s].count > 0
                 PROVE  tenantSessions'[s].count > tenantSessions'[u].count
      BY <1>1 DEF CountIsSpent
    <3>1. u \in DOMAIN tenantSessions /\ tenantSessions'[u] = tenantSessions[u]
      BY <2>4, <1>11
    <3>2. CASE s = m
      BY <1>4, <1>6, <1>11, <3>1, <3>2, <1>3 DEF Tab, PasskeyInv, PasskeyTypeOK, Session
    <3>3. CASE s # m
      BY <1>11, <1>12, <3>1, <3>3 DEF PasskeyInv, RowsFit, CountIsSpent
    <3> QED BY <3>2, <3>3
  <2> QED BY <1>1, <1>12, <2>1, <2>2, <2>3, <2>4, <2>5 DEF PasskeyInv, RowsFit, Spent
<1>16. ASSUME NEW d \in Tabs PROVE TabFits(d)'
  <2>1. CASE tab'[d].pc = "idle"
    BY <2>1 DEF TabFits
  <2>2. CASE tab'[d].pc # "idle"
    <3>1. tab'[d] = tab[d] /\ TabFits(d) /\ d # b
      BY <1>2, <1>9, <2>2 DEF PasskeyInv, TabsFit
    <3>2. tab[d].pc \in {"count", "mint"} =>
            \A s \in Keyed' : tenantSessions'[s].challenge # tab[d].challenge
      BY <1>6, <1>10, <1>11, <1>14, <3>1 DEF TabFits
    <3>3. tab[d].pc \in {"spend", "count", "mint"} =>
            /\ tab[d].before \subseteq DOMAIN tenantSessions'
            /\ \A u \in tab[d].before : tenantSessions'[u] = tenantSessions[u]
      BY <1>11, <1>12, <3>1 DEF TabFits
    <3>4. CASE tab[d].pc = "store"
      BY <1>1, <3>1, <3>4 DEF TabFits, Spent
    <3>5. CASE tab[d].pc # "store"
      BY <1>1, <3>1, <3>2, <3>3, <3>5 DEF TabFits, Spent
    <3> QED BY <3>4, <3>5
  <2> QED BY <2>1, <2>2
<1>17. ASSUME NEW d \in Tabs, NEW e \in Tabs PROVE Apart(d, e)'
  BY <1>2 DEF Apart, PasskeyInv, TabsFit
<1> QED BY <1>1, <1>2, <1>13, <1>15, <1>16, <1>17, InvNext DEF TabsFit

LEMMA CountInv ==
  ASSUME PasskeyInv, NEW b \in Tabs, NEW count \in 0..MaxCount, WriteCount(b, count)
  PROVE  PasskeyInv'
<1>1. PICK k : k = tab[b].key
  OBVIOUS
<1>2. PICK held : held = tab[b].held
  OBVIOUS
<1>3. /\ UNCHANGED <<day, challenges, tenantSessions>>
      /\ ChallengesStay /\ ChallengesTyped' /\ ChallengesNumbered'
      /\ SessionsStay /\ SessionsTyped' /\ SessionsNumbered'
  BY StayingStays DEF WriteCount
<1>4. tab[b].pc = "count" /\ tab[b] \in Tab /\ TabFits(b) /\ count \in Nat /\ held \in Nat
  BY <1>2, PasskeyBoundsAssumption
     DEF WriteCount, Doing, PasskeyInv, PasskeyTypeOK, TabsFit, Tab
<1>5. k \in DOMAIN passkeys /\ passkeys[k] \in Passkey /\ k \in Credentials
  BY <1>1, <1>4 DEF TabFits, PasskeyInv, PasskeyTypeOK
<1>6. CASE ~CountRises(count, held)
  <2>1. Leave(b) /\ UNCHANGED <<passkeys, lowered>>
    BY <1>2, <1>6 DEF WriteCount
  <2>2. PasskeysStay /\ PasskeysTyped' /\ RestTyped'
    BY <1>3, <2>1, StayingStays
  <2>3. TabsTyped' /\ \A d \in Tabs : tab'[d] = tab[d] \/ tab'[d].pc = "idle"
    BY <2>1, LeaveTyped
  <2>4. RowsFit' /\ TabsFit'
    BY <1>3, <2>1, <2>2, <2>3, LeavingFits
  <2> QED BY <1>3, <2>2, <2>3, <2>4, InvNext
<1>7. CASE CountRises(count, held)
  <2> DEFINE row == [tab[b] EXCEPT !.pc = "mint", !.count = count]
             writes == count > held /\ ~passkeys[k].removed
             new == [passkeys[k] EXCEPT !.count = count]
  <2>1. /\ row \in Tab /\ row.pc = "mint" /\ row.count = count /\ row.key = k
        /\ row.held = held /\ row.of = tab[b].of /\ row.challenge = tab[b].challenge
        /\ row.before = tab[b].before
    BY <1>1, <1>2, <1>4 DEF Tab
  <2>2. tab' = [tab EXCEPT ![b] = row]
    BY <1>2, <1>7 DEF WriteCount
  <2>3. /\ new \in Passkey /\ new.of = passkeys[k].of /\ new.removed = passkeys[k].removed
        /\ new.challenge = passkeys[k].challenge /\ new.count = count
    BY <1>4, <1>5 DEF Passkey
  <2>4. /\ writes => /\ passkeys' = [passkeys EXCEPT ![k] = new]
                     /\ lowered' = IF count < passkeys[k].count THEN lowered \cup {k} ELSE lowered
        /\ ~writes => UNCHANGED <<passkeys, lowered>>
    BY <1>1, <1>2, <1>7 DEF WriteCount
  <2> HIDE DEF row, new
  <2>5. TabsTyped' /\ tab'[b] = row /\ \A d \in Tabs \ {b} : tab'[d] = tab[d]
    BY <2>1, <2>2, MoveTyped
  <2>6. /\ DOMAIN passkeys' = DOMAIN passkeys
        /\ \A l \in DOMAIN passkeys :
             /\ l # k => passkeys'[l] = passkeys[l]
             /\ passkeys'[l].of = passkeys[l].of
             /\ passkeys'[l].challenge = passkeys[l].challenge
             /\ passkeys'[l].removed = passkeys[l].removed
             /\ passkeys'[l] \in Passkey
    BY <1>5, <2>3, <2>4 DEF PasskeyInv, PasskeyTypeOK
  <2>7. lowered \subseteq lowered' /\ lowered' \subseteq Credentials
    BY <1>5, <2>4 DEF PasskeyInv, PasskeyTypeOK
  <2>8. /\ k \notin lowered' => passkeys[k].count <= passkeys'[k].count
        /\ writes => passkeys'[k].count = count
        /\ ~writes => passkeys'[k] = passkeys[k]
    BY <1>4, <1>5, <2>3, <2>4 DEF Passkey
  <2>9. PasskeysTyped' /\ RestTyped'
    BY <1>3, <2>6, <2>7 DEF PasskeysTyped, RestTyped, PasskeyInv, PasskeyTypeOK
  <2>10. \A s \in DOMAIN tenantSessions : tenantSessions[s].count \in Nat
    BY DEF PasskeyInv, PasskeyTypeOK, Session
  <2>11. \A l \in DOMAIN passkeys : passkeys[l].count \in Nat /\ passkeys'[l].count \in Nat
    BY <2>6 DEF PasskeyInv, PasskeyTypeOK, Passkey
  <2>12. \A l \in DOMAIN passkeys : l \notin lowered' => passkeys[l].count <= passkeys'[l].count
    BY <2>6, <2>8, <2>11
  <2>13. Keyed' = Keyed /\ \A l : OpenedBy(l)' = OpenedBy(l)
    BY <1>3 DEF Keyed, OpenedBy
  <2>14. RowsFit'
    <3>1. ASSUME NEW l \in DOMAIN passkeys
          PROVE  /\ Spent(passkeys'[l].challenge, "register")
                 /\ challenges[passkeys'[l].challenge].of = passkeys'[l].of
                 /\ l \notin lowered' /\ ~passkeys'[l].removed =>
                      \A s \in OpenedBy(l) : tenantSessions[s].count <= passkeys'[l].count
      <4>1. l \notin lowered' /\ ~passkeys'[l].removed =>
              \A s \in OpenedBy(l) : tenantSessions[s].count <= passkeys[l].count
        BY <2>6, <2>7 DEF PasskeyInv, RowsFit
      <4>2. \A s \in OpenedBy(l) : tenantSessions[s].count \in Nat
        BY <2>10 DEF OpenedBy
      <4> QED BY <2>6, <2>11, <2>12, <4>1, <4>2 DEF PasskeyInv, RowsFit
    <3>2. \A l, j \in DOMAIN passkeys' : passkeys'[l].challenge = passkeys'[j].challenge => l = j
      BY <2>6 DEF PasskeyInv, RowsFit
    <3>3. \A s \in Keyed :
            /\ tenantSessions[s].by \in DOMAIN passkeys'
            /\ tenantSessions[s].of = passkeys'[tenantSessions[s].by].of
            /\ Spent(tenantSessions[s].challenge, "authenticate")
      BY <2>6 DEF PasskeyInv, RowsFit
    <3>4. CountIsSpent'
      BY <1>3, <2>7 DEF CountIsSpent, PasskeyInv, RowsFit
    <3> QED BY <1>3, <2>6, <2>13, <3>1, <3>2, <3>3, <3>4 DEF PasskeyInv, RowsFit, Spent
  <2>15. TabFits(b)'
    <3>1. /\ tab[b].before \subseteq DOMAIN tenantSessions
          /\ k \notin lowered => \A u \in tab[b].before : tenantSessions[u].count <= held
      BY <1>1, <1>2, <1>4 DEF TabFits
    <3>2. \A u \in tab[b].before : tenantSessions[u].count \in Nat
      BY <2>10, <3>1
    <3>3. count > 0 => held = 0 \/ count > held
      BY <1>7 DEF CountRises
    <3>4. k \notin lowered' /\ count > 0 =>
            \A u \in tab[b].before : tenantSessions[u].count < count
      BY <1>4, <2>7, <3>1, <3>2, <3>3
    <3>5. ~passkeys'[k].removed => count <= passkeys'[k].count
      <4>1. CASE writes
        BY <1>4, <2>8, <4>1
      <4>2. CASE ~writes
        <5>1. count = 0 \/ passkeys[k].removed
          BY <1>4, <3>3, <4>2
        <5> QED BY <1>5, <2>6, <2>11, <5>1
      <4> QED BY <4>1, <4>2
    <3>6. /\ tab[b].challenge \in DOMAIN challenges /\ tab[b].of = passkeys[k].of
          /\ Spent(tab[b].challenge, "authenticate")
          /\ \A s \in Keyed : tenantSessions[s].challenge # tab[b].challenge
      BY <1>1, <1>4 DEF TabFits
    <3> QED BY <1>3, <1>5, <2>1, <2>5, <2>6, <2>7, <2>13, <3>1, <3>4, <3>5, <3>6
            DEF TabFits, Spent
  <2>16. ASSUME NEW d \in Tabs \ {b} PROVE TabFits(d)'
    <3>1. tab'[d] = tab[d] /\ TabFits(d) /\ tab[d] \in Tab
      BY <2>5 DEF PasskeyInv, PasskeyTypeOK, TabsFit
    <3>2. CASE tab[d].pc = "store"
      BY <1>3, <2>6, <3>1, <3>2 DEF TabFits, Spent
    <3>3. CASE tab[d].pc \in {"spend", "count", "mint"}
      <4>1. tab[d].key \in DOMAIN passkeys
        BY <3>1, <3>3 DEF TabFits
      <4>2. tab[d].pc = "mint" /\ tab[d].key \notin lowered' /\ ~passkeys'[tab[d].key].removed
              => tab[d].count <= passkeys'[tab[d].key].count
        <5> SUFFICES ASSUME tab[d].pc = "mint", tab[d].key \notin lowered',
                            ~passkeys'[tab[d].key].removed
                     PROVE  tab[d].count <= passkeys'[tab[d].key].count
          OBVIOUS
        <5>1. tab[d].count <= passkeys[tab[d].key].count
          BY <2>6, <2>7, <3>1, <4>1 DEF TabFits
        <5>2. passkeys[tab[d].key].count <= passkeys'[tab[d].key].count
          BY <2>12, <4>1
        <5>3. tab[d].count \in Nat
          BY <3>1 DEF Tab
        <5> QED BY <2>11, <4>1, <5>1, <5>2, <5>3
      <4> QED BY <1>3, <2>6, <2>7, <2>13, <3>1, <3>3, <4>1, <4>2 DEF TabFits, Spent
    <3>4. CASE tab[d].pc = "idle"
      BY <3>1, <3>4 DEF TabFits
    <3> QED BY <3>1, <3>2, <3>3, <3>4 DEF Tab
  <2>17. ASSUME NEW d \in Tabs, NEW e \in Tabs PROVE Apart(d, e)'
    <3>1. /\ tab'[d].challenge = tab[d].challenge /\ tab'[e].challenge = tab[e].challenge
          /\ tab'[d].pc = tab[d].pc \/ {tab'[d].pc, tab[d].pc} \subseteq {"count", "mint"}
          /\ tab'[e].pc = tab[e].pc \/ {tab'[e].pc, tab[e].pc} \subseteq {"count", "mint"}
      BY <1>4, <2>1, <2>5
    <3>2. Apart(d, e)
      BY DEF PasskeyInv, TabsFit
    <3> QED BY <3>1, <3>2 DEF Apart
  <2> QED BY <1>3, <2>5, <2>9, <2>14, <2>15, <2>16, <2>17, InvNext DEF TabsFit
<1> QED BY <1>6, <1>7

LEMMA PasskeyInitInv == PasskeyInit => PasskeyInv
<1> SUFFICES ASSUME PasskeyInit PROVE PasskeyInv
  OBVIOUS
<1>1. /\ day = 0 /\ lowered = {} /\ \A b \in Tabs : tab[b] = IdleTab
      /\ tab = [b \in Tabs |-> IdleTab] /\ IdleTab \in Tab /\ IdleTab.pc = "idle"
      /\ MaxDay \in Nat /\ CeremonyTtl \in Nat
  BY PasskeyBoundsAssumption DEF PasskeyInit, IdleTab, Tab
<1>2. \A t \in Tenants : /\ CodeSession(t) \in Session /\ CodeSession(t).by = "code"
                         /\ CodeSession(t).before = {}
  BY DEF CodeSession, Session
<1>3. TabsTyped /\ RestTyped /\ TabsFit
  <2>1. TabsTyped /\ RestTyped
    BY <1>1 DEF TabsTyped, RestTyped
  <2> QED BY <1>1, <2>1 DEF TabsFit, TabFits, Apart
<1>4. CASE \E t, u \in Tenants : t # u /\ tenantSessions = <<CodeSession(t), CodeSession(u)>>
           /\ challenges = <<>> /\ passkeys = <<>>
  <2>1. PICK t, u \in Tenants : tenantSessions = <<CodeSession(t), CodeSession(u)>>
    BY <1>4
  <2> DEFINE p == CodeSession(t)
             q == CodeSession(u)
  <2>2. p \in Session /\ p.by = "code" /\ p.before = {} /\ q \in Session /\ q.by = "code" /\ q.before = {}
    BY <1>2
  <2> HIDE DEF p, q
  <2>3. /\ DOMAIN tenantSessions = 1..2
        /\ \A s \in DOMAIN tenantSessions : tenantSessions[s] \in {p, q}
    BY <2>1 DEF p, q
  <2>4. DOMAIN challenges = {} /\ DOMAIN passkeys = {} /\ {} = 1..0
    BY <1>4
  <2>5. RowsFit
    BY <2>2, <2>3, <2>4 DEF RowsFit, Keyed, CountIsSpent
  <2>6. ChallengesTyped /\ PasskeysTyped
    BY <2>4 DEF ChallengesTyped, PasskeysTyped
  <2>7. SessionsTyped
    BY <2>2, <2>3, PasskeyBoundsAssumption DEF SessionsTyped
  <2>8. RowsAreNumbered
    BY <2>3, <2>4 DEF RowsAreNumbered
  <2> QED BY <1>3, <2>5, <2>6, <2>7, <2>8, InvNow
<1>5. ASSUME NEW t \in Tenants, NEW k \in Credentials,
             tenantSessions = <<CodeSession(t)>>,
             challenges = <<[kind |-> "register", of |-> t, expires |-> CeremonyTtl,
                             spent |-> TRUE]>>,
             passkeys = [l \in {k} |->
               [of |-> t, count |-> 0, removed |-> FALSE, challenge |-> 1]]
      PROVE  PasskeyInv
  <2> DEFINE p == CodeSession(t)
             c == [kind |-> "register", of |-> t, expires |-> CeremonyTtl, spent |-> TRUE]
             key == [of |-> t, count |-> 0, removed |-> FALSE, challenge |-> 1]
  <2>1. /\ p \in Session /\ p.by = "code" /\ p.before = {} /\ p.count = 0
        /\ c \in Challenge /\ c.kind = "register" /\ c.of = t /\ c.spent
        /\ key \in Passkey /\ key.of = t /\ key.challenge = 1 /\ key.count = 0
    BY <1>1, <1>2 DEF CodeSession, Challenge, Passkey
  <2>2. tenantSessions = <<p>> /\ challenges = <<c>> /\ passkeys = [l \in {k} |-> key]
    BY <1>5
  <2> HIDE DEF p, c, key
  <2>3. /\ DOMAIN tenantSessions = 1..1 /\ tenantSessions[1] = p
        /\ DOMAIN challenges = 1..1 /\ challenges[1] = c
        /\ DOMAIN passkeys = {k} /\ passkeys[k] = key
    BY <2>2
  <2>4. RowsFit
    BY <2>1, <2>3 DEF RowsFit, Keyed, CountIsSpent, Spent, OpenedBy
  <2>5. ChallengesTyped /\ PasskeysTyped /\ SessionsTyped
    BY <2>1, <2>3, PasskeyBoundsAssumption DEF ChallengesTyped, PasskeysTyped, SessionsTyped
  <2>6. RowsAreNumbered
    BY <2>3 DEF RowsAreNumbered
  <2> QED BY <1>3, <2>4, <2>5, <2>6, InvNow
<1> QED BY <1>4, <1>5 DEF PasskeyInit

LEMMA PasskeyNextInv == PasskeyInv /\ [PasskeyNext]_passkeyVars => PasskeyInv'
<1> SUFFICES ASSUME PasskeyInv, [PasskeyNext]_passkeyVars PROVE PasskeyInv'
  OBVIOUS
<1>1. ASSUME NEW s \in DOMAIN tenantSessions, BeginRegistration(s) PROVE PasskeyInv'
  <2>1. tenantSessions[s].of \in Tenants \cup {"nobody"}
    BY DEF PasskeyInv, PasskeyTypeOK, Session
  <2>2. /\ ChallengesStay /\ ChallengesTyped' /\ ChallengesNumbered'
        /\ SessionsStay /\ SessionsTyped' /\ SessionsNumbered'
        /\ PasskeysStay /\ PasskeysTyped' /\ TabsTyped' /\ RestTyped'
    BY <1>1, <2>1, IssueStays, SeenStays, StayingStays DEF BeginRegistration
  <2>3. RowsFit' /\ TabsFit'
    BY <1>1, <2>2, LeavingFits DEF BeginRegistration
  <2> QED BY <2>2, <2>3, InvNext
<1>2. ASSUME NEW s \in DOMAIN tenantSessions, RevokeEvery(s) \/ RevokeOne(s) PROVE PasskeyInv'
  <2>1. UNCHANGED <<day, challenges, passkeys, tab, lowered>>
    BY <1>2 DEF RevokeEvery, RevokeOne
  <2>2. /\ ChallengesStay /\ ChallengesTyped' /\ ChallengesNumbered'
        /\ SessionsStay /\ SessionsTyped' /\ SessionsNumbered'
        /\ PasskeysStay /\ PasskeysTyped' /\ TabsTyped' /\ RestTyped'
    BY <1>2, <2>1, RevokeStays, StayingStays
  <2>3. RowsFit' /\ TabsFit'
    BY <2>1, <2>2, LeavingFits
  <2> QED BY <2>2, <2>3, InvNext
<1>3. ASSUME NEW s \in DOMAIN tenantSessions, NEW k \in DOMAIN passkeys, RemovePasskey(s, k)
      PROVE  PasskeyInv'
  <2>1. /\ ChallengesStay /\ ChallengesTyped' /\ ChallengesNumbered'
        /\ SessionsStay /\ SessionsTyped' /\ SessionsNumbered'
        /\ PasskeysStay /\ PasskeysTyped' /\ TabsTyped' /\ RestTyped'
    BY <1>3, SeenStays, RemoveStays, StayingStays DEF RemovePasskey
  <2>2. RowsFit' /\ TabsFit'
    BY <1>3, <2>1, LeavingFits DEF RemovePasskey
  <2> QED BY <2>1, <2>2, InvNext
<1>4. CASE BeginAuthentication
  <2>1. /\ ChallengesStay /\ ChallengesTyped' /\ ChallengesNumbered'
        /\ SessionsStay /\ SessionsTyped' /\ SessionsNumbered'
        /\ PasskeysStay /\ PasskeysTyped' /\ TabsTyped' /\ RestTyped'
    BY <1>4, IssueStays, StayingStays DEF BeginAuthentication
  <2>2. RowsFit' /\ TabsFit'
    BY <1>4, <2>1, LeavingFits DEF BeginAuthentication
  <2> QED BY <2>1, <2>2, InvNext
<1>5. CASE DayPasses \/ UNCHANGED passkeyVars
  <2>1. UNCHANGED <<challenges, passkeys, tenantSessions, tab, lowered>>
    BY <1>5 DEF DayPasses, passkeyVars
  <2>2. RestTyped'
    BY <1>5, PasskeyBoundsAssumption
       DEF DayPasses, passkeyVars, RestTyped, PasskeyInv, PasskeyTypeOK
  <2>3. /\ ChallengesStay /\ ChallengesTyped' /\ ChallengesNumbered'
        /\ SessionsStay /\ SessionsTyped' /\ SessionsNumbered'
        /\ PasskeysStay /\ PasskeysTyped' /\ TabsTyped'
    BY <2>1, StayingStays
  <2>4. RowsFit' /\ TabsFit'
    BY <2>1, <2>3, LeavingFits
  <2> QED BY <2>2, <2>3, <2>4, InvNext
<1> QED BY <1>1, <1>2, <1>3, <1>4, <1>5,
           FinishInv, StoreInv, CountInv, ReadInv, SpendInv, MintInv DEF PasskeyNext

(* Every challenge, passkey, session and request under way keeps its type. *)
THEOREM PasskeyTypeCorrect == PasskeySpec => []PasskeyTypeOK
<1>1. PasskeyInv => PasskeyTypeOK
  BY DEF PasskeyInv
<1> QED BY <1>1, PasskeyInitInv, PasskeyNextInv, PTL DEF PasskeySpec

(* However ceremonies overlap: a challenge brings one passkey or one       *)
(* session, of the tenant it was for, and a later sign-in by a passkey     *)
(* needs a higher count unless two that overlapped lowered it.             *)
THEOREM PasskeysSpendOnce == PasskeySpec => []PasskeysAreSpentOnce
<1>1. PasskeyInv => PasskeysAreSpentOnce
  BY DEF PasskeyInv, RowsFit, Keyed, Spent, PasskeysAreSpentOnce, ChallengeIsSpentOnce
<1> QED BY <1>1, PasskeyInitInv, PasskeyNextInv, PTL DEF PasskeySpec

-----------------------------------------------------------------------------
(* The calls a tenant sees.  Whatever was printed, stored or told under    *)
(* the session is about calls that are the number's, until the office or   *)
(* the number moves them.                                                  *)
Ours(c) ==
  c \in upset \/ (tickets[c].requester = number /\ ~tickets[c].returned)

MailFits ==
  \A k \in DOMAIN mail :
    /\ mail[k].at = "on" <=> mail[k].ticket # Nothing
    /\ mail[k].ticket # Nothing => Ours(mail[k].ticket)

FormsFit ==
  \A k \in DOMAIN forms : forms[k].about # Nothing => Ours(forms[k].about)

AnswerFits(k, answer) ==
  answer.word = "call" =>
    /\ answer.ticket # Nothing /\ Ours(answer.ticket)
    /\ k \in DOMAIN mail /\ mail[k].ticket # Nothing
    /\ MergedInto(answer.ticket, mail[k].ticket)
AnswersFit == \A k \in DOMAIN answers : AnswerFits(k, answers[k])

\* The call a settled press goes on from is read, and closed.
GoesOnFrom(k, pred) ==
  k \notin closedBetween /\ forms[k].about # Nothing =>
    pred = forms[k].about /\ ~Live(forms[k].about)

PressFits(p) ==
  /\ p.key \in DOMAIN forms
  /\ p.pc # "store" => p.key \in DOMAIN mail
  /\ p.open # Nothing => Ours(p.open)
  /\ p.pc = "attach" => p.open # Nothing
  /\ p.pc = "sort" => p.key \in closedBetween
  /\ p.pc = "settle" => GoesOnFrom(p.key, p.pred)
PressesFit == \A r \in DOMAIN presses : PressFits(presses[r])

TicketsFit ==
  \A c \in Tickets :
    LET k == tickets[c].opener IN
    /\ Live(c) => tickets[c].survivor = Nothing
    /\ ~Live(c) => tickets[c].exit \in TenantExits
    /\ k # Nothing =>
         /\ k \in DOMAIN forms /\ k \in DOMAIN mail /\ mail[k].ticket # Nothing
         /\ GoesOnFrom(k, tickets[c].predecessor)

CallsInv ==
  /\ PortalCallsTypeOK /\ MailFits /\ FormsFit /\ AnswersFit /\ PressesFit
  /\ TicketsFit /\ OneCallPerKey

-----------------------------------------------------------------------------
LEMMA TicketsTyped ==
  ASSUME PortalCallsTypeOK
  PROVE  /\ Len(tickets) \in Nat /\ Tickets = 1..Len(tickets) /\ Len(tickets) <= MaxTickets
         /\ \A c \in Tickets : tickets[c] \in Ticket
         /\ Nothing \notin Tickets /\ Nothing \notin Persons
         /\ Nothing \notin PostKeys /\ Nothing \notin Homes
BY NothingAssumption DEF PortalCallsTypeOK, Tickets

LEMMA OneTicketMoves ==
  ASSUME PortalCallsTypeOK, NEW c \in Tickets, NEW t \in Ticket,
         tickets' = [tickets EXCEPT ![c] = t]
  PROVE  /\ Tickets' = Tickets /\ tickets' \in Seq(Ticket') /\ Len(tickets') <= MaxTickets
         /\ tickets'[c] = t
         /\ \A d \in Tickets : d # c => tickets'[d] = tickets[d]
<1>1. /\ Len(tickets) \in Nat /\ Tickets = 1..Len(tickets) /\ Len(tickets) <= MaxTickets
      /\ tickets \in Seq(Ticket)
  BY TicketsTyped DEF PortalCallsTypeOK
<1>2. tickets' \in Seq(Ticket) /\ Len(tickets') = Len(tickets)
  BY <1>1 DEF Tickets
<1>3. Tickets' = Tickets
  BY <1>1, <1>2 DEF Tickets
<1>4. Ticket' = Ticket
  BY <1>3 DEF Ticket
<1> QED BY <1>1, <1>2, <1>3, <1>4 DEF Tickets

LEMMA OneTicketIsOpened ==
  ASSUME PortalCallsTypeOK, NEW t \in Ticket, Len(tickets) + 1 <= MaxTickets,
         tickets' = Append(tickets, t)
  PROVE  /\ Tickets' = Tickets \cup {Len(tickets) + 1} /\ tickets' \in Seq(Ticket')
         /\ Len(tickets') <= MaxTickets
         /\ Len(tickets) + 1 \notin Tickets /\ tickets'[Len(tickets) + 1] = t
         /\ \A d \in Tickets : tickets'[d] = tickets[d]
<1>1. /\ Len(tickets) \in Nat /\ Tickets = 1..Len(tickets) /\ tickets \in Seq(Ticket)
  BY TicketsTyped DEF PortalCallsTypeOK
<1>2. /\ tickets' \in Seq(Ticket) /\ Len(tickets') = Len(tickets) + 1
      /\ tickets'[Len(tickets) + 1] = t /\ \A d \in 1..Len(tickets) : tickets'[d] = tickets[d]
  BY <1>1, AppendProperties
<1>3. Tickets' = Tickets \cup {Len(tickets) + 1} /\ Len(tickets) + 1 \notin Tickets
  BY <1>1, <1>2 DEF Tickets
<1>4. Ticket \subseteq Ticket'
  BY <1>3 DEF Ticket
<1>5. tickets' \in Seq(Ticket')
  BY <1>2, <1>4
<1> QED BY <1>1, <1>2, <1>3, <1>5

LEMMA OursStays ==
  ASSUME \A c \in Tickets :
           \/ c \in upset'
           \/ /\ c \notin upset /\ number' = number
              /\ tickets'[c].requester = tickets[c].requester
              /\ tickets'[c].returned = tickets[c].returned
  PROVE  \A c \in Tickets : Ours(c) => Ours(c)'
BY DEF Ours

LEMMA SurvivorsStay ==
  ASSUME PortalCallsTypeOK, Tickets \subseteq Tickets',
         \A c \in Tickets : tickets[c].survivor # Nothing =>
                              tickets'[c].survivor = tickets[c].survivor
  PROVE  \A c, d \in Tickets : MergedInto(c, d) => MergedInto(c, d)'
<1> SUFFICES ASSUME NEW c \in Tickets, NEW d \in Tickets, MergedInto(c, d),
                    NEW set \in SUBSET Tickets', c \in set, KeepsSurvivors(set)'
             PROVE  d \in set
  BY DEF MergedInto
<1> DEFINE old == set \cap Tickets
<1>1. KeepsSurvivors(old)
  <2> SUFFICES ASSUME NEW e \in old, tickets[e].survivor # Nothing
               PROVE  tickets[e].survivor \in old
    BY DEF KeepsSurvivors
  <2>1. tickets[e].survivor \in Tickets
    BY TicketsTyped DEF Ticket
  <2>2. tickets'[e].survivor = tickets[e].survivor
    OBVIOUS
  <2>3. tickets'[e].survivor \in set
    BY <2>2 DEF KeepsSurvivors
  <2> QED BY <2>1, <2>2, <2>3
<1> QED BY <1>1 DEF MergedInto

\* A step that leaves the calls and the number alone.
CallsRest == UNCHANGED <<number, tickets, upset>>

LEMMA RestingCalls ==
  ASSUME PortalCallsTypeOK, CallsRest
  PROVE  /\ Tickets' = Tickets /\ Ticket' = Ticket
         /\ tickets' \in Seq(Ticket') /\ Len(tickets') <= MaxTickets
         /\ number' \in Persons \cup {Nothing} /\ upset' \subseteq Tickets'
         /\ \A c \in Tickets : (Ours(c) => Ours(c)') /\ (Live(c) <=> Live(c)')
         /\ \A c, d \in Tickets : MergedInto(c, d) => MergedInto(c, d)'
<1>1. Tickets' = Tickets
  BY DEF CallsRest, Tickets
<1>2. Ticket' = Ticket
  BY <1>1 DEF Ticket
<1>3. \A c \in Tickets : (Ours(c) => Ours(c)') /\ (Live(c) <=> Live(c)')
  BY DEF CallsRest, Ours, Live
<1>4. \A c, d \in Tickets : MergedInto(c, d) => MergedInto(c, d)'
  BY <1>1, SurvivorsStay DEF CallsRest
<1> QED BY <1>1, <1>2, <1>3, <1>4 DEF CallsRest, PortalCallsTypeOK

\* What the parts say that reads no press, answer, form or stored message.
LEMMA OneCallStays ==
  ASSUME CallsInv, CallsRest PROVE OneCallPerKey'
BY DEF CallsInv, CallsRest, OneCallPerKey, Tickets

LEMMA PrintStays ==
  ASSUME CallsInv, NEW k \in PostKeys, NEW kind \in {"follow", "report", "ask"},
         NEW about \in Tickets \cup {Nothing}, about # Nothing => Ours(about),
         PrintKey(k, kind, about)
  PROVE  CallsInv'
<1> DEFINE form == [kind |-> kind, about |-> about]
<1>1. /\ PortalCallsTypeOK /\ CallsRest
      /\ k \notin DOMAIN forms /\ forms' = With(forms, k, form)
      /\ UNCHANGED <<homes, mail, presses, answers, closedBetween, moves>>
  BY DEF PrintKey, CallsRest, CallsInv
<1>2. FromTo(forms, PostKeys, [kind: {"follow", "report", "ask"},
                               about: Tickets \cup {Nothing}])
  BY <1>1 DEF PortalCallsTypeOK
<1>3. /\ DOMAIN forms' = DOMAIN forms \cup {k} /\ forms'[k] = form
      /\ \A j \in DOMAIN forms : forms'[j] = forms[j]
      /\ FromTo(forms', PostKeys, [kind: {"follow", "report", "ask"},
                                   about: Tickets \cup {Nothing}])
  <2> DEFINE T == [kind: {"follow", "report", "ask"}, about: Tickets \cup {Nothing}]
  <2>1. form \in T /\ FromTo(forms, PostKeys, T)
    BY <1>2
  <2> HIDE DEF form, T
  <2>2. /\ DOMAIN With(forms, k, form) = DOMAIN forms \cup {k} /\ With(forms, k, form)[k] = form
        /\ \A z \in DOMAIN forms : z # k => With(forms, k, form)[z] = forms[z]
        /\ FromTo(With(forms, k, form), PostKeys, T)
    BY <2>1 DEF With, FromTo
  <2>3. FromTo(forms', PostKeys, T)
    BY <1>1, <2>2
  <2> QED BY <1>1, <2>2, <2>3 DEF T
<1>4. /\ Tickets' = Tickets
      /\ \A c \in Tickets : (Ours(c) => Ours(c)') /\ (Live(c) <=> Live(c)')
      /\ \A c, d \in Tickets : MergedInto(c, d) => MergedInto(c, d)'
  BY <1>1, RestingCalls
<1>5. PortalCallsTypeOK'
  BY <1>1, <1>3, <1>4, RestingCalls DEF PortalCallsTypeOK
<1>6. FormsFit'
  BY <1>2, <1>3, <1>4 DEF FormsFit, CallsInv, FromTo
<1>7. MailFits' /\ AnswersFit'
  BY <1>1, <1>4 DEF MailFits, AnswersFit, AnswerFits, CallsInv, PortalCallsTypeOK, FromTo
<1>8. PressesFit'
  BY <1>1, <1>2, <1>3, <1>4 DEF PressesFit, PressFits, GoesOnFrom, CallsInv, PortalCallsTypeOK, FromTo
<1>9. TicketsFit'
  BY <1>1, <1>2, <1>3, <1>4 DEF TicketsFit, GoesOnFrom, CallsInv, CallsRest, FromTo
<1> QED BY <1>1, <1>5, <1>6, <1>7, <1>8, <1>9, OneCallStays DEF CallsInv

PressRecord ==
  [pc: {"store", "thread", "attach", "sort", "settle"}, key: PostKeys,
   open: Tickets \cup {Nothing}, pred: Tickets \cup {Nothing}]
MailRecord ==
  [at: {"held", "filtered", "on"}, ticket: Tickets \cup {Nothing}]
AnswerRecord == [word: Words, ticket: Tickets \cup {Nothing}]

\* The press becomes the given record, and the others stay.
PressBecomes(r, h) ==
  /\ DOMAIN presses' = DOMAIN presses /\ presses'[r] = h
  /\ \A q \in DOMAIN presses : q # r => presses'[q] = presses[q]

\* One press moves on or ends with an answer; the calls, the forms and the
\* mail that is on a call stay as they were.
LEMMA OnePressMoves ==
  ASSUME CallsInv, CallsRest, UNCHANGED <<homes, forms>>,
         moves' \in 0..MaxMoves, closedBetween' \subseteq PostKeys,
         FromTo(mail', PostKeys, MailRecord), MailFits',
         NEW r \in DOMAIN presses,
         closedBetween \subseteq closedBetween', DOMAIN mail \subseteq DOMAIN mail',
         \A k \in DOMAIN mail : mail[k].ticket # Nothing => mail'[k] = mail[k],
         \/ presses' = Without(presses, r)
         \/ \E h \in PressRecord :
              PressBecomes(r, h) /\ PressFits(h)',
         \/ UNCHANGED answers
         \/ \E c \in Tickets \cup {Nothing} :
              /\ answers' = With(answers, presses[r].key,
                                 Says(IF c = Nothing THEN "retry" ELSE "call", c))
              /\ c # Nothing =>
                   presses[r].key \in DOMAIN mail' /\ mail'[presses[r].key].ticket = c
  PROVE  CallsInv'
<1> DEFINE k == presses[r].key
<1>1. /\ PortalCallsTypeOK /\ Tickets' = Tickets
      /\ \A c \in Tickets : (Ours(c) => Ours(c)') /\ (Live(c) <=> Live(c)')
      /\ \A c, d \in Tickets : MergedInto(c, d) => MergedInto(c, d)'
  BY RestingCalls DEF CallsInv
<1>7. PortalCallsTypeOK'
  <2>1. /\ FromTo(presses, Presses, PressRecord) /\ FromTo(answers, PostKeys, AnswerRecord)
        /\ MailRecord' = MailRecord
    BY <1>1 DEF PortalCallsTypeOK, PressRecord, AnswerRecord, MailRecord
  <2>2. FromTo(presses', Presses, PressRecord)
    <3>1. CASE presses' = Without(presses, r)
      BY <2>1, <3>1 DEF FromTo, Without
    <3>2. CASE presses' # Without(presses, r)
      <4>1. PICK h \in PressRecord : PressBecomes(r, h)
        BY <3>2
      <4> QED BY <2>1, <4>1 DEF FromTo, PressBecomes
    <3> QED BY <3>1, <3>2
  <2>3. FromTo(answers', PostKeys, AnswerRecord)
    <3>1. CASE UNCHANGED answers
      BY <2>1, <3>1
    <3>2. CASE ~UNCHANGED answers
      <4>1. PICK c \in Tickets \cup {Nothing} :
              answers' = With(answers, presses[r].key,
                              Says(IF c = Nothing THEN "retry" ELSE "call", c))
        BY <3>2
      <4>2. Says(IF c = Nothing THEN "retry" ELSE "call", c) \in AnswerRecord
        BY DEF Says, AnswerRecord, Words
      <4>3. presses[r].key \in PostKeys
        BY <2>1 DEF FromTo, PressRecord
      <4> QED BY <2>1, <4>1, <4>2, <4>3 DEF FromTo, With
    <3> QED BY <3>1, <3>2
  <2> QED BY <1>1, <2>2, <2>3, RestingCalls
          DEF PortalCallsTypeOK, PressRecord, AnswerRecord, MailRecord
<1>2. FormsFit'
  BY <1>1 DEF FormsFit, CallsInv, PortalCallsTypeOK, FromTo
<1>3. \A q, p : GoesOnFrom(q, p) /\ q \in DOMAIN forms => GoesOnFrom(q, p)'
  BY <1>1 DEF GoesOnFrom, PortalCallsTypeOK, FromTo
<1>4. TicketsFit'
  BY <1>1, <1>3, TicketsTyped DEF TicketsFit, CallsInv, CallsRest, Live
<1>5. PressesFit'
  <2>1. \A p : PressFits(p) /\ p.open \in Tickets \cup {Nothing} => PressFits(p)'
    BY <1>1, <1>3 DEF PressFits
  <2>2. \A q \in DOMAIN presses :
          PressFits(presses[q]) /\ presses[q].open \in Tickets \cup {Nothing}
    BY <1>1 DEF CallsInv, PressesFit, PortalCallsTypeOK, FromTo
  <2> SUFFICES ASSUME NEW q \in DOMAIN presses', NEW p, p = presses'[q]
               PROVE  PressFits(p)'
    BY DEF PressesFit, PressFits
  <2>3. CASE q \in DOMAIN presses /\ p = presses[q]
    BY <2>1, <2>2, <2>3
  <2>4. CASE ~(q \in DOMAIN presses /\ p = presses[q])
    <3>1. presses' # Without(presses, r)
      BY <2>4 DEF Without
    <3>2. PICK h \in PressRecord : PressBecomes(r, h) /\ PressFits(h)'
      BY <3>1
    <3>3. p = h
      BY <2>4, <3>2 DEF PressBecomes
    <3> QED BY <3>2, <3>3
  <2> QED BY <2>3, <2>4
<1>6. AnswersFit'
  <2> SUFFICES ASSUME NEW j \in DOMAIN answers', NEW a, a = answers'[j],
                      a.word = "call"
               PROVE  AnswerFits(j, a)'
    BY DEF AnswersFit, AnswerFits
  <2>1. CASE j \in DOMAIN answers /\ a = answers[j]
    <3>1. /\ a.ticket # Nothing /\ Ours(a.ticket)
          /\ j \in DOMAIN mail /\ mail[j].ticket # Nothing
          /\ MergedInto(a.ticket, mail[j].ticket)
      BY <2>1 DEF AnswersFit, AnswerFits, CallsInv
    <3>2. a.ticket \in Tickets /\ mail[j].ticket \in Tickets
      BY <1>1, <2>1, <3>1 DEF PortalCallsTypeOK, FromTo
    <3>3. mail'[j] = mail[j]
      BY <3>1
    <3>4. MergedInto(a.ticket, mail[j].ticket)'
      <4> DEFINE d == mail[j].ticket
      <4>1. \A c, e \in Tickets : MergedInto(c, e) => (\A set \in SUBSET Tickets' : c \in set /\ KeepsSurvivors(set)' => e \in set)
        BY <1>1 DEF MergedInto
      <4> QED BY <3>1, <3>2, <3>3, <4>1 DEF MergedInto
    <3> QED BY <1>1, <3>1, <3>2, <3>3, <3>4 DEF AnswerFits
  <2>2. CASE ~(j \in DOMAIN answers /\ a = answers[j])
    <3>1. PICK c \in Tickets \cup {Nothing} :
            /\ answers' = With(answers, k, Says(IF c = Nothing THEN "retry" ELSE "call", c))
            /\ c # Nothing => k \in DOMAIN mail' /\ mail'[k].ticket = c
      BY <2>2
    <3>2. j = k /\ a = Says(IF c = Nothing THEN "retry" ELSE "call", c)
      BY <2>2, <3>1 DEF With
    <3>3. c # Nothing /\ a.ticket = c
      BY <3>2 DEF Says
    <3>4. k \in DOMAIN mail' /\ mail'[k].ticket = c
      BY <3>1, <3>3
    <3>5. Ours(c)'
      BY <3>3, <3>4 DEF MailFits, Ours
    <3>6. \A e : e = c => MergedInto(c, e)'
      BY DEF MergedInto
    <3> QED BY <3>2, <3>3, <3>4, <3>5, <3>6 DEF AnswerFits
  <2> QED BY <2>1, <2>2
<1> QED BY <1>2, <1>4, <1>5, <1>6, <1>7, OneCallStays DEF CallsInv

LEMMA PressStays ==
  ASSUME CallsInv, NEW r \in Presses, NEW k \in PostKeys, Press(r, k)
  PROVE  CallsInv'
<1> DEFINE word == RoutesAnswer(forms[k])
           new == [pc |-> "store", key |-> k, open |-> Nothing, pred |-> Nothing]
<1>1. /\ PortalCallsTypeOK /\ CallsRest
      /\ r \notin DOMAIN presses /\ k \in DOMAIN forms
      /\ UNCHANGED <<homes, forms, mail, closedBetween, moves>>
      /\ \/ presses' = With(presses, r, new) /\ UNCHANGED answers
         \/ /\ word # "goes on" /\ answers' = With(answers, k, Says(word, Nothing))
            /\ UNCHANGED presses
  BY DEF Press, CallsRest, CallsInv
<1>2. /\ Tickets' = Tickets
      /\ \A c \in Tickets : (Ours(c) => Ours(c)') /\ (Live(c) <=> Live(c)')
      /\ \A c, d \in Tickets : MergedInto(c, d) => MergedInto(c, d)'
  BY <1>1, RestingCalls
<1>3. word \in {"goes on", "nothing", "missing", "retry", "closed"}
  BY DEF RoutesAnswer
<1>4. FromTo(presses', Presses, PressRecord)
  <2>1. FromTo(presses, Presses, PressRecord) /\ new \in PressRecord
    BY <1>1 DEF PortalCallsTypeOK, PressRecord
  <2> HIDE DEF new
  <2>2. CASE presses' = With(presses, r, new)
    BY <2>1, <2>2 DEF FromTo, With
  <2> QED BY <1>1, <2>1, <2>2
<1>5. FromTo(answers', PostKeys, AnswerRecord)
  <2> HIDE DEF word
  <2>1. FromTo(answers, PostKeys, AnswerRecord)
    BY <1>1 DEF PortalCallsTypeOK, AnswerRecord
  <2>2. CASE UNCHANGED answers
    BY <2>1, <2>2
  <2>3. CASE ~UNCHANGED answers
    <3>1. answers' = With(answers, k, Says(word, Nothing))
      BY <1>1, <2>3
    <3>2. Says(word, Nothing) \in AnswerRecord
      BY <1>1, <1>3, <2>3 DEF AnswerRecord, Says, Words
    <3> QED BY <2>1, <3>1, <3>2 DEF FromTo, With
  <2> QED BY <2>2, <2>3
<1>6. PortalCallsTypeOK'
  BY <1>1, <1>2, <1>4, <1>5, RestingCalls DEF PortalCallsTypeOK, PressRecord, AnswerRecord
<1>7. FormsFit' /\ MailFits'
  BY <1>1, <1>2 DEF FormsFit, MailFits, CallsInv, PortalCallsTypeOK, FromTo
<1>8. PressesFit'
  <2>1. PressFits(new)'
    BY <1>1 DEF PressFits
  <2>2. \A p : PressFits(p) /\ p.open \in Tickets \cup {Nothing} => PressFits(p)'
    BY <1>1, <1>2 DEF PressFits, GoesOnFrom, PortalCallsTypeOK, FromTo
  <2>3. \A q \in DOMAIN presses :
          PressFits(presses[q]) /\ presses[q].open \in Tickets \cup {Nothing}
    BY <1>1 DEF CallsInv, PressesFit, PortalCallsTypeOK, FromTo
  <2> SUFFICES ASSUME NEW q \in DOMAIN presses', NEW p, p = presses'[q]
               PROVE  PressFits(p)'
    BY DEF PressesFit, PressFits
  <2> HIDE DEF new
  <2>4. p = new \/ (q \in DOMAIN presses /\ p = presses[q])
    <3>1. CASE UNCHANGED presses
      BY <3>1
    <3>2. CASE presses' = With(presses, r, new)
      BY <3>2 DEF With
    <3> QED BY <1>1, <3>1, <3>2
  <2> QED BY <2>1, <2>2, <2>3, <2>4
<1>9. AnswersFit'
  <2>1. \A j, a : AnswerFits(j, a) /\ j \in DOMAIN answers /\ a = answers[j] => AnswerFits(j, a)'
    <3> SUFFICES ASSUME NEW j \in DOMAIN answers, NEW a, a = answers[j], a.word = "call",
                        AnswerFits(j, a)
                 PROVE  AnswerFits(j, a)'
      BY DEF AnswerFits
    <3>1. a.ticket \in Tickets /\ mail[j].ticket \in Tickets /\ mail' = mail
      BY <1>1 DEF AnswerFits, PortalCallsTypeOK, FromTo
    <3>2. Ours(a.ticket)'
      BY <1>2, <3>1 DEF AnswerFits
    <3>3. MergedInto(a.ticket, mail[j].ticket)'
      BY <1>1, <3>1 DEF AnswerFits, MergedInto, KeepsSurvivors, CallsRest, Tickets
    <3> QED BY <3>1, <3>2, <3>3 DEF AnswerFits
  <2> HIDE DEF word
  <2> SUFFICES ASSUME NEW j \in DOMAIN answers', NEW a, a = answers'[j]
               PROVE  AnswerFits(j, a)'
    BY DEF AnswersFit, AnswerFits
  <2>2. (j \in DOMAIN answers /\ a = answers[j]) \/ a.word # "call"
    <3>1. CASE UNCHANGED answers
      BY <3>1
    <3>2. CASE answers' = With(answers, k, Says(word, Nothing))
      <4>1. j = k \/ (j \in DOMAIN answers /\ a = answers[j])
        BY <3>2 DEF With
      <4>2. j = k => a.word = word
        BY <3>2 DEF With, Says
      <4> QED BY <1>3, <4>1, <4>2
    <3> QED BY <1>1, <3>1, <3>2
  <2> QED BY <2>1, <2>2 DEF AnswersFit, AnswerFits, CallsInv
<1>10. TicketsFit'
  BY <1>1, <1>2, TicketsTyped DEF TicketsFit, GoesOnFrom, CallsInv, CallsRest, Live, PortalCallsTypeOK, FromTo
<1> QED BY <1>1, <1>6, <1>7, <1>8, <1>9, <1>10, OneCallStays DEF CallsInv

\* What a press in hand is.
LEMMA PressIs ==
  ASSUME CallsInv, NEW r \in DOMAIN presses
  PROVE  /\ presses[r] \in PressRecord /\ PressFits(presses[r])
         /\ presses[r].key \in DOMAIN forms
         /\ forms[presses[r].key].about \in Tickets \cup {Nothing}
         /\ FromTo(mail, PostKeys, MailRecord)
         /\ \A k \in DOMAIN mail :
              /\ k \in PostKeys /\ mail[k] \in MailRecord
              /\ Settled(k) => (mail[k].at = "filtered" <=> mail[k].ticket = Nothing)
              /\ ~Settled(k) => mail[k].ticket = Nothing
         /\ closedBetween \subseteq PostKeys /\ moves \in 0..MaxMoves
<1>1. PortalCallsTypeOK /\ PressesFit /\ MailFits
  BY DEF CallsInv
<1>2. presses[r] \in PressRecord /\ FromTo(mail, PostKeys, MailRecord)
  BY <1>1 DEF PortalCallsTypeOK, FromTo, PressRecord, MailRecord
<1>3. PressFits(presses[r]) /\ presses[r].key \in DOMAIN forms
  BY <1>1 DEF PressesFit, PressFits
<1>4. forms[presses[r].key].about \in Tickets \cup {Nothing}
  BY <1>1, <1>3 DEF PortalCallsTypeOK, FromTo
<1>5. \A k \in DOMAIN mail :
         /\ k \in PostKeys /\ mail[k] \in MailRecord
         /\ Settled(k) => (mail[k].at = "filtered" <=> mail[k].ticket = Nothing)
         /\ ~Settled(k) => mail[k].ticket = Nothing
  BY <1>1, <1>2 DEF FromTo, MailRecord, MailFits, Settled
<1> QED BY <1>1, <1>2, <1>3, <1>4, <1>5 DEF PortalCallsTypeOK

LEMMA StoreStays ==
  ASSUME CallsInv, NEW r \in Presses, StoreMail(r) PROVE CallsInv'
<1> DEFINE k == presses[r].key
<1>1. /\ r \in DOMAIN presses /\ CallsRest
      /\ UNCHANGED <<homes, forms, moves, closedBetween>>
  BY DEF StoreMail, PressAt, WorldRests, CallsRest
<1>2. k \in PostKeys /\ k \in DOMAIN forms
  BY <1>1, PressIs DEF PressRecord
<1>3. /\ PortalCallsTypeOK /\ Tickets' = Tickets /\ MailRecord' = MailRecord
      /\ \A c \in Tickets : Ours(c) => Ours(c)'
  BY <1>1, RestingCalls DEF CallsInv, MailRecord
<1>4. CASE Settled(k)
  <2>1. IsTold(r, mail[k].ticket) /\ UNCHANGED mail
    BY <1>4 DEF StoreMail
  <2>2. MailFits'
    BY <1>3, <2>1 DEF CallsInv, MailFits, PortalCallsTypeOK, FromTo
  <2>3. k \in DOMAIN mail /\ mail[k].ticket \in Tickets \cup {Nothing}
    BY <1>1, <1>4, PressIs DEF Settled, MailRecord
  <2>4. CallsInv'
    BY <1>1, <1>3, <2>1, <2>2, <2>3, PressIs, OnePressMoves DEF IsTold
  <2> QED BY <2>4
<1>5. CASE ~Settled(k)
  <2> DEFINE held == [at |-> "held", ticket |-> Nothing]
  <2>1. mail' = With(mail, k, held) /\ UNCHANGED answers
    BY <1>5 DEF StoreMail
  <2>2. FromTo(mail', PostKeys, MailRecord)
    BY <1>1, <1>2, <2>1, PressIs DEF FromTo, With, MailRecord
  <2>3. /\ DOMAIN mail' = DOMAIN mail \cup {k} /\ mail'[k] = held
        /\ \A j \in DOMAIN mail : j # k => mail'[j] = mail[j]
    BY <2>1 DEF With
  <2>4. \A j \in DOMAIN mail : mail[j].ticket # Nothing => mail'[j] = mail[j]
    BY <1>1, <1>5, <2>3, PressIs
  <2>5. MailFits'
    BY <1>3, <2>3 DEF CallsInv, MailFits, PortalCallsTypeOK, FromTo
  <2>6. PICK g \in PressRecord :
          /\ PressBecomes(r, g)
          /\ g.pc = "thread" /\ g.key = k /\ g.open = presses[r].open
    <3> DEFINE h == [presses[r] EXCEPT !.pc = "thread"]
    <3>1. PressBecomes(r, h)
      BY <1>1, <1>5 DEF StoreMail, Goes, PressBecomes
    <3>2. \A g : g = h => g \in PressRecord /\ g.pc = "thread" /\ g.key = k /\ g.open = presses[r].open
      BY <1>1, PressIs DEF PressRecord
    <3> HIDE DEF h
    <3> QED BY <3>1, <3>2
  <2>7. PressFits(g)'
    <3>1. PressFits(presses[r]) /\ presses[r].open \in Tickets \cup {Nothing}
      BY <1>1, PressIs DEF PressRecord
    <3>2. g.open # Nothing => Ours(g.open)'
      BY <1>3, <2>6, <3>1 DEF PressFits
    <3>3. g.key \in DOMAIN forms' /\ g.key \in DOMAIN mail'
      BY <1>1, <1>2, <2>3, <2>6
    <3> QED BY <2>6, <3>2, <3>3 DEF PressFits
  <2> QED BY <1>1, <2>1, <2>2, <2>3, <2>4, <2>5, <2>6, <2>7, PressIs, OnePressMoves
<1> QED BY <1>4, <1>5

LEMMA CutOffStays ==
  ASSUME CallsInv, NEW r \in Presses, CutOff(r) PROVE CallsInv'
<1>1. /\ r \in DOMAIN presses /\ CallsRest
      /\ UNCHANGED <<homes, forms, mail, answers, closedBetween>>
      /\ presses' = Without(presses, r) /\ moves' = moves + 1 /\ moves < MaxMoves
  BY DEF CutOff, MayMove, CallsRest
<1>2. moves' \in 0..MaxMoves
  BY <1>1, PressIs, BoundsAssumption
<1>3. MailFits'
  BY <1>1, RestingCalls DEF CallsInv, MailFits, PortalCallsTypeOK, FromTo
<1> QED BY <1>1, <1>2, <1>3, PressIs, OnePressMoves

LEMMA ThreadTicketsTyped ==
  ASSUME CallsInv, NEW k
  PROVE  /\ ThreadTickets(k) \subseteq Tickets
         /\ \A c \in ThreadTickets(k) : Ours(c)
BY DEF ThreadTickets, CallsInv, MailFits, PortalCallsTypeOK, FromTo

LEMMA ThreadIsRead ==
  ASSUME CallsInv, NEW k \in DOMAIN forms, NEW thread \in ThreadRead(k, forms[k].about)
  PROVE  /\ thread.open \in Tickets \cup {Nothing}
         /\ thread.pred \in Tickets \cup {Nothing}
         /\ thread.open # Nothing => Ours(thread.open)
         /\ thread.open = Nothing => GoesOnFrom(k, thread.pred)
<1> DEFINE c == forms[k].about
<1>1. c \in Tickets \cup {Nothing} /\ (c # Nothing => Ours(c))
  BY DEF CallsInv, FormsFit, PortalCallsTypeOK, FromTo
<1>2. CASE c = Nothing
  <2>1. /\ thread.open \in OneOf({d \in ThreadTickets(k) : Attachable(d)})
        /\ thread.pred \in PredecessorsRead(k)
    BY <1>2 DEF ThreadRead
  <2>2. /\ thread.open \in ThreadTickets(k) \cup {Nothing}
        /\ thread.pred \in ThreadTickets(k) \cup {Nothing}
    BY <2>1 DEF OneOf, PredecessorsRead
  <2> QED BY <1>2, <2>2, ThreadTicketsTyped DEF GoesOnFrom
<1>3. CASE c # Nothing
  <2>1. thread \in (IF Live(c) THEN {[open |-> c, pred |-> Nothing]}
                     ELSE {[open |-> Nothing, pred |-> c]})
    BY <1>3 DEF ThreadRead, FollowedPredecessor
  <2>2. c # Nothing /\ c \in Tickets /\ Ours(c)
    BY <1>1, <1>3
  <2>3. CASE Live(c)
    BY <2>1, <2>2, <2>3
  <2>4. CASE ~Live(c)
    BY <2>1, <2>2, <2>4 DEF GoesOnFrom
  <2> QED BY <2>3, <2>4
<1> QED BY <1>2, <1>3

LEMMA ReadThreadStays ==
  ASSUME CallsInv, NEW r \in Presses, ReadPortalThread(r) PROVE CallsInv'
<1> DEFINE k == presses[r].key
           c == forms[k].about
<1>1. /\ r \in DOMAIN presses /\ CallsRest /\ presses[r].pc = "thread"
      /\ UNCHANGED <<homes, forms, moves, mail, closedBetween>>
  BY DEF ReadPortalThread, PressAt, WorldRests, CallsRest
<1>2. /\ MailFits'
      /\ Tickets' = Tickets /\ \A d \in Tickets : Ours(d) => Ours(d)'
  BY <1>1, RestingCalls DEF CallsInv, MailFits, PortalCallsTypeOK, FromTo
<1>3. k \in DOMAIN forms /\ k \in DOMAIN mail /\ presses[r] \in PressRecord
  BY <1>1, PressIs DEF PressFits
<1>4. CASE c # Nothing /\ tickets[c].returned
  <2>1. IsTold(r, Nothing)
    BY <1>4 DEF ReadPortalThread
  <2> QED BY <1>1, <1>2, <2>1, PressIs, OnePressMoves DEF IsTold
<1>5. CASE ~(c # Nothing /\ tickets[c].returned)
  <2>1. PICK thread \in ThreadRead(k, c) :
          presses' = [presses EXCEPT
             ![r].pc = IF thread.open = Nothing THEN "settle" ELSE "attach",
             ![r].open = thread.open, ![r].pred = thread.pred]
    BY <1>5 DEF ReadPortalThread
  <2>2. UNCHANGED answers
    BY <1>5 DEF ReadPortalThread
  <2>3. /\ thread.open \in Tickets \cup {Nothing}
        /\ thread.pred \in Tickets \cup {Nothing}
        /\ thread.open # Nothing => Ours(thread.open)
        /\ thread.open = Nothing => GoesOnFrom(k, thread.pred)
    BY <1>3, ThreadIsRead
  <2>4. PICK g \in PressRecord :
          /\ PressBecomes(r, g)
          /\ g.pc = (IF thread.open = Nothing THEN "settle" ELSE "attach")
          /\ g.key = k /\ g.open = thread.open /\ g.pred = thread.pred
    <3> DEFINE step == IF thread.open = Nothing THEN "settle" ELSE "attach"
               h == [presses[r] EXCEPT !.pc = step, !.open = thread.open, !.pred = thread.pred]
    <3>1. PressBecomes(r, h)
      BY <1>1, <2>1 DEF PressBecomes
    <3>2. step \in {"settle", "attach"}
      OBVIOUS
    <3> HIDE DEF step
    <3>3. \A g : g = h => /\ g \in PressRecord /\ g.pc = step /\ g.key = k
                          /\ g.open = thread.open /\ g.pred = thread.pred
      BY <1>3, <2>3, <3>2 DEF PressRecord
    <3> HIDE DEF h
    <3> QED BY <3>1, <3>3 DEF step
  <2>5. \A q, p : GoesOnFrom(q, p) /\ q \in DOMAIN forms => GoesOnFrom(q, p)'
    BY <1>1 DEF GoesOnFrom, Live, CallsRest
  <2>6. PressFits(g)'
    <3>1. g.key \in DOMAIN forms' /\ g.key \in DOMAIN mail'
      BY <1>1, <1>3, <2>4
    <3>2. g.open # Nothing => Ours(g.open)'
      BY <1>2, <2>3, <2>4
    <3>3. g.pc = "settle" => GoesOnFrom(g.key, g.pred)'
      BY <1>3, <2>3, <2>4, <2>5
    <3>4. g.pc = "attach" => g.open # Nothing
      BY <2>4
    <3> QED BY <2>4, <3>1, <3>2, <3>3, <3>4 DEF PressFits
  <2> QED BY <1>1, <1>2, <2>2, <2>4, <2>6, PressIs, OnePressMoves
<1> QED BY <1>4, <1>5

LEMMA SortStays ==
  ASSUME CallsInv, NEW r \in Presses, SortAgain(r) PROVE CallsInv'
<1> DEFINE k == presses[r].key
<1>1. /\ r \in DOMAIN presses /\ CallsRest /\ presses[r].pc = "sort"
      /\ UNCHANGED <<homes, forms, moves, mail, answers, closedBetween>>
  BY DEF SortAgain, PressAt, WorldRests, CallsRest
<1>2. /\ MailFits'
      /\ Tickets' = Tickets /\ \A d \in Tickets : Ours(d) => Ours(d)'
  BY <1>1, RestingCalls DEF CallsInv, MailFits, PortalCallsTypeOK, FromTo
<1>3. /\ presses[r] \in PressRecord /\ PressFits(presses[r])
      /\ k \in DOMAIN forms /\ k \in DOMAIN mail /\ k \in closedBetween
  BY <1>1, PressIs DEF PressFits
<1>4. PICK pred \in PredecessorsRead(k) :
        presses' = [presses EXCEPT ![r].pc = "settle", ![r].pred = pred]
  BY DEF SortAgain
<1>5. pred \in Tickets \cup {Nothing}
  BY ThreadTicketsTyped DEF PredecessorsRead, OneOf
<1>6. PICK g \in PressRecord :
        /\ PressBecomes(r, g)
        /\ g.pc = "settle" /\ g.key = k /\ g.open = presses[r].open
  <2> DEFINE h == [presses[r] EXCEPT !.pc = "settle", !.pred = pred]
  <2>1. PressBecomes(r, h)
    BY <1>1, <1>4 DEF PressBecomes
  <2>2. \A g : g = h => g \in PressRecord /\ g.pc = "settle" /\ g.key = k /\ g.open = presses[r].open
    BY <1>3, <1>5 DEF PressRecord
  <2> HIDE DEF h
  <2> QED BY <2>1, <2>2
<1>7. PressFits(g)'
  <2>1. g.key \in DOMAIN forms' /\ g.key \in DOMAIN mail' /\ g.key \in closedBetween'
    BY <1>1, <1>3, <1>6
  <2>2. g.open # Nothing => Ours(g.open)'
    <3>1. presses[r].open \in Tickets \cup {Nothing}
      BY <1>3 DEF PressRecord
    <3> QED BY <1>2, <1>3, <1>6, <3>1 DEF PressFits
  <2>3. GoesOnFrom(g.key, g.pred)'
    BY <2>1 DEF GoesOnFrom
  <2> QED BY <1>6, <2>1, <2>2, <2>3 DEF PressFits
<1> QED BY <1>1, <1>2, <1>6, <1>7, PressIs, OnePressMoves

LEMMA AttachStays ==
  ASSUME CallsInv, NEW r \in Presses, AttachMail(r) PROVE CallsInv'
<1> DEFINE k == presses[r].key
           c == presses[r].open
<1>1. /\ r \in DOMAIN presses /\ CallsRest /\ presses[r].pc = "attach"
      /\ UNCHANGED <<homes, forms, moves>>
  BY DEF AttachMail, PressAt, WorldRests, CallsRest
<1>2. /\ PortalCallsTypeOK /\ MailFits /\ Tickets' = Tickets
      /\ \A d \in Tickets : Ours(d) => Ours(d)'
  BY <1>1, RestingCalls DEF CallsInv
<1>3. /\ presses[r] \in PressRecord /\ PressFits(presses[r])
      /\ k \in DOMAIN forms /\ k \in DOMAIN mail /\ k \in PostKeys
      /\ c \in Tickets /\ c # Nothing /\ Ours(c)
  BY <1>1, PressIs DEF PressFits, PressRecord
<1>4. CASE Settled(k)
  <2>1. IsTold(r, mail[k].ticket) /\ UNCHANGED <<mail, closedBetween>>
    BY <1>4 DEF AttachMail
  <2>2. MailFits'
    BY <1>2, <2>1 DEF MailFits, PortalCallsTypeOK, FromTo
  <2>3. k \in DOMAIN mail /\ mail[k].ticket \in Tickets \cup {Nothing}
    BY <1>1, <1>4, PressIs DEF Settled, MailRecord
  <2> QED BY <1>1, <2>1, <2>2, <2>3, PressIs, OnePressMoves DEF IsTold
<1>5. CASE ~Settled(k) /\ Attachable(c)
  <2>1. /\ mail' = [mail EXCEPT ![k] = [at |-> "on", ticket |-> c]]
        /\ IsTold(r, c) /\ UNCHANGED closedBetween
    BY <1>5 DEF AttachMail
  <2>2. FromTo(mail', PostKeys, MailRecord)
    BY <1>1, <1>3, <2>1, PressIs DEF FromTo, MailRecord
  <2>3. /\ DOMAIN mail' = DOMAIN mail /\ mail'[k].at = "on" /\ mail'[k].ticket = c
        /\ \A j \in DOMAIN mail : j # k => mail'[j] = mail[j]
    BY <1>3, <2>1
  <2>4. \A j \in DOMAIN mail : mail[j].ticket # Nothing => mail'[j] = mail[j]
    BY <1>1, <1>5, <2>3, PressIs
  <2>5. MailFits'
    <3> SUFFICES ASSUME NEW j \in DOMAIN mail', NEW d, d = mail'[j].ticket
                 PROVE  (mail'[j].at = "on" <=> d # Nothing) /\ (d # Nothing => Ours(d)')
      BY DEF MailFits, Ours
    <3>1. CASE j = k
      BY <1>2, <1>3, <2>3, <3>1
    <3>2. CASE j # k
      BY <1>2, <2>3, <3>2 DEF MailFits, PortalCallsTypeOK, FromTo
    <3> QED BY <3>1, <3>2
  <2> QED BY <1>1, <1>3, <2>1, <2>2, <2>3, <2>4, <2>5, PressIs, OnePressMoves DEF IsTold
<1>6. CASE ~Settled(k) /\ ~Attachable(c)
  <2>1. /\ closedBetween' = closedBetween \cup {k}
        /\ presses' = [presses EXCEPT ![r].pc = "sort"] /\ UNCHANGED <<mail, answers>>
    BY <1>6 DEF AttachMail, Goes
  <2>2. MailFits'
    BY <1>2, <2>1 DEF MailFits, PortalCallsTypeOK, FromTo
  <2>3. PICK g \in PressRecord :
          /\ PressBecomes(r, g)
          /\ g.pc = "sort" /\ g.key = k /\ g.open = c
    <3> DEFINE h == [presses[r] EXCEPT !.pc = "sort"]
    <3>1. PressBecomes(r, h)
      BY <1>1, <2>1 DEF PressBecomes
    <3>2. \A g : g = h => g \in PressRecord /\ g.pc = "sort" /\ g.key = k /\ g.open = c
      BY <1>3 DEF PressRecord
    <3> HIDE DEF h
    <3> QED BY <3>1, <3>2
  <2>4. PressFits(g)'
    <3>1. g.key \in DOMAIN forms' /\ g.key \in DOMAIN mail' /\ g.key \in closedBetween'
      BY <1>1, <1>3, <2>1, <2>3
    <3>2. g.open # Nothing => Ours(g.open)'
      BY <1>2, <1>3, <2>3
    <3> QED BY <2>3, <3>1, <3>2 DEF PressFits
  <2>5. closedBetween' \subseteq PostKeys /\ closedBetween \subseteq closedBetween'
    BY <1>1, <1>3, <2>1, PressIs
  <2> QED BY <1>1, <2>1, <2>2, <2>3, <2>4, <2>5, PressIs, OnePressMoves
<1> QED BY <1>4, <1>5, <1>6

LEMMA SettleStays ==
  ASSUME CallsInv, NEW r \in Presses, NEW noise \in BOOLEAN, SettleMail(r, noise)
  PROVE  CallsInv'
<1> DEFINE k == presses[r].key
<1>0. PICK c, new : c = Len(tickets) + 1 /\ new = TicketOf(r)
  OBVIOUS
<1>1. /\ r \in DOMAIN presses /\ presses[r].pc = "settle"
      /\ UNCHANGED <<number, homes, forms, upset, moves, closedBetween>>
  BY DEF SettleMail, PressAt, WorldRests
<1>2. /\ PortalCallsTypeOK /\ MailFits /\ TicketsFit
  BY DEF CallsInv
<1>3. /\ presses[r] \in PressRecord /\ PressFits(presses[r])
      /\ k \in DOMAIN forms /\ k \in DOMAIN mail /\ k \in PostKeys
      /\ GoesOnFrom(k, presses[r].pred) /\ presses[r].pred \in Tickets \cup {Nothing}
  BY <1>1, PressIs DEF PressFits, PressRecord
<1>4. CASE Settled(k)
  <2>1. IsTold(r, mail[k].ticket) /\ UNCHANGED <<mail, tickets>>
    BY <1>4 DEF SettleMail
  <2>2. CallsRest
    BY <1>1, <2>1 DEF CallsRest
  <2>3. MailFits'
    BY <1>2, <2>1, <2>2, RestingCalls DEF MailFits, PortalCallsTypeOK, FromTo
  <2>4. k \in DOMAIN mail /\ mail[k].ticket \in Tickets \cup {Nothing}
    BY <1>1, <1>4, PressIs DEF Settled, MailRecord
  <2> QED BY <1>1, <2>1, <2>2, <2>3, <2>4, PressIs, OnePressMoves DEF IsTold
<1>5. CASE ~Settled(k) /\ noise /\ forms[k].kind # "report"
  <2>1. /\ mail' = [mail EXCEPT ![k].at = "filtered"]
        /\ IsTold(r, Nothing) /\ UNCHANGED tickets
    BY <1>5 DEF SettleMail
  <2>2. CallsRest
    BY <1>1, <2>1 DEF CallsRest
  <2>3. /\ DOMAIN mail' = DOMAIN mail
        /\ mail'[k].at = "filtered" /\ mail'[k].ticket = Nothing /\ mail'[k] \in MailRecord
        /\ \A j \in DOMAIN mail : j # k => mail'[j] = mail[j]
    BY <1>1, <1>3, <1>5, <2>1, PressIs DEF MailRecord
  <2>4. FromTo(mail', PostKeys, MailRecord)
    BY <1>1, <2>3, PressIs DEF FromTo
  <2>5. \A j \in DOMAIN mail : mail[j].ticket # Nothing => mail'[j] = mail[j]
    BY <1>1, <1>5, <2>3, PressIs
  <2>6. MailFits'
    BY <1>2, <2>2, <2>3, RestingCalls DEF MailFits, PortalCallsTypeOK, FromTo
  <2> QED BY <1>1, <2>1, <2>2, <2>3, <2>4, <2>5, <2>6, PressIs, OnePressMoves DEF IsTold
<1>6. CASE ~Settled(k) /\ ~(noise /\ forms[k].kind # "report")
  <2>1. /\ c <= MaxTickets /\ tickets' = Append(tickets, new)
        /\ mail' = [mail EXCEPT ![k] = [at |-> "on", ticket |-> c]]
        /\ presses' = Without(presses, r)
        /\ answers' = With(answers, k, Says(IF c = Nothing THEN "retry" ELSE "call", c))
    BY <1>0, <1>6 DEF SettleMail, IsTold
  <2>2. /\ new \in Ticket /\ new.state # "CLOSED" /\ new.survivor = Nothing
        /\ new.opener = k /\ new.predecessor = presses[r].pred
        /\ new.requester = number /\ ~new.returned
    <3>1. number \in Persons \cup {Nothing}
      BY <1>2 DEF PortalCallsTypeOK
    <3> QED BY <1>0, <1>3, <3>1 DEF TicketOf, NewTicket, Ticket, TicketStates, TenantExits
  <2>3. /\ Tickets' = Tickets \cup {c} /\ tickets' \in Seq(Ticket')
        /\ Len(tickets') <= MaxTickets /\ c \notin Tickets /\ tickets'[c] = new
        /\ \A d \in Tickets : tickets'[d] = tickets[d]
    BY <1>0, <1>2, <2>1, <2>2, OneTicketIsOpened
  <2>4. c \in Nat /\ c # Nothing /\ Nothing \notin Tickets
    BY <1>0, <1>2, TicketsTyped, NothingAssumption
  <2>5. /\ \A d \in Tickets : (Ours(d) => Ours(d)') /\ (Live(d) <=> Live(d)')
        /\ Ours(c)' /\ Live(c)'
    BY <1>1, <2>2, <2>3 DEF Ours, Live
  <2>6. \A d, e \in Tickets : MergedInto(d, e) => MergedInto(d, e)'
    BY <1>2, <2>3, SurvivorsStay
  <2>7. /\ DOMAIN mail' = DOMAIN mail /\ mail'[k] = [at |-> "on", ticket |-> c]
        /\ \A j \in DOMAIN mail : j # k => mail'[j] = mail[j]
        /\ \A j \in DOMAIN mail : mail[j].ticket # Nothing => mail'[j] = mail[j]
    BY <1>1, <1>3, <1>6, <2>1, PressIs
  <2>8. mail[k].ticket = Nothing
    BY <1>1, <1>3, <1>6, PressIs
  <2>9. PortalCallsTypeOK'
    <3>1. FromTo(mail', PostKeys, [at: {"held", "filtered", "on"}, ticket: Tickets' \cup {Nothing}])
      BY <1>2, <1>3, <2>3, <2>7 DEF PortalCallsTypeOK, FromTo
    <3>2. FromTo(forms', PostKeys, [kind: {"follow", "report", "ask"},
                                    about: Tickets' \cup {Nothing}])
      BY <1>1, <1>2, <2>3 DEF PortalCallsTypeOK, FromTo
    <3>3. FromTo(presses', Presses,
            [pc: {"store", "thread", "attach", "sort", "settle"}, key: PostKeys,
             open: Tickets' \cup {Nothing}, pred: Tickets' \cup {Nothing}])
      BY <1>2, <2>1, <2>3 DEF PortalCallsTypeOK, FromTo, Without
    <3>4. FromTo(answers', PostKeys, [word: Words, ticket: Tickets' \cup {Nothing}])
      <4>1. FromTo(answers, PostKeys, [word: Words, ticket: Tickets' \cup {Nothing}])
        BY <1>2, <2>3 DEF PortalCallsTypeOK, FromTo
      <4>2. \A a : a = Says(IF c = Nothing THEN "retry" ELSE "call", c) =>
                     a \in [word: Words, ticket: Tickets' \cup {Nothing}]
        BY <2>3 DEF Says, Words
      <4> QED BY <1>3, <2>1, <4>1, <4>2 DEF FromTo, With
    <3>5. /\ upset' \subseteq Tickets' /\ closedBetween' \subseteq PostKeys
          /\ moves' \in 0..MaxMoves /\ number' \in Persons \cup {Nothing}
          /\ homes' \in [Homes -> [party: Persons, open: BOOLEAN]]
      BY <1>1, <1>2, <2>3 DEF PortalCallsTypeOK
    <3> QED BY <2>3, <3>1, <3>2, <3>3, <3>4, <3>5 DEF PortalCallsTypeOK
  <2>10. MailFits'
    <3> SUFFICES ASSUME NEW j \in DOMAIN mail', NEW d, d = mail'[j].ticket
                 PROVE  (mail'[j].at = "on" <=> d # Nothing) /\ (d # Nothing => Ours(d)')
      BY DEF MailFits, Ours
    <3>1. CASE j = k
      BY <2>4, <2>5, <2>7, <3>1
    <3>2. CASE j # k
      BY <1>2, <2>5, <2>7, <3>2 DEF MailFits, PortalCallsTypeOK, FromTo
    <3> QED BY <3>1, <3>2
  <2>11. FormsFit'
    BY <1>1, <2>5 DEF FormsFit, CallsInv, PortalCallsTypeOK, FromTo
  <2>12. \A q, p : GoesOnFrom(q, p) /\ q \in DOMAIN forms => GoesOnFrom(q, p)'
    BY <1>1, <1>2, <2>5 DEF GoesOnFrom, PortalCallsTypeOK, FromTo
  <2>13. PressesFit'
    <3>1. \A p : PressFits(p) /\ p.open \in Tickets \cup {Nothing} => PressFits(p)'
      BY <1>1, <2>5, <2>7, <2>12 DEF PressFits
    <3>2. \A q \in DOMAIN presses :
            PressFits(presses[q]) /\ presses[q].open \in Tickets \cup {Nothing}
      BY <1>2 DEF CallsInv, PressesFit, PortalCallsTypeOK, FromTo
    <3> SUFFICES ASSUME NEW q \in DOMAIN presses', NEW p, p = presses'[q]
                 PROVE  PressFits(p)'
      BY DEF PressesFit, PressFits
    <3>3. q \in DOMAIN presses /\ p = presses[q]
      BY <2>1 DEF Without
    <3> QED BY <3>1, <3>2, <3>3
  <2>14. AnswersFit'
    <3> SUFFICES ASSUME NEW j \in DOMAIN answers', NEW a, a = answers'[j],
                        a.word = "call"
                 PROVE  AnswerFits(j, a)'
      BY DEF AnswersFit, AnswerFits
    <3>1. CASE j = k
      <4>1. a.ticket = c
        BY <2>1, <3>1 DEF With, Says
      <4>2. \A e : e = c => MergedInto(c, e)'
        BY DEF MergedInto
      <4>3. \A e : e = mail'[k].ticket => e = c
        BY <2>7
      <4> QED BY <1>3, <2>4, <2>5, <2>7, <3>1, <4>1, <4>2, <4>3 DEF AnswerFits
    <3>2. CASE j # k
      <4>1. j \in DOMAIN answers /\ a = answers[j]
        BY <2>1, <3>2 DEF With
      <4>2. /\ a.ticket # Nothing /\ Ours(a.ticket)
            /\ j \in DOMAIN mail /\ mail[j].ticket # Nothing
            /\ MergedInto(a.ticket, mail[j].ticket)
        BY <4>1 DEF AnswersFit, AnswerFits, CallsInv
      <4>3. a.ticket \in Tickets /\ mail[j].ticket \in Tickets /\ mail'[j] = mail[j]
        BY <1>2, <2>7, <4>1, <4>2 DEF PortalCallsTypeOK, FromTo
      <4>4. \A e : e = mail[j].ticket => MergedInto(a.ticket, e)'
        BY <2>6, <4>2, <4>3
      <4> QED BY <2>5, <2>7, <4>2, <4>3, <4>4 DEF AnswerFits
    <3> QED BY <3>1, <3>2
  <2>15. TicketsFit'
    <3> SUFFICES ASSUME NEW d \in Tickets', NEW o, o = tickets'[d].opener
                 PROVE  /\ Live(d)' => tickets'[d].survivor = Nothing
                        /\ ~Live(d)' => tickets'[d].exit \in TenantExits
                        /\ o # Nothing =>
                             /\ o \in DOMAIN forms' /\ o \in DOMAIN mail'
                             /\ mail'[o].ticket # Nothing
                             /\ \A p : p = tickets'[d].predecessor => GoesOnFrom(o, p)'
      BY DEF TicketsFit, GoesOnFrom, Live
    <3>1. CASE d = c
      BY <1>1, <1>3, <2>2, <2>3, <2>4, <2>5, <2>7, <2>12, <3>1
    <3>2. CASE d # c
      <4>1. d \in Tickets /\ tickets'[d] = tickets[d]
        BY <2>3, <3>2
      <4> QED BY <1>1, <1>2, <2>5, <2>7, <2>12, <4>1 DEF TicketsFit
    <3> QED BY <3>1, <3>2
  <2>16. OneCallPerKey'
    <3>1. \A d \in Tickets : tickets[d].opener # k
      BY <1>2, <1>3, <2>4, <2>8, TicketsTyped DEF TicketsFit
    <3>2. \A d, e \in Tickets : tickets[d].opener # Nothing
                                 /\ tickets[d].opener = tickets[e].opener => d = e
      BY DEF CallsInv, OneCallPerKey
    <3> QED BY <2>2, <2>3, <3>1, <3>2 DEF OneCallPerKey
  <2> QED BY <2>9, <2>10, <2>11, <2>13, <2>14, <2>15, <2>16 DEF CallsInv
<1> QED BY <1>4, <1>5, <1>6

\* What the office and the world may do to the calls and to the number.
LEMMA OfficeMoves ==
  ASSUME CallsInv, UNCHANGED officeVars, MayMove,
         number' \in Persons \cup {Nothing},
         homes' \in [Homes -> [party: Persons, open: BOOLEAN]],
         Tickets' = Tickets, tickets' \in Seq(Ticket'), Len(tickets') <= MaxTickets,
         upset' \subseteq Tickets,
         \A c \in Tickets :
           /\ Ours(c) => Ours(c)'
           /\ ~Live(c) => ~Live(c)'
           /\ tickets'[c].opener = tickets[c].opener
           /\ tickets'[c].predecessor = tickets[c].predecessor
           /\ tickets[c].survivor # Nothing => tickets'[c].survivor = tickets[c].survivor
           /\ Live(c)' => tickets'[c].survivor = Nothing
           /\ ~Live(c)' => tickets'[c].exit \in TenantExits,
         FromTo(mail', PostKeys, MailRecord), MailFits', DOMAIN mail' = DOMAIN mail,
         \A k \in DOMAIN mail : mail[k].ticket # Nothing =>
           /\ mail'[k].ticket # Nothing
           /\ \A d, e : d = mail[k].ticket /\ e = mail'[k].ticket => MergedInto(d, e)'
  PROVE  CallsInv'
<1>1. PortalCallsTypeOK /\ UNCHANGED <<forms, presses, answers, closedBetween>>
  BY DEF CallsInv, officeVars
<1>2. moves' \in 0..MaxMoves
  BY <1>1, BoundsAssumption DEF MayMove, PortalCallsTypeOK
<1>3. PortalCallsTypeOK'
  <2>1. /\ FromTo(forms', PostKeys, [kind: {"follow", "report", "ask"},
                                    about: Tickets' \cup {Nothing}])
        /\ FromTo(presses', Presses,
             [pc: {"store", "thread", "attach", "sort", "settle"}, key: PostKeys,
              open: Tickets' \cup {Nothing}, pred: Tickets' \cup {Nothing}])
        /\ FromTo(answers', PostKeys, [word: Words, ticket: Tickets' \cup {Nothing}])
        /\ FromTo(mail', PostKeys, [at: {"held", "filtered", "on"},
                                   ticket: Tickets' \cup {Nothing}])
        /\ closedBetween' \subseteq PostKeys /\ upset' \subseteq Tickets'
    BY <1>1 DEF PortalCallsTypeOK, FromTo, MailRecord
  <2> QED BY <1>2, <2>1 DEF PortalCallsTypeOK
<1>4. \A q, p : GoesOnFrom(q, p) /\ q \in DOMAIN forms => GoesOnFrom(q, p)'
  BY <1>1 DEF GoesOnFrom, PortalCallsTypeOK, FromTo
<1>5. FormsFit'
  BY <1>1 DEF FormsFit, CallsInv, PortalCallsTypeOK, FromTo
<1>6. PressesFit'
  <2> SUFFICES ASSUME NEW q \in DOMAIN presses, NEW p, p = presses[q] PROVE PressFits(p)'
    BY <1>1 DEF PressesFit, PressFits, GoesOnFrom, Ours, Live
  <2>1. PressFits(p) /\ p.open \in Tickets \cup {Nothing}
    BY <1>1 DEF CallsInv, PressesFit, PortalCallsTypeOK, FromTo
  <2> QED BY <1>1, <1>4, <2>1 DEF PressFits
<1>7. TicketsFit'
  <2> SUFFICES ASSUME NEW d \in Tickets, NEW o, o = tickets'[d].opener, o # Nothing
               PROVE  /\ o \in DOMAIN forms' /\ o \in DOMAIN mail'
                      /\ mail'[o].ticket # Nothing
                      /\ \A p : p = tickets'[d].predecessor => GoesOnFrom(o, p)'
    BY DEF TicketsFit, GoesOnFrom, Live
  <2>1. o = tickets[d].opener /\ tickets'[d].predecessor = tickets[d].predecessor
    OBVIOUS
  <2>2. /\ o \in DOMAIN forms /\ o \in DOMAIN mail /\ mail[o].ticket # Nothing
        /\ GoesOnFrom(o, tickets[d].predecessor)
    BY <2>1 DEF CallsInv, TicketsFit
  <2> QED BY <1>1, <1>4, <2>1, <2>2
<1>8. OneCallPerKey'
  BY DEF CallsInv, OneCallPerKey
<1>9. AnswersFit'
  <2> SUFFICES ASSUME NEW j \in DOMAIN answers, NEW a, a = answers[j], a.word = "call"
               PROVE  AnswerFits(j, a)'
    BY <1>1 DEF AnswersFit, AnswerFits, Ours, MergedInto, KeepsSurvivors
  <2>1. /\ a.ticket # Nothing /\ Ours(a.ticket)
        /\ j \in DOMAIN mail /\ mail[j].ticket # Nothing
        /\ MergedInto(a.ticket, mail[j].ticket)
    BY DEF AnswersFit, AnswerFits, CallsInv
  <2>2. a.ticket \in Tickets /\ mail[j].ticket \in Tickets
    BY <1>1, <2>1 DEF PortalCallsTypeOK, FromTo
  <2>3. \A c, d \in Tickets : MergedInto(c, d) => MergedInto(c, d)'
    BY <1>1, SurvivorsStay
  <2>4. \A d : d = mail[j].ticket => MergedInto(a.ticket, d)'
    BY <2>1, <2>2, <2>3
  <2>5. \A d, e : d = mail[j].ticket /\ e = mail'[j].ticket => MergedInto(d, e)'
    BY <2>1
  <2>6. \A e : e = mail'[j].ticket => MergedInto(a.ticket, e)'
    BY <2>4, <2>5 DEF MergedInto
  <2> QED BY <2>1, <2>2, <2>6 DEF AnswerFits
<1> QED BY <1>3, <1>5, <1>6, <1>7, <1>8, <1>9 DEF CallsInv

\* The mail where a step leaves it, its calls as they are afterwards.
LEMMA MailRests ==
  ASSUME CallsInv, UNCHANGED mail, Tickets' = Tickets,
         \A c \in Tickets : Ours(c) => Ours(c)'
  PROVE  /\ FromTo(mail', PostKeys, MailRecord) /\ MailFits' /\ DOMAIN mail' = DOMAIN mail
         /\ \A k \in DOMAIN mail : mail[k].ticket # Nothing =>
              /\ mail'[k].ticket # Nothing
              /\ \A d, e : d = mail[k].ticket /\ e = mail'[k].ticket => MergedInto(d, e)'
<1>1. PortalCallsTypeOK /\ MailFits
  BY DEF CallsInv
<1>2. FromTo(mail', PostKeys, MailRecord)
  BY <1>1 DEF PortalCallsTypeOK, MailRecord
<1>3. MailFits'
  BY <1>1 DEF MailFits, PortalCallsTypeOK, FromTo
<1>4. \A d, e : d = e => MergedInto(d, e)'
  BY DEF MergedInto
<1> QED BY <1>2, <1>3, <1>4

LEMMA CategoryStays ==
  ASSUME CallsInv, NEW c \in Tickets, SetCategory(c) PROVE CallsInv'
<1>1. PortalCallsTypeOK /\ TicketsFit
  BY DEF CallsInv
<1>2. PICK t : t = [tickets[c] EXCEPT !.state = "TRIAGED"]
  OBVIOUS
<1>3. /\ t \in Ticket /\ tickets[c].state # "CLOSED" /\ t.state = "TRIAGED"
      /\ t.requester = tickets[c].requester /\ t.returned = tickets[c].returned
      /\ t.predecessor = tickets[c].predecessor /\ t.survivor = tickets[c].survivor
      /\ t.opener = tickets[c].opener /\ t.exit = tickets[c].exit
  BY <1>1, <1>2, TicketsTyped DEF SetCategory, Ticket, TicketStates
<1>4. tickets' = [tickets EXCEPT ![c] = t]
  BY <1>1, <1>2 DEF SetCategory, PortalCallsTypeOK
<1>5. /\ Tickets' = Tickets /\ tickets' \in Seq(Ticket') /\ Len(tickets') <= MaxTickets
      /\ tickets'[c] = t /\ \A d \in Tickets : d # c => tickets'[d] = tickets[d]
  BY <1>1, <1>3, <1>4, OneTicketMoves
<1>6. UNCHANGED <<number, homes, mail, upset, officeVars>> /\ MayMove
  BY DEF SetCategory
<1>7. \A d \in Tickets : Ours(d) => Ours(d)'
  BY <1>3, <1>5, <1>6 DEF Ours
<1>8. \A d \in Tickets :
        /\ Live(d) <=> Live(d)'
        /\ tickets'[d].opener = tickets[d].opener
        /\ tickets'[d].predecessor = tickets[d].predecessor
        /\ tickets'[d].survivor = tickets[d].survivor
        /\ tickets'[d].exit = tickets[d].exit
  BY <1>3, <1>5 DEF Live
<1>9. /\ number' \in Persons \cup {Nothing} /\ upset' \subseteq Tickets
      /\ homes' \in [Homes -> [party: Persons, open: BOOLEAN]]
  BY <1>1, <1>6 DEF PortalCallsTypeOK
<1>10. \A d \in Tickets : /\ Live(d) => tickets[d].survivor = Nothing
                          /\ ~Live(d) => tickets[d].exit \in TenantExits
  BY <1>1 DEF TicketsFit
<1> QED BY <1>5, <1>6, <1>7, <1>8, <1>9, <1>10, MailRests, OfficeMoves

LEMMA AnswerStays ==
  ASSUME CallsInv, NEW c \in Tickets, AnswerCall(c) PROVE CallsInv'
<1>1. PortalCallsTypeOK /\ TicketsFit
  BY DEF CallsInv
<1>2. PICK t : t = [tickets[c] EXCEPT !.state = "CLOSED", !.exit = "ANSWERED"]
  OBVIOUS
<1>3. /\ t \in Ticket /\ Live(c) /\ t.state = "CLOSED" /\ t.exit \in TenantExits
      /\ t.requester = tickets[c].requester /\ t.returned = tickets[c].returned
      /\ t.predecessor = tickets[c].predecessor /\ t.survivor = tickets[c].survivor
      /\ t.opener = tickets[c].opener
  BY <1>1, <1>2, TicketsTyped DEF AnswerCall, Attachable, Ticket, TicketStates, TenantExits
<1>4. tickets' = [tickets EXCEPT ![c] = t]
  BY <1>1, <1>2 DEF AnswerCall, PortalCallsTypeOK
<1>5. /\ Tickets' = Tickets /\ tickets' \in Seq(Ticket') /\ Len(tickets') <= MaxTickets
      /\ tickets'[c] = t /\ \A d \in Tickets : d # c => tickets'[d] = tickets[d]
  BY <1>1, <1>3, <1>4, OneTicketMoves
<1>6. UNCHANGED <<number, homes, mail, upset, officeVars>> /\ MayMove
  BY DEF AnswerCall
<1>7. \A d \in Tickets : Ours(d) => Ours(d)'
  BY <1>3, <1>5, <1>6 DEF Ours
<1>8. \A d \in Tickets :
        /\ ~Live(d) => ~Live(d)'
        /\ tickets'[d].opener = tickets[d].opener
        /\ tickets'[d].predecessor = tickets[d].predecessor
        /\ tickets'[d].survivor = tickets[d].survivor
        /\ Live(d)' => tickets'[d].survivor = Nothing
        /\ ~Live(d)' => tickets'[d].exit \in TenantExits
  BY <1>1, <1>3, <1>5 DEF Live, TicketsFit
<1>9. /\ number' \in Persons \cup {Nothing} /\ upset' \subseteq Tickets
      /\ homes' \in [Homes -> [party: Persons, open: BOOLEAN]]
  BY <1>1, <1>6 DEF PortalCallsTypeOK
<1> QED BY <1>5, <1>6, <1>7, <1>8, <1>9, MailRests, OfficeMoves

LEMMA MergeStays ==
  ASSUME CallsInv, NEW c \in Tickets, NEW other \in Tickets, MergeInto(c, other)
  PROVE  CallsInv'
<1>1. PortalCallsTypeOK /\ TicketsFit /\ MailFits
  BY DEF CallsInv
<1>2. PICK t : t = [tickets[c] EXCEPT !.state = "CLOSED", !.exit = "DUPLICATE",
                                      !.survivor = other]
  OBVIOUS
<1>3. /\ t \in Ticket /\ Live(c) /\ t.state = "CLOSED" /\ t.exit \in TenantExits
      /\ t.requester = tickets[c].requester /\ t.returned = tickets[c].returned
      /\ t.predecessor = tickets[c].predecessor /\ t.survivor = other
      /\ t.opener = tickets[c].opener /\ tickets[c].survivor = Nothing
  BY <1>1, <1>2, TicketsTyped
     DEF MergeInto, Attachable, Ticket, TicketStates, TenantExits, TicketsFit
<1>4. tickets' = [tickets EXCEPT ![c] = t]
  BY <1>1, <1>2 DEF MergeInto, PortalCallsTypeOK
<1>5. /\ Tickets' = Tickets /\ tickets' \in Seq(Ticket') /\ Len(tickets') <= MaxTickets
      /\ tickets'[c] = t /\ \A d \in Tickets : d # c => tickets'[d] = tickets[d]
  BY <1>1, <1>3, <1>4, OneTicketMoves
<1>6. UNCHANGED <<number, homes, officeVars>> /\ MayMove /\ upset' = upset \cup {other}
  BY DEF MergeInto
<1>7. /\ \A d \in Tickets : Ours(d) => Ours(d)'
      /\ Ours(other)'
  BY <1>3, <1>5, <1>6 DEF Ours
<1>8. \A d \in Tickets :
        /\ ~Live(d) => ~Live(d)'
        /\ tickets'[d].opener = tickets[d].opener
        /\ tickets'[d].predecessor = tickets[d].predecessor
        /\ tickets[d].survivor # Nothing => tickets'[d].survivor = tickets[d].survivor
        /\ Live(d)' => tickets'[d].survivor = Nothing
        /\ ~Live(d)' => tickets'[d].exit \in TenantExits
  BY <1>1, <1>3, <1>5 DEF Live, TicketsFit
<1>9. /\ number' \in Persons \cup {Nothing} /\ upset' \subseteq Tickets
      /\ homes' \in [Homes -> [party: Persons, open: BOOLEAN]]
  BY <1>1, <1>6 DEF PortalCallsTypeOK
<1>10. other # Nothing /\ Nothing \notin Tickets
  BY <1>1, TicketsTyped
<1>11. /\ DOMAIN mail' = DOMAIN mail
       /\ \A k \in DOMAIN mail :
            /\ mail'[k].at = mail[k].at
            /\ mail[k].ticket = c => mail'[k].ticket = other
            /\ mail[k].ticket # c => mail'[k] = mail[k]
            /\ mail'[k] \in MailRecord
  BY <1>1 DEF MergeInto, PortalCallsTypeOK, FromTo, MailRecord
<1>12. FromTo(mail', PostKeys, MailRecord)
  BY <1>1, <1>11 DEF PortalCallsTypeOK, FromTo
<1>13. MailFits'
  <2> SUFFICES ASSUME NEW k \in DOMAIN mail, NEW d, d = mail'[k].ticket
               PROVE  (mail'[k].at = "on" <=> d # Nothing) /\ (d # Nothing => Ours(d)')
    BY <1>11 DEF MailFits, Ours
  <2>1. CASE mail[k].ticket = c
    BY <1>1, <1>7, <1>10, <1>11, <2>1 DEF MailFits
  <2>2. CASE mail[k].ticket # c
    BY <1>1, <1>7, <1>11, <2>2 DEF MailFits, PortalCallsTypeOK, FromTo
  <2> QED BY <2>1, <2>2
<1>14. \A k \in DOMAIN mail : mail[k].ticket # Nothing =>
         /\ mail'[k].ticket # Nothing
         /\ \A d, e : d = mail[k].ticket /\ e = mail'[k].ticket => MergedInto(d, e)'
  <2>1. MergedInto(c, other)'
    BY <1>3, <1>5, <1>10 DEF MergedInto, KeepsSurvivors
  <2>2. \A d, e : d = e => MergedInto(d, e)'
    BY DEF MergedInto
  <2>3. \A d, e : d = c /\ e = other => MergedInto(d, e)'
    BY <2>1 DEF MergedInto
  <2> QED BY <1>10, <1>11, <2>2, <2>3
<1> QED BY <1>5, <1>6, <1>7, <1>8, <1>9, <1>12, <1>13, <1>14, <1>11, OfficeMoves

LEMMA ReturnStays ==
  ASSUME CallsInv, NEW c \in Tickets, ReturnOrRestore(c) PROVE CallsInv'
<1>1. PortalCallsTypeOK /\ TicketsFit
  BY DEF CallsInv
<1>2. PICK t : t = [tickets[c] EXCEPT !.returned = ~tickets[c].returned]
  OBVIOUS
<1>3. /\ t \in Ticket /\ Live(c) /\ t.state = tickets[c].state /\ t.exit = tickets[c].exit
      /\ t.predecessor = tickets[c].predecessor /\ t.survivor = tickets[c].survivor
      /\ t.opener = tickets[c].opener
  BY <1>1, <1>2, TicketsTyped DEF ReturnOrRestore, Ticket
<1>4. tickets' = [tickets EXCEPT ![c] = t]
  BY <1>1, <1>2 DEF ReturnOrRestore, PortalCallsTypeOK
<1>5. /\ Tickets' = Tickets /\ tickets' \in Seq(Ticket') /\ Len(tickets') <= MaxTickets
      /\ tickets'[c] = t /\ \A d \in Tickets : d # c => tickets'[d] = tickets[d]
  BY <1>1, <1>3, <1>4, OneTicketMoves
<1>6. UNCHANGED <<number, homes, mail, officeVars>> /\ MayMove /\ upset' = upset \cup {c}
  BY DEF ReturnOrRestore
<1>7. \A d \in Tickets : Ours(d) => Ours(d)'
  BY <1>5, <1>6 DEF Ours
<1>8. \A d \in Tickets :
        /\ ~Live(d) => ~Live(d)'
        /\ tickets'[d].opener = tickets[d].opener
        /\ tickets'[d].predecessor = tickets[d].predecessor
        /\ tickets'[d].survivor = tickets[d].survivor
        /\ Live(d)' => tickets'[d].survivor = Nothing
        /\ ~Live(d)' => tickets'[d].exit \in TenantExits
  BY <1>1, <1>3, <1>5 DEF Live, TicketsFit
<1>9. /\ number' \in Persons \cup {Nothing} /\ upset' \subseteq Tickets
      /\ homes' \in [Homes -> [party: Persons, open: BOOLEAN]]
  BY <1>1, <1>6 DEF PortalCallsTypeOK
<1> QED BY <1>5, <1>6, <1>7, <1>8, <1>9, MailRests, OfficeMoves

LEMMA IdentifyStays ==
  ASSUME CallsInv, NEW c \in Tickets, NEW p \in Persons, IdentifyCaller(c, p)
  PROVE  CallsInv'
<1>1. PortalCallsTypeOK /\ TicketsFit
  BY DEF CallsInv
<1>2. PICK t : t = [tickets[c] EXCEPT !.state = "IDENTIFIED", !.requester = p]
  OBVIOUS
<1>3. /\ t \in Ticket /\ Live(c) /\ t.state = "IDENTIFIED" /\ t.exit = tickets[c].exit
      /\ t.predecessor = tickets[c].predecessor /\ t.survivor = tickets[c].survivor
      /\ t.opener = tickets[c].opener
  BY <1>1, <1>2, TicketsTyped DEF IdentifyCaller, Ticket, TicketStates, Live
<1>4. tickets' = [tickets EXCEPT ![c] = t]
  BY <1>1, <1>2 DEF IdentifyCaller, PortalCallsTypeOK
<1>5. /\ Tickets' = Tickets /\ tickets' \in Seq(Ticket') /\ Len(tickets') <= MaxTickets
      /\ tickets'[c] = t /\ \A d \in Tickets : d # c => tickets'[d] = tickets[d]
  BY <1>1, <1>3, <1>4, OneTicketMoves
<1>6. UNCHANGED <<number, homes, mail, officeVars>> /\ MayMove /\ upset' = upset \cup {c}
  BY DEF IdentifyCaller
<1>7. \A d \in Tickets : Ours(d) => Ours(d)'
  BY <1>5, <1>6 DEF Ours
<1>8. \A d \in Tickets :
        /\ ~Live(d) => ~Live(d)'
        /\ tickets'[d].opener = tickets[d].opener
        /\ tickets'[d].predecessor = tickets[d].predecessor
        /\ tickets'[d].survivor = tickets[d].survivor
        /\ Live(d)' => tickets'[d].survivor = Nothing
        /\ ~Live(d)' => tickets'[d].exit \in TenantExits
  BY <1>1, <1>3, <1>5 DEF Live, TicketsFit
<1>9. /\ number' \in Persons \cup {Nothing} /\ upset' \subseteq Tickets
      /\ homes' \in [Homes -> [party: Persons, open: BOOLEAN]]
  BY <1>1, <1>6 DEF PortalCallsTypeOK
<1> QED BY <1>5, <1>6, <1>7, <1>8, <1>9, MailRests, OfficeMoves

LEMMA WorldStays ==
  ASSUME CallsInv,
         \/ \E h \in Homes : LettingTurns(h)
         \/ \E p \in Persons \cup {Nothing} : NumberMoves(p)
  PROVE  CallsInv'
<1>1. PortalCallsTypeOK /\ TicketsFit
  BY DEF CallsInv
<1>2. /\ UNCHANGED <<tickets, mail, officeVars>> /\ MayMove
      /\ number' \in Persons \cup {Nothing} /\ upset' \subseteq Tickets
      /\ (number' = number /\ upset' = upset) \/ upset' = Tickets
      /\ homes' \in [Homes -> [party: Persons, open: BOOLEAN]]
  <2>1. CASE \E h \in Homes : LettingTurns(h)
    <3>1. PICK h \in Homes : LettingTurns(h)
      BY <2>1
    <3>2. /\ UNCHANGED <<number, tickets, mail, upset, officeVars>> /\ MayMove
          /\ homes' = [homes EXCEPT ![h] = [homes[h] EXCEPT !.open = ~homes[h].open]]
      BY <3>1 DEF LettingTurns
    <3>3. homes[h] \in [party: Persons, open: BOOLEAN]
      BY <1>1 DEF PortalCallsTypeOK
    <3>4. \A x : x = [homes[h] EXCEPT !.open = ~homes[h].open] =>
                    x \in [party: Persons, open: BOOLEAN]
      BY <3>3
    <3>5. homes' \in [Homes -> [party: Persons, open: BOOLEAN]]
      <4> DEFINE T == [party: Persons, open: BOOLEAN]
                 x == [homes[h] EXCEPT !.open = ~homes[h].open]
      <4>1. homes \in [Homes -> T] /\ x \in T /\ homes' = [homes EXCEPT ![h] = x]
        BY <1>1, <3>2, <3>4 DEF PortalCallsTypeOK
      <4> HIDE DEF x, T
      <4>2. homes' \in [Homes -> T]
        BY <4>1
      <4> QED BY <4>2 DEF T
    <3> QED BY <1>1, <3>2, <3>5 DEF PortalCallsTypeOK
  <2>2. CASE \E p \in Persons \cup {Nothing} : NumberMoves(p)
    BY <1>1, <2>2 DEF NumberMoves, PortalCallsTypeOK
  <2> QED BY <2>1, <2>2
<1>3. Tickets' = Tickets /\ Ticket' = Ticket
  BY <1>2 DEF Tickets, Ticket
<1>4. \A d \in Tickets : Ours(d) => Ours(d)'
  BY <1>2 DEF Ours
<1>5. \A d \in Tickets :
        /\ ~Live(d) => ~Live(d)'
        /\ tickets'[d].opener = tickets[d].opener
        /\ tickets'[d].predecessor = tickets[d].predecessor
        /\ tickets'[d].survivor = tickets[d].survivor
        /\ Live(d)' => tickets'[d].survivor = Nothing
        /\ ~Live(d)' => tickets'[d].exit \in TenantExits
  BY <1>1, <1>2 DEF Live, TicketsFit
<1>6. tickets' \in Seq(Ticket') /\ Len(tickets') <= MaxTickets
  BY <1>1, <1>2, <1>3 DEF PortalCallsTypeOK
<1> QED BY <1>2, <1>3, <1>4, <1>5, <1>6, MailRests, OfficeMoves

LEMMA ReadableIsOurs ==
  ASSUME NEW c \in Tickets, Readable(c) PROVE Ours(c)
BY DEF Readable, Listed, ReachedParties, Rows, Ours

LEMMA PrintedStays ==
  ASSUME CallsInv, NEW k \in PostKeys,
         \/ OpenReport(k) \/ OpenAsk(k)
         \/ \E c \in Tickets : OpenThread(k, c) \/ ContinueCall(k, c)
  PROVE  CallsInv'
<1>1. CASE OpenReport(k) \/ OpenAsk(k)
  BY <1>1, PrintStays DEF OpenReport, OpenAsk
<1>2. CASE \E c \in Tickets : OpenThread(k, c) \/ ContinueCall(k, c)
  BY <1>2, PrintStays, ReadableIsOurs DEF OpenThread, ContinueCall
<1> QED BY <1>1, <1>2

LEMMA CallsBegin ==
  ASSUME PortalCallsInit PROVE CallsInv
<1>1. PICK old \in OfficeTickets : tickets = <<old>>
  BY DEF PortalCallsInit
<1>2. Tickets = {1} /\ Len(tickets) = 1 /\ tickets[1] = old
  BY <1>1 DEF Tickets
<1>3. /\ old.state = "IDENTIFIED" /\ old.requester \in Persons /\ old.returned = FALSE
      /\ old.predecessor = Nothing /\ old.exit = "none" /\ old.survivor = Nothing
      /\ old.opener = Nothing /\ old \in Ticket
  BY <1>1 DEF OfficeTickets, NewTicket, Ticket, TicketStates
<1>4. PortalCallsTypeOK
  <2>1. tickets \in Seq(Ticket)
    BY <1>1, <1>3
  <2>2. /\ FromTo(mail, PostKeys, [at: {"held", "filtered", "on"},
                                  ticket: Tickets \cup {Nothing}])
        /\ FromTo(forms, PostKeys, [kind: {"follow", "report", "ask"},
                                   about: Tickets \cup {Nothing}])
        /\ FromTo(presses, Presses,
             [pc: {"store", "thread", "attach", "sort", "settle"}, key: PostKeys,
              open: Tickets \cup {Nothing}, pred: Tickets \cup {Nothing}])
        /\ FromTo(answers, PostKeys, [word: Words, ticket: Tickets \cup {Nothing}])
    BY DEF PortalCallsInit, FromTo
  <2>3. /\ number \in Persons \cup {Nothing}
        /\ homes \in [Homes -> [party: Persons, open: BOOLEAN]]
        /\ upset \subseteq Tickets /\ closedBetween \subseteq PostKeys
        /\ moves \in 0..MaxMoves
    <3>1. homes \in [Homes -> [party: Persons, open: {TRUE}]]
      BY DEF PortalCallsInit
    <3>2. \A x \in [party: Persons, open: {TRUE}] : x \in [party: Persons, open: BOOLEAN]
      OBVIOUS
    <3>3. homes \in [Homes -> [party: Persons, open: BOOLEAN]]
      BY <3>1, <3>2
    <3> QED BY <3>3, CallerAssumption, BoundsAssumption DEF PortalCallsInit
  <2>4. Len(tickets) <= MaxTickets
    BY <1>2, BoundsAssumption
  <2> QED BY <2>1, <2>2, <2>3, <2>4 DEF PortalCallsTypeOK
<1>5. MailFits /\ FormsFit /\ AnswersFit /\ PressesFit
  BY DEF PortalCallsInit, MailFits, FormsFit, AnswersFit, PressesFit
<1>6. TicketsFit /\ OneCallPerKey
  BY <1>2, <1>3 DEF TicketsFit, OneCallPerKey, Live
<1> QED BY <1>4, <1>5, <1>6 DEF CallsInv

LEMMA CallsStep ==
  ASSUME CallsInv, [PortalCallsNext]_portalCallVars PROVE CallsInv'
<1>1. CASE UNCHANGED portalCallVars
  BY <1>1 DEF portalCallVars, CallsInv, PortalCallsTypeOK, MailFits, FormsFit, AnswersFit,
     AnswerFits, PressesFit, PressFits, TicketsFit, OneCallPerKey, GoesOnFrom, Ours, Live,
     MergedInto, KeepsSurvivors, Tickets, Ticket
<1>2. CASE PortalCallsNext
  BY <1>2, PrintedStays, PressStays, StoreStays, ReadThreadStays, AttachStays, SortStays,
     SettleStays, CutOffStays, CategoryStays, AnswerStays, MergeStays, ReturnStays,
     IdentifyStays, WorldStays
     DEF PortalCallsNext
<1> QED BY <1>1, <1>2

LEMMA CallsAnswerTenants ==
  ASSUME CallsInv PROVE TenantsAreAnswered
<1>1. WhatIsToldIsStored
  <2> SUFFICES ASSUME NEW k \in DOMAIN answers, answers[k].word = "call"
               PROVE  \E c \in Tickets : MergedInto(answers[k].ticket, c)
                                        /\ k \in ThreadPage(c).bubbles
    BY DEF WhatIsToldIsStored
  <2>1. /\ k \in DOMAIN mail /\ mail[k].ticket # Nothing
        /\ MergedInto(answers[k].ticket, mail[k].ticket)
    BY DEF CallsInv, AnswersFit, AnswerFits
  <2>2. mail[k].ticket \in Tickets
    BY <2>1 DEF CallsInv, PortalCallsTypeOK, FromTo
  <2>3. k \in ThreadPage(mail[k].ticket).bubbles
    BY <2>1 DEF ThreadPage, Bubbles
  <2> QED BY <2>1, <2>2, <2>3
<1>2. SuccessorNamesItsCall
  BY DEF SuccessorNamesItsCall, CallsInv, TicketsFit, GoesOnFrom
<1>3. TenantFindsTheCall
  <2>1. ASSUME NEW k \in DOMAIN answers, answers[k].word = "call",
               answers[k].ticket \notin upset, Rows # {}
        PROVE  Readable(answers[k].ticket)
    <3>1. Ours(answers[k].ticket)
      BY <2>1 DEF CallsInv, AnswersFit, AnswerFits
    <3>2. number \in ReachedParties
      BY <2>1 DEF ReachedParties, Rows
    <3> QED BY <2>1, <3>1, <3>2 DEF Ours, Readable, Listed
  <2>2. ASSUME NEW h \in Rows, NEW c \in Tickets, Readable(c)
        PROVE  /\ c \in OpenTab(h) <=> c \notin ClosedTab(h)
               /\ StatusIsClosed(c) <=> c \in ClosedTab(h)
               /\ ThreadPage(c).foot = "composer" <=> c \in OpenTab(h)
               /\ \A cards \in HomeCards(h) : cards = {} => c \in ClosedTab(h)
    <3>1. c \in ListedFor(h)
      BY <2>2 DEF ListedFor, Readable, Listed, ReachedParties, Rows
    <3>2. c \in OpenTab(h) <=> Live(c)
      BY <3>1 DEF OpenTab
    <3>3. c \in ClosedTab(h) <=> ~Live(c)
      BY <3>1, <3>2 DEF ClosedTab
    <3>4. StatusIsClosed(c) <=> ~Live(c)
      <4>1. ~Live(c) => tickets[c].exit \in {"ANSWERED", "DUPLICATE"}
                        /\ tickets[c].state = "CLOSED"
        BY DEF CallsInv, TicketsFit, TenantExits, Live
      <4>2. CASE Live(c)
        BY <4>2 DEF StatusIsClosed, TenantStatus
      <4>3. CASE ~Live(c)
        BY <4>1, <4>3 DEF StatusIsClosed, TenantStatus
      <4> QED BY <4>2, <4>3
    <3>5. ThreadPage(c).foot = "composer" <=> Live(c)
      BY DEF ThreadPage, ThreadFoot
    <3>6. \A cards \in HomeCards(h) : cards = {} => c \in ClosedTab(h)
      <4> SUFFICES ASSUME {} \in HomeCards(h) PROVE c \in ClosedTab(h)
        OBVIOUS
      <4>1. {} = OpenTab(h)
        BY FS_EmptySet DEF HomeCards
      <4> QED BY <3>2, <3>3, <4>1
    <3> QED BY <3>2, <3>3, <3>4, <3>5, <3>6
  <2> QED BY <2>1, <2>2 DEF TenantFindsTheCall
<1> QED BY <1>1, <1>2, <1>3 DEF TenantsAreAnswered, CallsInv

\* What the portal stores and tells about the calls has its type.
THEOREM PortalCallsTypeCorrect == PortalCallsSpec => []PortalCallsTypeOK
<1>1. CallsInv => PortalCallsTypeOK
  BY DEF CallsInv
<1> QED BY <1>1, CallsBegin, CallsStep, PTL DEF PortalCallsSpec

\* However many calls, keys, presses and moves of the office: what a tenant
\* was told was taken is on the call they were told of or where it was merged;
\* one key opened one call; a continued call names the one it goes on from;
\* and the told call can be opened, on the right list, until it is moved.
THEOREM TenantsAlwaysAnswered == PortalCallsSpec => []TenantsAreAnswered
BY CallsBegin, CallsStep, CallsAnswerTenants, PTL DEF PortalCallsSpec

=============================================================================
