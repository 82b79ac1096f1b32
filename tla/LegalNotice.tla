----------------------------- MODULE LegalNotice -----------------------------
(***************************************************************************)
(* The texts a tenant is shown before the portal opens                     *)
(* (portal/internal/legal.ts and the notice's routes): versions appear     *)
(* while old pages are still open, in another tab or another language, and *)
(* the continue button writes its rows one statement at a time.            *)
(***************************************************************************)
EXTENDS Naturals, FiniteSets

CONSTANTS
  Readers,      \* portal identities
  Languages,    \* portalLanguages()
  Fallback,     \* FALLBACK_LANGUAGE
  MaxVersion,   \* bound: versions of a text
  MaxPages      \* bound: notice pages open in browsers or being posted

ASSUME FallbackAssumption == Fallback \in Languages
ASSUME NoticeBoundsAssumption == {MaxVersion, MaxPages} \subseteq Nat \ {0}

VARIABLES
  texts,         \* portal_legal_text: the versions there are
  pages,         \* notice pages still open
  shown,         \* texts that were on a page of this reader's
  acknowledged,  \* portal_acknowledgement
  optIn,         \* portal_opt_in's one switch, as last written
  posting        \* the posts under way: what each has still to write

noticeVars == <<texts, pages, shown, acknowledged, optIn, posting>>

Kinds == {"privacy", "terms"}
Text == [kind: Kinds, language: Languages, version: 1..MaxVersion]
Page == [reader: Readers, privacy: Text, terms: Text, language: Languages]
Post == [page: Page, tick: BOOLEAN, left: SUBSET (Kinds \cup {"opt_in"})]

NoticeTypeOK ==
  /\ texts \subseteq Text
  /\ pages \subseteq Page
  /\ shown \in [Readers -> SUBSET Text]
  /\ acknowledged \in [Readers -> SUBSET texts]
  /\ optIn \in [Readers -> {"none", "on", "off"}]
  /\ \A p \in posting : p \in Post

\* Migration 0080 brings the first version of each text in Hebrew; it brings
\* the other languages too, but a language may be without a row.
NoticeInit ==
  /\ texts = [kind: Kinds, language: {Fallback}, version: {1}]
  /\ pages = {} /\ posting = {}
  /\ shown = [r \in Readers |-> {}]
  /\ acknowledged = [r \in Readers |-> {}]
  /\ optIn = [r \in Readers |-> "none"]

-----------------------------------------------------------------------------
\* DISTINCT ON (language, kind) ... ORDER BY version DESC.
Newest(kind, language) ==
  {t \in texts : /\ t.kind = kind /\ t.language = language
                 /\ \A u \in texts :
                      u.kind = kind /\ u.language = language
                        => u.version <= t.version}
\* chooseShown: the chosen language's row, or else the Hebrew one.
Shown(kind, language) ==
  CHOOSE t \in texts :
    IF Newest(kind, language) # {} THEN t \in Newest(kind, language)
                                   ELSE t \in Newest(kind, Fallback)
PageFor(r, language) ==
  [reader |-> r, language |-> language,
   privacy |-> Shown("privacy", language), terms |-> Shown("terms", language)]
\* noticeDue: every other page of the portal leads to the notice.
Due(r, language) ==
  \E kind \in Kinds : Shown(kind, language) \notin acknowledged[r]

\* Dona Dom's lawyers insert the next version: nothing edits one.
PublishText(kind, language) ==
  LET n == Cardinality({t \in texts : t.kind = kind /\ t.language = language}) IN
  /\ n < MaxVersion
  /\ texts' = texts \cup
       {[kind |-> kind, language |-> language, version |-> n + 1]}
  /\ UNCHANGED <<pages, shown, acknowledged, optIn, posting>>

\* GET /notice, and the page POST /notice paints when it could not record.
ShowNotice(r, language) ==
  /\ Due(r, language)
  /\ Cardinality(pages) + Cardinality(posting) < MaxPages
  /\ pages' = pages \cup {PageFor(r, language)}
  /\ shown' = [shown EXCEPT ![r] =
       @ \cup {Shown(kind, language) : kind \in Kinds}]
  /\ UNCHANGED <<texts, acknowledged, optIn, posting>>

\* POST /notice: the ids are the page's own, and name texts there are.
PostNotice(page, tick) ==
  /\ page \in pages
  /\ pages' = pages \ {page}
  /\ posting' = posting \cup
       {[page |-> page, tick |-> tick, left |-> Kinds \cup {"opt_in"}]}
  /\ UNCHANGED <<texts, shown, acknowledged, optIn>>

PostedCurrent(p, kind) == Shown(kind, p.page.language)
Posted(p, kind) == IF kind = "privacy" THEN p.page.privacy ELSE p.page.terms

After(p, part) ==
  LET left == p.left \ {part} IN
  (posting \ {p}) \cup (IF left = {} THEN {} ELSE {[p EXCEPT !.left = left]})

\* The privacy text first, then the terms, then the switches.
Acknowledge(p) ==
  LET kind == IF "privacy" \in p.left THEN "privacy" ELSE "terms" IN
  /\ p \in posting /\ kind \in p.left
  /\ acknowledged' = [acknowledged EXCEPT ![p.page.reader] =
                        @ \cup {Posted(p, kind)}]
  /\ posting' = After(p, kind)
  /\ UNCHANGED <<texts, pages, shown, optIn>>

WriteOptIn(p) ==
  /\ p \in posting /\ p.left = {"opt_in"}
  /\ optIn' = [optIn EXCEPT ![p.page.reader] = IF p.tick THEN "on" ELSE "off"]
  /\ posting' = posting \ {p}
  /\ UNCHANGED <<texts, pages, shown, acknowledged>>

\* The request stops between two statements: none is in a transaction.
LosePost(p) ==
  /\ p \in posting
  /\ posting' = posting \ {p}
  /\ UNCHANGED <<texts, pages, shown, acknowledged, optIn>>

NoticeNext ==
  \/ \E kind \in Kinds, language \in Languages : PublishText(kind, language)
  \/ \E r \in Readers, language \in Languages :
       ShowNotice(r, language)
  \/ \E page \in pages, tick \in BOOLEAN : PostNotice(page, tick)
  \/ \E p \in posting : Acknowledge(p) \/ WriteOptIn(p) \/ LosePost(p)

NoticeSpec == NoticeInit /\ [][NoticeNext]_noticeVars

-----------------------------------------------------------------------------
(* SPEC.md: a version that was not on the page is not recorded as read.    *)
(* The portal opens to a reader in a language only when the very texts it  *)
(* would show there now have been on a page of theirs, whatever was        *)
(* published while pages were open and wherever a post stopped.            *)
OpensOnSeenTexts ==
  \A r \in Readers, language \in Languages :
    ~Due(r, language)
      => \A kind \in Kinds : Shown(kind, language) \in shown[r]
=============================================================================
