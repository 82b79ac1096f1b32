------------------------------ MODULE MCOffice ------------------------------
(***************************************************************************)
(* The office's parts, one at a time: no two of them write one table in    *)
(* the statements modelled, so a behaviour follows one part and the state  *)
(* spaces add.                                                             *)
(***************************************************************************)
EXTENDS Library, Staff, OfficeThread, Settings, Filing,
        People, Purge, Catalogue, Spaces, LeasePeople, Extraction, Ledger,
        LegalNotice, TLC

CONSTANTS a1, s1, i1, l1, l2, k1, n1, n2, y1, x1, x2

VARIABLE part

OfficeVars ==
  <<libraryVars, staffVars, threadVars, settingsVars, filingVars,
    peopleVars, purgeVars, catalogueVars, spacesVars, leasePeopleVars, allVars, ledgerVars,
    noticeVars, part>>

\* A red day after the amber one, and two forms that disagree.
OfficeGoals == {<<0, 1>>, <<3, 4>>}
\* One letting of two days; its tenant is the service contact.
OfficeTerms == {<<a1, 1, 2, TRUE>>}
\* A tenant with an identifier and a phone beside a guarantor with a phone,
\* and two tenants whose one identifier names nobody.
OfficeReading ==
  (l1 :> [tenant |-> [names |-> 1, ids |-> <<k1>>, phones |-> <<n1>>],
          guarantor |-> [names |-> 1, ids |-> <<>>, phones |-> <<n2>>]]) @@
  (l2 :> [tenant |-> [names |-> 2, ids |-> <<k1>>, phones |-> <<n2, n1>>],
          guarantor |-> [names |-> 0, ids |-> <<>>, phones |-> <<>>]])
\* Two papers of one flat.
OfficeFlat == (l1 :> y1) @@ (l2 :> y1)

OfficeInit ==
  /\ part \in {"library", "staff", "ask", "settings", "filing",
              "people", "purge", "catalogue", "spaces", "household", "reading",
              "ledger", "notice"}
  /\ LibraryInit
  /\ StaffInit
  /\ OfficeThreadInit
  /\ SettingsInit
  /\ FilingInit
  /\ PeopleInit
  /\ PurgeInit
  /\ CatalogueInit
  /\ SpacesInit
  /\ LeasePeopleInit
  /\ ExtractionInit
  /\ LedgerInit
  /\ NoticeInit
  /\ part # "ledger" => paperType = "lease"
  /\ leasePlace.kind # "none" => part = "ledger" /\ paperType = "lease"
  /\ part # "staff" => accounts[x1].row /\ \A x \in Addresses : holders[x] = s1
  /\ part # "settings" => \A c \in WaitingCalls : ~waiting[c].flagged

OfficeNext ==
  \/ part = "library" /\ LibraryNext
     /\ UNCHANGED <<staffVars, threadVars, settingsVars, filingVars,
                  peopleVars, purgeVars, catalogueVars, spacesVars,
                  leasePeopleVars, allVars, ledgerVars, noticeVars, part>>
  \/ part = "staff" /\ StaffNext
     /\ UNCHANGED <<libraryVars, threadVars, settingsVars, filingVars,
                  peopleVars, purgeVars, catalogueVars, spacesVars,
                  leasePeopleVars, allVars, ledgerVars, noticeVars, part>>
  \/ part = "ask" /\ OfficeThreadNext
     /\ UNCHANGED <<libraryVars, staffVars, settingsVars, filingVars,
                  peopleVars, purgeVars, catalogueVars, spacesVars,
                  leasePeopleVars, allVars, ledgerVars, noticeVars, part>>
  \/ part = "settings" /\ SettingsNext
     /\ UNCHANGED <<libraryVars, staffVars, threadVars, filingVars,
                  peopleVars, purgeVars, catalogueVars, spacesVars,
                  leasePeopleVars, allVars, ledgerVars, noticeVars, part>>
  \/ part = "filing" /\ FilingNext
     /\ UNCHANGED <<libraryVars, staffVars, threadVars, settingsVars,
                  peopleVars, purgeVars, catalogueVars, spacesVars,
                  leasePeopleVars, allVars, ledgerVars, noticeVars, part>>
  \/ part = "people" /\ PeopleNext
     /\ UNCHANGED <<libraryVars, staffVars, threadVars, settingsVars,
                  filingVars, purgeVars, catalogueVars, spacesVars,
                  leasePeopleVars, allVars, ledgerVars, noticeVars, part>>
  \/ part = "purge" /\ PurgeNext
     /\ UNCHANGED <<libraryVars, staffVars, threadVars, settingsVars,
                  filingVars, peopleVars, catalogueVars, spacesVars,
                  leasePeopleVars, allVars, ledgerVars, noticeVars, part>>
  \/ part = "catalogue" /\ CatalogueNext
     /\ UNCHANGED <<libraryVars, staffVars, threadVars, settingsVars,
                  filingVars, peopleVars, purgeVars, spacesVars,
                  leasePeopleVars, allVars, ledgerVars, noticeVars, part>>
  \/ part = "spaces" /\ SpacesNext
     /\ UNCHANGED <<libraryVars, staffVars, threadVars, settingsVars,
                  filingVars, peopleVars, purgeVars, catalogueVars,
                  leasePeopleVars, allVars, ledgerVars, noticeVars, part>>
  \/ part = "household" /\ LeasePeopleNext
     /\ UNCHANGED <<libraryVars, staffVars, threadVars, settingsVars,
                  filingVars, peopleVars, purgeVars, catalogueVars,
                  spacesVars, allVars, ledgerVars, noticeVars, part>>
  \/ part = "reading" /\ ExtractionNext
     /\ UNCHANGED <<libraryVars, staffVars, threadVars, settingsVars,
                  filingVars, peopleVars, purgeVars, catalogueVars,
                  spacesVars, leasePeopleVars, ledgerVars, noticeVars, part>>
  \/ part = "ledger" /\ LedgerNext
     /\ UNCHANGED <<libraryVars, staffVars, threadVars, settingsVars,
                  filingVars, peopleVars, purgeVars, catalogueVars,
                  spacesVars, leasePeopleVars, allVars, noticeVars, part>>
  \/ part = "notice" /\ NoticeNext
     /\ UNCHANGED <<libraryVars, staffVars, threadVars, settingsVars,
                  filingVars, peopleVars, purgeVars, catalogueVars,
                  spacesVars, leasePeopleVars, allVars, ledgerVars, part>>

OfficeSpec == OfficeInit /\ [][OfficeNext]_OfficeVars

\* The desks stand for every part's requests, and for the fields of a
\* document; the ledger's flats are alike; a1 and y1 are named above.
OfficeSymmetry == Permutations(Desks) \cup Permutations(LedgerFlats)

\* The directory: a number names one person, and none is shown untold.
PeopleHold == NumberNamesOnePerson /\ DisclosedIsTold

\* The estate: the list of spaces stands, and a purge strands nothing.
EstateHolds == SpacesHold /\ NothingIsStranded

\* What holds from a date until another date: of the library's versions one is
\* in force, and a type of document is declared until it is retired.
InForceHolds == OneVersionInForce /\ DeclaredUntilRetired
=============================================================================
