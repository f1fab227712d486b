-------------------------------- MODULE Desk --------------------------------
(***************************************************************************)
(* The components that keep to themselves, side by side: the pages of the  *)
(* administrators (prices, seasons, menu cards, single types, form editor, *)
(* ordered lists, the table of registrations), the submit limiter, the     *)
(* calendar, the schedule of the passes and the mirror of a form with one  *)
(* tab.  Nothing they do meets in one piece of state, so a behaviour runs  *)
(* one of them and the others stay as they started.  Two of them bring the *)
(* theorems proved about them, which DeskProofs uses.                      *)
(***************************************************************************)
EXTENDS Naturals, Sequences, FiniteSets

CONSTANTS
  Staff, Nothing,  \* administrators; null
  \* the Preturi page (PriceAdmin)
  PriceLists, ItemNames, ItemPrices, ListTitles, SectionNotes,
  FirstSectionNotes, FirstItems, FirstListTitles, MaxPriceAsks,
  MaxPriceFaults,
  \* the Sezoane page (SeasonAdmin)
  Seasons, SeasonLabels, CurrentSeason, FirstLabels, Writers, MaxSeasonEdits,
  \* the menu cards (MenuCards)
  MenuKeys, CardTexts, FirstCards, MaxCardUpdates,
  \* single types (PageEditing)
  PageFields, FieldValues, FirstValue, MaxTyped, MaxPageFaults,
  \* the form editor (FormConfig)
  Questions, LockedQuestions, HidableQuestions, QuestionTypes, QuestionTexts,
  DefaultText, CustomKeys, FreshKey, FirstOverlay, MaxFormEdits,
  MaxFormFaults,
  \* ordered lists (RowOrder)
  OrderedRows, RowNames, FirstList, MaxOrderAsks, MaxOrderFaults,
  \* the submit limiter (RateLimit)
  Addresses, SubmitLimit, SubmitWindow, MaxTime,
  \* the calendar (CalendarExpansion)
  MonthDays, FirstWeekday, CalendarRules, CalendarWindows, SummerTime, FirstCalendar,
  \* scheduled passes (PassSchedule)
  SheetForms, PassIntervals, DefaultInterval, Hour, Tolerance, Lateness,
  FirstLinks, MaxHours, MaxLinkSaves, MaxPassFaults,
  \* a one-tab form (SingleSheet)
  TabArrivals, TabRowLimit, FirstTabDocs, TabWorkers, MaxTabEdits,
  MaxTabToggles, MaxTabFaults,
  \* the table of registrations (SubmissionTable)
  AllRegistrations, Answers, FirstRegistrations, TableSeasons, Statuses,
  Relationships, OtherRelationship, PageSizes, FirstPageSize, MaxTableAsks,
  MaxTableFaults

VARIABLE part  \* the component that runs

VARIABLES priceRows, priceTitles, priceNotes, pricePage, priceJob, priceLog,
          priceAsks, priceFaults, priceOvertaken, priceRaced, priceUnlogged
VARIABLES seasonLabels, seasonLink, seasonText, seasonClerk, seasonWriter,
          seasonEdits, seasonOvertaken, seasonJoined, seasonSameLabel,
          seasonCrossed
VARIABLES menuOverrides, menuUpdate, menuUpdates, menuWanted, menuOvertaken,
          menuRaced
VARIABLES pageDraft, pagePublished, pageLoaded, pageValue, pageSaving,
          pageBody, pageCount, pageFaults, pageTyped, pageLate, pageOver,
          pageHalfway
VARIABLES formOverlay, formModel, formBaseline, formSaving, formMinted,
          formEdits, formFaults, formTouched, formBlind, formMeant
VARIABLES orderStyle, orderStored, orderList, orderJob, orderStray, orderAsks,
          orderFaults, orderBlind, orderCrossed
VARIABLES limitNow, limitStart, limitHits, limitLastPrune, limitPassed
VARIABLES calendarRule, calendarFrom, calendarTo, calendarCursor,
          calendarDates, calendarOccurrences
VARIABLES passLinks, passHour, passTick, passSave, passSaves, passFaults,
          passRan, passOverlapped
VARIABLES tableStored, tableWaiting, tablePage, tableSaves, tableParts, tableMove,
          tableAsks, tableFaults, tableExcused, tableSince, tableEarly,
          tableRaced
VARIABLES tabDocs, tabSent, tabQuestion, tabGrid, tabQueued, tabCached,
          tabJob, tabEdits, tabToggles, tabFaults, tabCrossed, tabEmptied

-----------------------------------------------------------------------------
Prices == INSTANCE PriceAdmin WITH
  Admins <- Staff, Lists <- PriceLists, Names <- ItemNames,
  Prices <- ItemPrices, Titles <- ListTitles, Notes <- SectionNotes,
  FirstNotes <- FirstSectionNotes, Stored <- FirstItems,
  Opened <- FirstListTitles, MaxAsks <- MaxPriceAsks,
  MaxFaults <- MaxPriceFaults, rows <- priceRows, titles <- priceTitles,
  notes <- priceNotes, page <- pricePage, job <- priceJob, log <- priceLog,
  asks <- priceAsks, faults <- priceFaults, overtaken <- priceOvertaken,
  raced <- priceRaced, unlogged <- priceUnlogged

SeasonPage == INSTANCE SeasonAdmin WITH
  Clerks <- Staff, Labels <- SeasonLabels, Current <- CurrentSeason,
  Labelled <- FirstLabels, MaxEdits <- MaxSeasonEdits,
  labels <- seasonLabels, link <- seasonLink, text <- seasonText,
  clerk <- seasonClerk, writer <- seasonWriter, edits <- seasonEdits,
  overtaken <- seasonOvertaken, joined <- seasonJoined,
  sameLabel <- seasonSameLabel, crossed <- seasonCrossed

Menu == INSTANCE MenuCards WITH
  Editors <- Staff, Keys <- MenuKeys, Texts <- CardTexts,
  Cards <- FirstCards, Empty <- Nothing, MaxUpdates <- MaxCardUpdates,
  overrides <- menuOverrides, update <- menuUpdate, updates <- menuUpdates,
  wanted <- menuWanted, overtaken <- menuOvertaken, raced <- menuRaced

Page == INSTANCE PageEditing WITH
  Browsers <- Staff, Fields <- PageFields, Values <- FieldValues,
  First <- FirstValue, MaxFaults <- MaxPageFaults, draft <- pageDraft,
  published <- pagePublished, loaded <- pageLoaded, value <- pageValue,
  saving <- pageSaving, body <- pageBody, count <- pageCount,
  faults <- pageFaults, typed <- pageTyped, late <- pageLate,
  over <- pageOver, halfway <- pageHalfway

Form == INSTANCE FormProofs WITH
  Editors <- Staff, Registry <- Questions, Locked <- LockedQuestions,
  CanHide <- HidableQuestions, Types <- QuestionTypes,
  Texts <- QuestionTexts, Default <- DefaultText, Blank <- Nothing,
  Fresh <- FreshKey, MaxEdits <- MaxFormEdits, MaxFaults <- MaxFormFaults,
  overlay <- formOverlay, model <- formModel, baseline <- formBaseline,
  saving <- formSaving, minted <- formMinted, edits <- formEdits,
  faults <- formFaults, touched <- formTouched, blind <- formBlind,
  meant <- formMeant

Order == INSTANCE RowOrder WITH
  Browsers <- Staff, Rows <- OrderedRows, Names <- RowNames,
  MaxAsks <- MaxOrderAsks, MaxFaults <- MaxOrderFaults, style <- orderStyle,
  stored <- orderStored, list <- orderList, job <- orderJob,
  stray <- orderStray, asks <- orderAsks, faults <- orderFaults,
  blind <- orderBlind, crossed <- orderCrossed

Limiter == INSTANCE RateLimit WITH
  Keys <- Addresses, Limit <- SubmitLimit, WindowMs <- SubmitWindow,
  now <- limitNow, start <- limitStart, hits <- limitHits,
  lastPrune <- limitLastPrune, passed <- limitPassed

Calendar == INSTANCE CalendarExpansion WITH
  Rules <- CalendarRules, Windows <- CalendarWindows, None <- Nothing,
  rule <- calendarRule, from <- calendarFrom, to <- calendarTo,
  cursor <- calendarCursor, dates <- calendarDates, occurrences <- calendarOccurrences

Passes == INSTANCE PassSchedule WITH
  Admins <- Staff, Forms <- SheetForms, Intervals <- PassIntervals,
  Default <- DefaultInterval, Never <- Nothing, MaxSaves <- MaxLinkSaves,
  MaxFaults <- MaxPassFaults, links <- passLinks, hour <- passHour,
  tick <- passTick, save <- passSave, saves <- passSaves,
  faults <- passFaults, ran <- passRan, overlapped <- passOverlapped

Tab == INSTANCE SingleSheet WITH
  Arrivals <- TabArrivals, RowLimit <- TabRowLimit,
  FirstDocs <- FirstTabDocs, Workers <- TabWorkers, Empty <- Nothing,
  MaxEdits <- MaxTabEdits, MaxToggles <- MaxTabToggles,
  MaxFaults <- MaxTabFaults, docs <- tabDocs, sent <- tabSent,
  question <- tabQuestion, grid <- tabGrid, queued <- tabQueued,
  cached <- tabCached, job <- tabJob, edits <- tabEdits,
  toggles <- tabToggles, faults <- tabFaults, crossed <- tabCrossed,
  emptied <- tabEmptied

Table == INSTANCE TableProofs WITH
  Browsers <- Staff, Newest <- AllRegistrations, Submitted <- Answers,
  AtFirst <- FirstRegistrations, Seasons <- TableSeasons,
  Current <- CurrentSeason, Kins <- Relationships, Alta <- OtherRelationship,
  Sizes <- PageSizes, FirstSize <- FirstPageSize, MaxAsks <- MaxTableAsks,
  MaxFaults <- MaxTableFaults, stored <- tableStored,
  waiting <- tableWaiting, page <- tablePage, saves <- tableSaves,
  parts <- tableParts, move <- tableMove, asks <- tableAsks,
  faults <- tableFaults, excused <- tableExcused, since <- tableSince,
  early <- tableEarly, raced <- tableRaced

priceState == <<priceRows, priceTitles, priceNotes, pricePage, priceJob,
  priceLog, priceAsks, priceFaults, priceOvertaken, priceRaced,
  priceUnlogged>>
seasonState == <<seasonLabels, seasonLink, seasonText, seasonClerk,
  seasonWriter, seasonEdits, seasonOvertaken, seasonJoined, seasonSameLabel,
  seasonCrossed>>
menuState == <<menuOverrides, menuUpdate, menuUpdates, menuWanted,
  menuOvertaken, menuRaced>>
pageState == <<pageDraft, pagePublished, pageLoaded, pageValue, pageSaving,
  pageBody, pageCount, pageFaults, pageTyped, pageLate, pageOver,
  pageHalfway>>
formState == <<formOverlay, formModel, formBaseline, formSaving, formMinted,
  formEdits, formFaults, formTouched, formBlind, formMeant>>
orderState == <<orderStyle, orderStored, orderList, orderJob, orderStray,
  orderAsks, orderFaults, orderBlind, orderCrossed>>
limitState == <<limitNow, limitStart, limitHits, limitLastPrune, limitPassed>>
calendarState == <<calendarRule, calendarFrom, calendarTo, calendarCursor,
  calendarDates, calendarOccurrences>>
passState == <<passLinks, passHour, passTick, passSave, passSaves, passFaults,
  passRan, passOverlapped>>
tabState == <<tabDocs, tabSent, tabQuestion, tabGrid, tabQueued, tabCached,
  tabJob, tabEdits, tabToggles, tabFaults, tabCrossed, tabEmptied>>
tableState == <<tableStored, tableWaiting, tablePage, tableSaves, tableParts,
  tableMove, tableAsks, tableFaults, tableExcused, tableSince, tableEarly,
  tableRaced>>

ASSUME DeskAssumption ==
  /\ Prices!StoredAssumption
  /\ SeasonPage!SeasonsAssumption
  /\ Menu!CardsAssumption
  /\ Page!PagesAssumption
  /\ Form!FormAssumption
  /\ Order!OrderAssumption
  /\ Limiter!LimitAssumption
  /\ Calendar!CalendarAssumption
  /\ Passes!ScheduleAssumption
  /\ Tab!SheetAssumption
  /\ Table!TableAssumption

-----------------------------------------------------------------------------
Init ==
  /\ part \in {"prices", "seasons", "menu", "pages", "forms", "order", "limit", "calendar",
               "passes", "tab", "table"}
  /\ Prices!Init
  /\ SeasonPage!Init
  /\ Menu!Init
  /\ Page!Init
  /\ Form!Init
  /\ Order!Init
  /\ Limiter!Init
  /\ Calendar!Init
  /\ Passes!Init
  /\ Tab!Init
  /\ Table!Init
  /\ part # "tab" => ~tabQuestion
  /\ part # "order" => orderStyle = "puts"
  /\ part # "calendar" => <<calendarRule, calendarFrom, calendarTo>> = FirstCalendar

Next ==
  /\ UNCHANGED part
  /\ IF part = "prices" THEN Prices!Next ELSE UNCHANGED priceState
  /\ IF part = "seasons" THEN SeasonPage!Next ELSE UNCHANGED seasonState
  /\ IF part = "menu" THEN Menu!Next ELSE UNCHANGED menuState
  /\ IF part = "pages" THEN Page!Next ELSE UNCHANGED pageState
  /\ IF part = "forms" THEN Form!Next ELSE UNCHANGED formState
  /\ IF part = "order" THEN Order!Next ELSE UNCHANGED orderState
  /\ IF part = "limit" THEN Limiter!Next ELSE UNCHANGED limitState
  /\ IF part = "calendar" THEN Calendar!Next ELSE UNCHANGED calendarState
  /\ IF part = "passes" THEN Passes!Next ELSE UNCHANGED passState
  /\ IF part = "tab" THEN Tab!Next ELSE UNCHANGED tabState
  /\ IF part = "table" THEN Table!Next ELSE UNCHANGED tableState

Spec == Init /\ [][Next]_<<part, priceState, seasonState, menuState, pageState, formState,
                          orderState, limitState, calendarState, passState,
                          tabState, tableState>>

-----------------------------------------------------------------------------
(* The properties, as their modules state them.                            *)

\* The state of the running component has its shape.
TypeOK ==
  /\ part = "prices" => Prices!TypeOK
  /\ part = "seasons" => SeasonPage!TypeOK
  /\ part = "menu" => Menu!TypeOK
  /\ part = "pages" => Page!TypeOK
  /\ part = "forms" => Form!TypeOK
  /\ part = "order" => Order!TypeOK
  /\ part = "limit" => Limiter!TypeOK
  /\ part = "calendar" => Calendar!TypeOK
  /\ part = "passes" => Passes!TypeOK
  /\ part = "tab" => Tab!TypeOK
  /\ part = "table" => Table!TypeOK

\* Price lists: a name finds one price, the history accounts for what is stored,
\* a late request changes no other price (price-admin-service.ts, price-admin.ts
\* checkExpected).
PricesKept == [](part = "prices" => Prices!NamedOnce /\ Prices!HistoryBalances) /\ Prices!OthersKept

\* Seasons: two do not share a label, and a registration's link and text agree
\* (season-admin-store.ts labelTaken, season-admin-service.ts updateRefusal).
SeasonsAgree == part = "seasons" => SeasonPage!LabelsOnce /\ SeasonPage!MarksAgree

\* Single types: a save stores only what its user typed, is published, and takes
\* away only text typed while it ran (contentApi.ts:227, useSingleType.ts:37).
PagesKept ==
  [](part = "pages" => Page!NothingUnpublished) /\ Page!OnlyTypedStored /\ Page!OnlyLateTextLost

\* Forms: a save changes what its editor touched and is asked as the page showed
\* it, answers are demanded where the site shows so, and a key keeps its type
\* (form-config.ts saveConfig, buildOverlay, effectiveRequired).
FormKept ==
  /\ [](part = "forms" => Form!RequiredIsShown /\ Form!KeyMeansOne)
  /\ Form!UntouchedKept /\ Form!SavedIsAsked

\* Lists edited whole: a menu card shows what was last asked for it, a page of an
\* ordered list at rest shows what is stored, and an answered order is the stored
\* one (navigation.ts:76, SponsoriPage.tsx move, announcement.ts reorder).
ListsKept ==
  /\ [](part = "menu" => Menu!LastAskedShown)
  /\ [](part = "order" => Order!PageTrue) /\ Order!OrderAsAsked

\* The table of registrations: a page at rest shows what is stored, ticks are on
\* the screen, a season's move takes only its rows (SubmissionTable.tsx).
TableKept ==
  /\ [](part = "table" => Table!TableTrue /\ Table!SelectionShown)
  /\ Table!MovesOnlyItsSeason

\* Submits: at most twice the limit in a window's length (rate-limit.ts:14).
PassesBounded == part = "limit" => Limiter!PassesBounded

\* Calendar: the loops find the days the rule means, occurrences are answered on
\* the days they are held, and end after they start (expand.ts expandOccurrences,
\* weekIndex, outDate, endsNextDay).
OccurrencesRight == part = "calendar" => Calendar!OccurrencesRight

\* Scheduled passes: a form has one link row, its passes come on time, and what
\* administrators chose stays (cron-tasks.ts, store.ts).
PassesPunctual == []Passes!OneLink /\ Passes!Punctual /\ Passes!ChoicesKept

\* One-tab forms: rows stay in place and a pass repairs the tab (sync.ts
\* batchSingle, reconcileSingle, resyncSingle).
TabKept == [](part = "tab" => Tab!RowsInPlace) /\ Tab!PassRepairs
=============================================================================
