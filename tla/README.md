# A verification project for libraryManagement

libraryManagement is an iOS app (Swift, UIKit) with which the librarians of one
library lend books to students. Every librarian's device talks to the same
Firestore database; there is no server code of the app's own. This directory
holds TLA+ models of the app's own code (`libraryManagement/libraryManagement`
and `libraryManagement/New Group`) and of the part of the vendored Firestore
client that carries its writes, TLC runs that check them on small instances, and
TLAPS proofs of what matters most for every instance. The rest of `Pods` is
third-party code and `Class` is not part of the build.

## Inventory

State shared by all devices (Firestore): the collections `Books` (with the
string `quantity` and the number `check`, the copies on loan), `BorrowCard`
(one document per loan: `status` "1" or "0", `ID_book`, `ID_student`),
`Students`, `Rules` (the title is the document id), `Accounts` (the email is
the id). State of one device: `UserDefaults`, one dictionary for all screens,
kept over restarts (`check`, `ID_books`, `ID_students`, `ID_rules`, `listBook`,
`data`, `listID`, `ID_current_*`, `current_user`, and a copy of each document a
table has shown, under the document's id); the screens; Firestore's own cache
and queue of writes, also kept over restarts.

| part | state and operations | what is hard | what makes it right |
|---|---|---|---|
| Lending: `addNewBorrowingCardViewController`, `BorrowCard.addCard` | names a book, reads its document, adds a card, then writes `check` + 1 | read, card and counter are three separate steps; the key `check` is shared by all screens; confirm does not wait for the answer; the app may die in between | the counter is the number of open cards; no more cards than copies |
| Returning: `editBorrowCardViewController` | shows a card, reads its book, closes the card, then writes `check` − 1 | the same; closing twice; closing on two devices | a card is closed once and uncounted once, and never reopens |
| Card list: `editInfoStudent…`, `listBorrowingCardStudent…` | a listener per edit screen, the keys `data` and `listID`, rows, row taps, the add button | listeners of earlier students write the same keys; rows are drawn from keys that move on | the keys end up with the student shown; the row tapped is the card opened; a student with an open card gets no other |
| Book catalogue: `addBooks…`, `editInfoBook…`, `manageBooks…`, `bookMenu…`, `Book` | duplicate check by name, save, edit from the device's copy, picture upload | the decision does not wait for the check's callbacks; an edit writes back an old counter | a book is saved once; an edit changes no counter; quantity ≥ loans |
| Students: `studentMenu…`, `manageStudents…`, `addStudents…`, `editInfoStudent…`, `Student` | lists of ids, duplicate check by id, edits | the check's answers come after the decision; a listener that is never removed adds again | one document per student id |
| Accounts: `login…`, `register…`, `account…`, `editAccount…`, `resetPassword…`, `Account` | sign in, `current_user`, profile and password | the main screen does not wait for `current_user`; two services written one after the other | the profile shown is the signed-in user's |
| Rules: `rule…`, `addRules…`, `editInfoRule…`, `Rule` | list, add, edit | each row picks its document by index in every later answer; listeners are never removed and answers of different ages wait together | a row has a document in every answer, and shows its rule once they have run; an edit makes no new rule |
| Statistics: `statisticBooks…`, `statisticStudents…` | sums over one answer | the answer may mix old and new writes | the totals are those of the open cards |
| Firestore client: `Firestore/core/src/{local,remote,core}` | the queue of writes and the cache on disk; the pipeline of ten, the write stream, the idleness timer in memory | answers are linked to writes by order alone; the answer and the listener's snapshot race; a stream may break, the app stop and the user change between any two tasks | each write is sent in order and at last answered; the cache never goes back |

The screens interact only through Firestore and `UserDefaults`: no screen calls
another. The tab bar stays in reach of the borrow and return screens, so work on
the student tab and on the book tab interleaves on one device.

## Modules

**`Circulation`** is lending, returning, and what the book tab does to the
counters, on any number of devices.

- `books`, `cards` are the server's documents, reduced to the fields that count.
  A missing field is `None`; a document without fields does not exist.
- `seenBooks`, `seenCards`, `queue` are Firestore on each device (external): the
  last server state it heard of, and its own writes not yet applied. Reads see
  the first overlaid with the second (`BookView`, `CardView`), so a read while
  offline, a cached answer, and a copy kept by a listener are all the same
  thing: a view that may be old. `Commit` applies the oldest write of a device,
  `SyncBook`/`SyncCard` bring one document up to date; both may come at any
  time or never. Queue and cache survive `Crash`. `Commit` applies each write
  once; `FirestoreClient` says what is behind it.
- `check` is the `UserDefaults` key of that name. `addBooksViewController` and
  `addStudentsViewController` store a Bool in it, the other screens a number;
  false and true are the numbers 0 and 1, as `NSNumber` has them. `AddStudent`
  is all that adding a student does here: it resets the key.
- `screen`, `id`, `confirm`, `alert`, `current`, `switch` are the screen on top
  of the card list; `adding` is a duplicate check that runs; `reads` are the
  `getDocument` calls without an answer. An answer may come after its screen has
  gone (its closure holds the screen): `live` says whether there is still a
  button to enable. A device has no two equal reads unanswered.
- Each action is a whole handler or callback. `ConfirmAction` adds the card and
  shows the alert; `OkBorrow` is the alert's handler. `ConfirmReturn` queues both
  writes of `confirmButton`. The handlers in which a forced cast or an empty
  document path stops the app are actions of their own (`OkBorrowFails`,
  `ConfirmReturnFails`, `OpenCardFails`, `AddDecisionFails`, `PartialAnswer`).
  Alerts that only leave the screen are part of the handler that shows them.
- `IDBeforeDash` is what `bookIDAction` makes of a list entry `ID-name`: an id
  with a dash loses its tail.
- `Duty` says what each device does in an instance, so that one run can have two
  desks and another a device with everything.
- `posted` and `clean` are history variables, read by no action. `posted[b]`
  holds the loans whose +1 the server has applied and whose −1 it has not.
  `clean[b]` turns false at the events the code does not guard against: a
  counter write computed from a value that is no longer the server's, or a
  return of a loan not counted (`Sound`); an app stopped between card and
  counter (`Tears`, `ConfirmReturnFails`); an add over an existing book (the
  basis 0 is then not the server's value).

**`Ledger`** is the abstract specification of the cards: issued once, for one
book, returned once. `Circulation` implements it through
`loan <- status`, `of <- book`.

**`PatientDesk`** takes the same actions under the discipline the design relies
on and the code does not enforce: one librarian at a time, on a device that has
caught up; answers awaited; only open cards closed; new books under new ids; only books
lent whose id has no dash; no quantity typed below the loans; no app killed. Under it the counters are right
without any history, and so are the totals that `Statistics` shows.

**`CardList`** is how one device comes to a card: the table of students, the edit
screen, the card list, and the way back from the two screens of `Circulation`.

- `cards` is the device's view of `BorrowCard` (external). A change of the view
  puts one callback for each listener on the main queue (`due`), in the order
  the listeners were attached; `Hear` runs the first. A callback carries the
  answer of the moment it was put there.
- `listeners` are those of the edit screens opened so far: none is removed, each
  keeps the cards of its own student, and all write the same keys (`list`).
- `saved` are the copies that rows leave under the cards' ids; `TapRow` fills the
  card screen from the copy under the id that the keys *now* have at the row's
  index, and shows the wrong card, or stops the app, when the keys have moved on.
- `addShown` is the add button: each row drawn hides or shows it, so the last
  row decides.
- `idCards` says whether the installation has the key `ID_cards`, which
  `viewWillAppear` of the list forces and no code of this version sets. Without it
  `OpenCards` and every way back to the list stop the app; with it (left by an
  earlier version, or as the copy of a book of that id) the list appears.
  Behaviours are on either installation.

**`Rules`** is the rules' titles, table, add screen and edit screen on one device.
`listeners` are 0 for one of the menu or the add screen, and the row for one of a
row; `due` is the main queue as in `CardList`; `ids` is the key `ID_rules`, which
gives the table its number of rows; `shown` are the labels; `form` what the edit
screen was filled with. `VisitTab` is a librarian who looks at another tab and
comes back: the add screen attaches a listener as it goes away, and the tab with
the menu empties the key. `DeleteRow` stops the app, as the code does.

In `CardList` and `Rules`, `habits` says what happens in a behaviour (a librarian
who hurries, restarts, other devices), and each property names the habits under
which it holds.

**`Students`** is the list of students, its table, the edit screen and the add
screen, on any number of devices.

- `students` are the server's documents, by generated id; a document with an
  empty name is free, and the add screen may take it. `view` and `queue` are
  Firestore on each device, as in `Circulation` but simpler: every write here
  sets all fields of a document, so a view is one whole document.
- `ids` is the key `ID_students`, emptied and asked for by the menu; `loads` are
  its answers still out; `table` is what was drawn from `ids`; `cells` and
  `copy` are the cells' listeners and the copies they leave in `UserDefaults`,
  from which `TapRow` fills the edit screen. `DeleteRowFails` is the deletion of
  a row, which stops the app.
- `asked` are the listeners `confirmButton` attaches when the list has one id.
  They are never removed. Two that have not heard anything and are of one
  document and one student are one.

**`Session`** is who is signed in on one device: Firebase Auth's `users` and
`signedIn`, the documents `profiles` of `Accounts`, the copy `currentUser`, and
the screens. `calls` are the calls to Auth and the read after a sign-in, each
answered at any later time; an answer to a sign-in or a register uses the email
field as it is *then* (`text`). `ErrorAnswer` is a call that fails, the read of the
profile too: its callback then does nothing, and `currentUser` stays the user
before. The history variable `profileRead` says that the read of this sign-in has
found its user's document. `UserCreated` and `CreateAnswer` are the two
halves of a register, in the service and on the device. `habit` is what the
librarian is like; the properties name the habits under which they hold.

**`FirestoreClient`** is what happens to a write after `setData` or `updateData`
has returned, in the client that the app links.

- `docs` and `clock` are the server (external): each document has a version,
  which changes only when its data do. `batches` (the mutation queue of each
  user) and `cache` (the remote documents) are in LevelDB and survive a restart;
  `pipeline`, `stream`, `idle`, `nextId` are memory. `requests`, `responses` and
  `events` are what is on its way; a broken stream loses what is on it.
- All of the client runs on one worker queue, so an action is one task of it:
  `WriteMutations`, `OnWriteStreamOpen`, `OnWriteStreamHandshakeComplete`,
  `OnWriteStreamMutationResult`, `OnWriteStreamClose`, `HandleWriteError`,
  `BackoffElapsed`, `IdleTimeout`, `HandleCredentialChange`, `Initialize` (a
  restart), `ApplyRemoteEvent`, `OnWatchStreamClose`. The server's steps are
  `ServerTakes`, `ServerRefuses`, `ServerSends`; `OtherDeviceWrites` is everybody
  else.
- A write is a set, a merge or an update of one document, which is all the app
  issues; an update of a document that is not there is refused, and so is any
  write of a user in `Denied`.

**`Replica`** is the abstract specification of that: each user has a queue of
writes, taken in order, confirmed from the oldest; what was taken and not
confirmed may be forgotten and taken again; only the oldest may be refused.
`FirestoreClient` implements it. So `Circulation`'s `Commit`, which takes a write
once, leaves out that a write may be applied a second time when its answer is
lost. The counter writes store a value rather than add to one, so taking one
again puts back the value that was to be stored, which differs from the
server's only if somebody else has written in between.

**Proof modules**: `CirculationProofs`, `PatientDeskProofs`, `SessionProofs`,
`StudentsProofs`, `CardListProofs`, `RulesProofs`, `FirestoreClientProofs`, and
`Ranks`, the lemmas on finite sets, inductions and sums that five of them cite.

**`MC…`** modules give the constants their values. Operators named `X_Y` beside a
definition `X` are `X` with a plausible mistake; nothing in the specifications
uses them. They show, for each property, a slip in the code that breaks it.

## Runs

| run | instance | shows |
|---|---|---|
| `two_desks` | 2 devices that lend, return and are killed; 1 book, 1 card; `Commit` fair | `TypeOK`, `LedgerExact`, `LoansAccounted`, `CounterFollowsCard`, `SettledExact`: with concurrency, restarts and double returns, only the named events make a counter drift, and until then every loan is counted or on its way to be; `ImplementsLedger`; `ReturnsCounted` (liveness) |
| `one_device` | 1 device with every duty, 3 books, two not there yet, one id cut to another's, 1 read unanswered | `CountersBounded`, `WholeBooks`: late answers of one screen land in the key another screen uses, and loans may be lost by it, but none is made up and no book becomes a counter alone |
| `patient_desk` | 2 devices with every duty, 2 books, 2 cards | `DeskExact`, `TotalsAgree`, `LentWhenAvailable`, `KeyIsTheBooks`: under the discipline no history is needed |
| `card_list` | 2 students (one deactivated), 4 card ids, 3 listeners, 4 callbacks waiting, every set of habits, with the key `ID_cards` and without | `TypeOK`, `ListOfNewest`, `RowOpened`, `StopsForKeyOnly`, `LastCardClosed` |
| `rules` | 3 titles, 2 texts, 6 listeners, 7 callbacks waiting, every set of habits, other tabs visited | `TypeOK`, `RowsStand`, `ShownIsRule`, `EditKeepsTitles` |
| `student_rows` | 1 device that adds, edits and is restarted; 2 documents, 2 list reads out | `TypeOK`, `RowOpened`: only a list still awaited moves rows under the librarian |
| `student_stays` | 2 devices that add to a library with one free document | `AddStays`: both students end up in the library (liveness) |
| `session` | 3 emails, 2 passwords, 2 calls; librarians patient and hurried, each with restarts and lost answers and without; reads that fail | `TypeOK`, `ProfileHasUser`, `AdminKept`, `ProfileShown`, `UserHasProfile` |
| `firestore_client` | 2 documents, 2 users, a pipeline of 2, 3 writes, 1 of another device, 2 faults | `TypeOK`, `IdsIncrease`, `PipelineIsQueue`, `AnswersFollowPipeline`, `StreamNeeded`: the assertions of the code hold; `CacheHonest`, `CacheForward`, `NoFlicker`: what the app reads never goes back, and an answer does not disturb it; `ImplementsReplica`; `Settles` (liveness) |

Three runs show a claim of the screens that the code breaks:

- `lent_available`: the only copy is lent twice; "* No available book in
  library" and the disabled button come too late for a quick tap.
- `add_existing`: "This book is existed" is shown only if the answers beat the
  decision; otherwise the book is saved.
- `session_password`: creating an account signs the new user in, so "Update info
  and password" then changes the new user's password and the old user's name.

Met while modelling, and plain to see in the code without a search:

- a quantity below the loans is refused with "Not suitable quantity !!!" and
  stored as 0 (`editInfoBookViewController` 61–70);
- two different passwords are refused with an alert and the account is created
  (`registerViewController` 114–120);
- with two or more students in the list an existing number is never refused
  (`addStudentsViewController` 174);
- an edit of the only student makes the listener of an earlier confirm add its
  student again (`addStudentsViewController` 136–161);
- the card list unwraps the key `ID_cards`, which no code sets, so it stops the
  app on an installation of this version whenever it appears
  (`listBorrowingCardStudentViewController` 80; `StopsForKeyOnly`);
- a read of the profile that fails goes the way of one that finds nothing, on to
  the main screen: `current_user` stays the user before, who is then shown as the
  one signed in (`loginViewController` 29–34);
- deleting a row of the students', books' or rules' table stops the app:
  `deleteRows` is called and the table's data stay as they were;
- a write that changes nothing is answered with the version the document has; when
  the answer to an earlier write of the device has put that version into the
  cache, over an older document, the cache is left as it is (`local_store.cc` 213)
  and the write vanishes from what the app reads until the listener's snapshot
  (`NoFlicker` excepts this case, and TLC finds it when it does not);
- the Firestore client's header says that the handshake carries a stream token
  (`write_stream.h` 84–85, 121–122); `write_stream.cc` 73 sends none.

**Bounds.** *Circulation.* `MaxQueue` = 2 holds both writes of a return, and one
more write than a loan has outstanding at once; longer queues only delay writes
that are already stale. `MaxReads` is 1: the one read may be answered after its screen has gone, while a
duplicate check, a later screen or no screen at all uses the key; that two
answers cross as well is covered by the proofs, which hold for every bound.
One card is enough for a loan to be returned twice or by two devices; `Card` has
two in `patient_desk` and `lent_available`, where the last copy is at stake.
What more cards and devices would do to the counters is proved (below).
`MaxCheck` = 2: two loans counted, or one counted from a polluted key, and in
the key the number that is no Bool (`AddDecisionFails`). In `one_device` it cuts
off nothing: one card is one loan confirmed, and 2 is what `CountersBounded` then
allows, which the run reaches when a counter is computed from the `true` of a
duplicate check. `MinCheck` = 0 stops a device that would write −1; a double
return still happens, by two devices that read 1. *Students.* In `student_rows` two reads are unanswered, so that a list drawn may
be replaced twice; `student_stays` has one document for each insertion its
listeners may make (`MaxWrites` = 2 for each of two). *Session.* Three emails are
the first account, one being created and one more; two calls let a sign-in or a
register overtake another. *CardList.* Three listeners are two students and one
of them again; four ids leave one below, between and above the two cards there
are, and `MaxCalls` = 1 is one restart or one change by another device. *Rules.*
The rule at the start is the middle one of three titles, so rules can be inserted
above and below the row drawn; six listeners are those of the menu, of the
rows, and of several visits to the add screen. *FirestoreClient.* `kMaxPendingWrites` is 10 in the code
and 2 here, so that three writes overfill it; two faults are a broken stream and
a restart, or a change of user and back; one snapshot on its way is as late as
one can be, since snapshots of one stream stay in order. The writes replace one
document and create, update and merge another that another device may have
created, so that an update is refused or not, and a merge may change nothing. Symmetry is used only
in `patient_desk`, among its cards and among its devices, whose duties are
equal. Deadlock is not checked in `card_list` and `rules`, where a stopped app
stays stopped, and in `firestore_client`, where all the writes may be done.

**Fairness.** `FairSpec` of `Circulation` adds weak fairness of `Commit` for each
device: Firestore sends a queued write again until the server has taken it, over
restarts too. Nothing else is fair: a librarian may leave an alert open for
ever, and an answer may never come. `FairSpec` of `Students` adds, besides
`Commit`, that a document with a listener is fetched and the listener told,
which is what a Firestore listener is for; documents nobody listens to need not
be. `AddStays` holds only where no app is restarted, since listeners end with
the process. `FairSpec` of `FirestoreClient` is weak fairness of the tasks that
carry writes and of those that carry snapshots, each as a whole: the worker queue
runs every task it is given, a backoff delay ends, and a server that can be
reached answers. Faults are not fair and come to an end.

**What the properties do not cover.** A property that holds cannot rule out what
the code does. `LedgerExact`, `LoansAccounted` and `SettledExact` excuse, through
`clean`, the events that make a counter drift, and say only that there are no
others; of those events themselves, `CountersBounded` says how far they go
upwards, and nothing bounds the counts they lose. The properties of `PatientDesk`
hold under its discipline, `RowOpened` of `Students` where no list is awaited, and
those of `Session` under the habits they name. The interleavings left out there
are flaws of the code and no property's matter: an old counter written back by an
edit, a loan counted down twice, an add over an existing book, a repeated add of a
student, a list that arrives under a tap, a profile read late or by another email,
a register cut short, an open card that is not the last, totals over drifted
counters. `PROJECT.json` keeps each as a hazard with the reason why no property
covers it.

## Proofs

A theorem holds for every value of the constants that the module's `ASSUME`
allows: any numbers of devices, documents, titles, users and calls. The
assumptions say no more than that `None` is not one of the data, that ids are
ordered (they stand for strings), and, where a table's row picks an id or cards
are counted (`FiniteCards`), that they are finitely many.

`CirculationProofs`:

- `TypeCorrect`: `Spec => []TypeOK`. The inductive invariant adds `ScreenOK` (a
  return screen knows its card and book), without which the writes of
  `ConfirmReturn` have no type. The one fact about data is that a set of
  positions of a queue has a last one (`LastOfIsIn`); it is proved by a
  pigeonhole argument, since the provers cannot instantiate an induction
  theorem.
- `LedgerExactHolds`: `Spec => []LedgerExact`. The inductive invariant
  `CounterInv` adds `AmountsOK` (each queued write is one above, one below, or
  equal to the value it was computed from, as its reason says) and that the sets
  `posted[b]` are finite. Screens change neither the server nor `posted` and
  never make a counter clean again (`Apart`); only `CommitBook` has work to do,
  one case for each reason of a write.

What that says of the code: whatever the number of devices and the order of taps,
answers, restarts and queued writes, a drift of a counter has one of the named
causes. The causes are real, as the runs' traces show; `PatientDesk` shows that
without them the counters are exact.

- `WholeBooksHolds`: `Spec => []WholeBooks`. `WholeInv` says of a book whose id
  is no other's cut at a dash that whatever names it (a counter write, a card, a
  screen) has its whole document before it, on the server or earlier in the same
  queue, so that `Commit` never applies a counter write without the document.

- `CountersBoundedHolds`: `Spec => []CountersBounded`, which excuses nothing: not
  the late answer, not the old copy, not the app that stops. `BoundInv` says of
  everything a counter is computed from or will become (the counters, what each
  device has seen of them, the keys, the queued writes) that it is at most one
  more than the number of cards issued whose alert has gone (`Done`). The one is
  the `true` that a duplicate check leaves in the key. Only `OkBorrow` writes one
  more than it read, and it is the end of an alert which no later step brings
  back (`AlertsNew`), so the bound moves with it.

The rest of the module is about the loans one by one. `LoanInv` has three parts: `KnownInv`
(what a device has seen of a card is true of it, a card is added once, and every
close, loan and return is of a card the device knows before it), `TokenInv` (the
+1 of a card is in one place only: one alert, one write, or the counter) and
`WayInv` (a loan that is open and not counted, or counted and not open, has its
write on the way). From it follow `CounterFollowsCardHolds`,
`LoansAccountedHolds`, `SettledExactHolds`, and `ImplementsLedgerHolds`, the
refinement of `Ledger`: every step of every device issues a card, returns one, or
leaves the ledger as it is.

`PatientDeskProofs`: `DeskExactHolds`, `KeyIsTheBooksHolds`,
`LentWhenAvailableHolds`, `TotalsAgreeHolds`. Every step of `PatientNext` is a step
of `Circulation`, so its invariants hold here for nothing; `PatientInv` adds
`DeskInv`, which says what the discipline amounts to: one device has a screen,
a read or a write under way (`OneTurn`), what it sees is what the server has once
its writes are in (`UpToDate`), no counter has drifted (`NoneDrifted`), every book
has its copies (`AllStocked`), and each stage of a screen has its writes, its alert
and its reads agree (`DeviceOK`: `WritesOK`, `AddingOK`, `BorrowOK`, `BackOK`). The
exact counter is then `SettledExact`, with nothing on its way and none drifted.
The last copy is the case to prove of `LentWhenAvailable`: the counter read is the
counter there is when confirm is tapped, because the turn is one device's.
`TotalsAgree` compares two sums over the books; it supposes that they are finitely
many, as a query's answer is.

`SessionProofs`:

- `TypeCorrect`. An edit of a document would have no type if the form named a
  document that is not there; `ScreensOK` and `KnownOK` carry that what the
  screens know came from a document.
- `ProfileHasUserHolds`, `AdminKeptHolds`, `UserHasProfileHolds`. The invariant
  `LinkInv` adds `CreatesOK`: where nobody retypes, an answered register is of a
  user who exists, is not the first account, and writes its own document; and
  `Awaited`: a user without a document has a register still to be answered.
  `UsersOK` keeps a password change from creating a user.
- `ProfileShownHolds`, from `PatientOK`: a patient librarian has one call out at a
  time, the read that is out is of the user signed in, and once it has found the
  document nothing he does puts another into the key; restarts and lost answers
  are allowed. Before it, or where it fails, the property says nothing, because
  there the code does show the user before.

`StudentsProofs`: `TypeCorrect`, with `EditOpen` (a form was filled before it is
written); and `RowOpenedHolds`, from `RowsStay`: the rows of a table drawn while
no list was awaited are still the list, because only the menu asks for a list,
and it takes the table away.

`CardListProofs`: `TypeCorrect`, `ListOfNewestHolds`, `RowOpenedHolds`,
`StopsForKeyOnlyHolds`, `LastCardClosedHolds`. The inductive invariant `DeskInv` rests
on `QueueInv`: the last callback waiting carries the present view and is the last
listener's, who is the current student's. `PatientOK` then says what a librarian
who waits has in front of him: rows that are the keys, each with its copy, so
that of all the unwraps on his way only that of `ID_cards` can fail, and it does
whenever the key is not there.

`RulesProofs`: `TypeCorrect`, `RowsStandHolds`, `ShownIsRuleHolds`,
`EditKeepsTitlesHolds`. `QueueInv` says that answers wait in the order of their
age and only grow (`OlderOK`), that a row's listener has a callback waiting that
carries the present view or shows it already (`RowsFresh`), and that no row is
past the end of any answer waiting (`RowsStand`, `RowsBound`). `EditKeepsTitles`
follows from the labels: each is the storyboard's or a title there is, and
titles are never taken away.

`FirestoreClientProofs`: `TypeCorrect`, `IdsIncreaseHolds`, `PipelineIsQueueHolds`,
`StreamNeededHolds` and `ClientInvariant` (with `AnswersFollowPipeline`), which
together are the assertions the client makes and one inductive invariant, `IInv`;
`CacheGoesForward` and `CacheIsHonest`, from what is true of the versions that
answers and snapshots on their way carry (`CInv`); `NoFlickerHolds`; and
`ImplementsReplicaHolds`, the refinement of `Replica`: an answer confirms the
oldest write because the answers follow the pipeline and the pipeline is the front
of the queue, and whatever ends the stream forgets what the server has taken.
`NoFlickerHolds` needs two things. One is `AInv`: wherever there is a document of
the version an answer carries, at the server, on its way, or in the cache from
there, it has the answered write in it, so that applying it again changes nothing.
The other is what the view is: `OverlayOfTail` says that the first write of a queue
may be applied to the document instead.

`Ranks` proves that a finite set of numbers has, for each rank up to its size, an
element of that rank; `SetInduction`, induction up to a number with the property
given as a set; and what the fold `MapThenSumSet` of the statistics computes. The
library's induction theorems take the property as an operator, which the provers
cannot instantiate; a property that is a set of numbers needs no operator, and
follows from the least element that a well-founded order gives. By it the
recursive functions of the models (the view over a queue, the sum over a set) have
values, and facts about them are proved.

Every invariant, action property and refinement of the passing runs is proved.
Only model-checked is liveness (`ReturnsCounted`, `AddStays`, `Settles`), which is
out of the prover's reach.

## Plan

Done: `Circulation`, `Ledger`, `PatientDesk` with `Statistics`, `Students`,
`Session`, `CardList`, `Rules`, `FirestoreClient`, `Replica`, and the proofs of
their safety properties. Left, in this order:

1. Of liveness, the part that is safety: the measures that the fair steps make
   smaller and no other step of the same kind makes larger.
2. The book tab's rows, whose handlers are those of the students' table; and the
   picture's upload, with an `avatarURL` that does not wait for it.
3. The read side of the Firestore client: targets and resume tokens.

## Not modelled

Dates, fines and texts; the storyboard's layout; pictures; the reset of a
password by mail; the statistics of students, which are one count. `Pods` is most
of the repository's lines and, but for the write path of Firestore, none of its
logic: the client's queries, targets, transactions and garbage collection, gRPC,
BoringSSL, LevelDB, Auth and Storage are taken as what the app and that write
path use of them. Firestore's errors other than a refused write or a broken
stream are left out; in `Circulation`, `Students`, `CardList` and `Rules` no write
is refused. Two confirm taps of the add-book screen before the first decision are
left out, and so is the overflow of Swift's `Int`, out of reach of a count of
books. In `Circulation` and `Students` an answer holds what the device knows when
its callback runs; the delay between the client's computing an answer and the
main queue's running the callback is modelled in `CardList` and `Rules`, where
the order of the callbacks decides. Emails are compared as they are typed,
whereas Auth ignores case. `updateCard` of `BorrowCard` and the class `Account`
are used by no screen. The write to the collection `cities` (return screen,
switch on) is read by nobody and leaves no trace in the model.
