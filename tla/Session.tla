------------------------------ MODULE Session ------------------------------
(***************************************************************************)
(* Who is signed in, according to each part of the app, on one device.     *)
(*                                                                         *)
(* Four pieces of state say whose app this is, and each changes in a block *)
(* of its own: Auth's current user (`auth`), the "name" of UserDefaults    *)
(* that Home tests (`name`), the user document the spendings are added to  *)
(* (`currentUser`), and the collection the table shows (`listOf`).  Auth,  *)
(* Firestore and the taps of the user interleave through the FIFO queue of *)
(* the main thread.                                                        *)
(*                                                                         *)
(* Of Firestore this module keeps which queries are listened to and when   *)
(* they raise events; ExpenseSync has the rest.  Contents of lists are     *)
(* left out: an event is named by the user whose data it carries.          *)
(*                                                                         *)
(* An operator named X_Y, before an operator X, is X with a plausible bug. *)
(***************************************************************************)
EXTENDS Naturals, Sequences, FiniteSets, SequencesExt

CONSTANTS Users,       \* the accounts used on this device
          Existing,    \* of those, the ones created before
          None,        \* no user, nil
          OpenRules,   \* may anybody signed in read and write every document?
          Offline,     \* may the device be offline, serving reads from its cache?
          MaxRequests, MaxAdds, MaxRevocations, MaxKills,   \* bounds, and
          MaxRemotes   \* with how many lists waiting on the main thread no more are sent

ASSUME SessionAssumption ==
  /\ Existing \subseteq Users /\ None \notin Users
  /\ {OpenRules, Offline} \subseteq BOOLEAN
  /\ {MaxRequests, MaxAdds, MaxRemotes, MaxRevocations, MaxKills} \subseteq Nat

VARIABLES
  auth,         \* Auth.auth().currentUser, kept in the keychain
  name,         \* UserDefaults "name": the user it names
  accounts,     \* accounts the Auth backend has
  profile,      \* the display name of each account at the Auth backend
  commits,      \* profile changes on their way: whose account, which name
  userDoc,      \* users whose document exists
  cred,         \* the user Firestore works for
  told,         \* what UserRepository's state listener was told last
  lists, docs,  \* per user: listeners of the expenses / of the user document
  unsent,       \* per Firestore user: whose collections have unanswered writes
  main,         \* blocks queued on the main thread
  requests,     \* the sign-ins and sign-ups asked for
  screen,       \* the controller on top
  currentUser,  \* UserRepository.currentUser, by owner
  listOf,       \* whose expenses ExpenseRepository.expenses holds
  sessions,     \* users Auth has had in this process
  adds,         \* of each add reported as a success: was the collection Auth's user's?
  trapped,      \* a forced unwrap found nil
  revocations, kills

server  == <<accounts, profile, commits, userDoc>>
store   == <<cred, lists, docs, unsent>>
repos   == <<currentUser, listOf, told>>
budgets == <<revocations, kills>>
vars    == <<auth, name, server, store, main, requests, screen, repos, sessions,
             adds, trapped, budgets>>

MaybeUser == Users \cup {None}
Ids       == 1..MaxRequests

Block(k, u, i) == [kind |-> k, user |-> u, id |-> i]
Load           == Block("load", None, 0)
AuthChanged(u) == Block("authChanged", u, 0)
UserDoc(u)     == Block("userDoc", u, 0)
List(u)        == Block("list", u, 0)

\* The main thread turns to a block of kind k, unless it is in the middle of signOut.
Due_Interleaved(k) == main # <<>> /\ Head(main).kind = k
Due(k) == main # <<>> /\ Head(main).kind = k /\ screen # "signingOut"

NoRequest == [stage |-> "free", kind |-> "signIn", user |-> None,
              display |-> None, onStack |-> FALSE]

\* A request of a process that has ended.
LostRequest == [NoRequest EXCEPT !.stage = "lost"]

SigningUp == {i \in Ids : requests[i].stage = "auth" /\ requests[i].kind = "create"}

\* Does the backend let Firestore's user c use the documents of u?
Permitted(c, u) == c = u \/ (OpenRules /\ c # None)

-----------------------------------------------------------------------------
(* Listeners: "none", "new" (no event yet), "live", or "refused", which is  *)
(* "none" again after the backend has refused one.                         *)

Listening(ls, u) == ls[u] \in {"new", "live"}

\* A listener more on a query: a live one answers the newcomer at once.
Watched(ls, u) == IF u = None \/ Listening(ls, u) THEN ls ELSE [ls EXCEPT ![u] = "new"]
Hears(ls, u, event) == IF u # None /\ ls[u] = "live" THEN <<event>> ELSE <<>>

\* startObservingExpenses, on behalf of Auth's user at that moment.
Observed_Named   == name
Observed_Current == currentUser
Observed == auth

-----------------------------------------------------------------------------
(* Screens: "home", and over it "add", "settings" or the authentication     *)
(* stack "onboarding", "login", "create"; "signingOut" is "settings" while  *)
(* signOut runs, and "dead" an app that is not running.                    *)

Forms == {"login", "create"}

\* viewWillAppear of Home, after the blocks q: loadData and one more listener.
Appear_NoLoad(q) ==
  /\ main' = q \o Hears(lists, Observed, List(Observed))
  /\ lists' = Watched(lists, Observed)
Appear(q) ==
  /\ main' = q \o <<Load>> \o Hears(lists, Observed, List(Observed))
  /\ lists' = Watched(lists, Observed)

\* The controllers over Home go away; requests lose the form they came from.
OffStack(rs) == [i \in Ids |-> [rs[i] EXCEPT !.onStack = FALSE]]

\* presentingViewController?.dismiss from request i's form, once its answer has
\* left the queue: nothing happens when the form is no longer on the stack.
Dismiss_Stays(i) ==
  /\ requests' = [requests EXCEPT ![i].stage = "done"]
  /\ main' = Tail(main) /\ UNCHANGED <<screen, lists>>
Dismiss(i) ==
  \/ /\ requests[i].onStack
     /\ requests' = OffStack([requests EXCEPT ![i].stage = "done"])
     /\ screen' = "home"
     /\ Appear(Tail(main))
  \/ /\ ~ requests[i].onStack
     /\ requests' = [requests EXCEPT ![i].stage = "late"]
     /\ main' = Tail(main) /\ UNCHANGED <<screen, lists>>

\* UIKit takes no touches while a transition, and the blocks of it, are running.
Touchable == \A k \in DOMAIN main : main[k].kind # "load"

-----------------------------------------------------------------------------
Init ==
  /\ auth = None /\ name = None
  /\ accounts = Existing /\ userDoc = Existing
  /\ profile = [u \in Users |-> IF u \in Existing THEN u ELSE None]
  /\ commits = {}
  /\ cred = None /\ told = "never"
  /\ lists = [u \in Users |-> "none"] /\ docs = [u \in Users |-> "none"]
  /\ unsent = [c \in MaybeUser |-> {}]
  /\ main = <<>>
  /\ requests = [i \in Ids |-> NoRequest]
  /\ screen = "dead"
  /\ currentUser = None /\ listOf = None
  /\ sessions = {} /\ adds = <<>> /\ trapped = FALSE
  /\ revocations = 0 /\ kills = 0

\* ServiceProvider and Home: the state listener's first call, two loadData, and
\* the listeners of ExpenseRepository.init and viewWillAppear.  clearPersistence
\* fails on the client of a signed-in user and succeeds when there is none yet.
Launch ==
  /\ screen = "dead"
  /\ screen' = "home"
  /\ cred' = auth
  /\ sessions' = IF auth = None THEN {} ELSE {auth}
  /\ main' = <<AuthChanged(auth), Load, Load>>
  /\ lists' = Watched(lists, Observed)
  /\ unsent' = IF auth = None THEN [c \in MaybeUser |-> {}] ELSE unsent
  /\ UNCHANGED <<auth, name, server, docs, requests, repos, adds, trapped, budgets>>

\* Memory goes; the keychain, UserDefaults and Firestore's queues stay.  A sign-up on
\* its way may still reach the backend.
Memory ==
  /\ \E S \in SUBSET {requests[i].user : i \in SigningUp} : accounts' = accounts \cup S
  /\ lists' = [u \in Users |-> "none"] /\ docs' = [u \in Users |-> "none"]
  /\ main' = <<>>
  /\ requests' = [i \in Ids |-> IF requests[i].stage = "free" THEN NoRequest ELSE LostRequest]
  /\ screen' = "dead"
  /\ currentUser' = None /\ listOf' = None /\ told' = "never"
  /\ sessions' = {}

\* The process is killed, between any two steps.
Kill ==
  /\ screen # "dead"
  /\ kills < MaxKills
  /\ kills' = kills + 1
  /\ Memory
  /\ UNCHANGED <<auth, name, profile, commits, userDoc, cred, unsent, adds, trapped,
                 revocations>>

-----------------------------------------------------------------------------
(* Taps.                                                                   *)

Go(from, to) ==
  /\ screen = from /\ Touchable
  /\ screen' = to
  /\ UNCHANGED <<auth, name, server, store, main, requests, repos, sessions, adds,
                 trapped, budgets>>

\* Settings, AddSpending, and the two buttons of Onboarding.
Open == \/ Go("home", "settings") \/ Go("home", "add")
        \/ Go("onboarding", "login") \/ Go("onboarding", "create")

\* AddSpending is a sheet: Home does not reappear when it goes.
CancelAdd == Go("add", "home")

\* backButtonPressed on a form.
Back ==
  /\ screen \in Forms
  /\ screen' = "onboarding"
  /\ requests' = OffStack(requests)
  /\ UNCHANGED <<auth, name, server, store, main, repos, sessions, adds, trapped, budgets>>

\* loginButtonPressed and createAccountButtonPressed, with the fields filled in.
Ask(i, u) ==
  /\ screen \in Forms
  /\ requests[i].stage = "free" /\ \A j \in 1..(i - 1) : requests[j].stage # "free"
  /\ requests' = [requests EXCEPT ![i] =
       [stage |-> "auth", kind |-> IF screen = "login" THEN "signIn" ELSE "create",
        user |-> u, display |-> None, onStack |-> TRUE]]
  /\ UNCHANGED <<auth, name, server, store, main, screen, repos, sessions, adds,
                 trapped, budgets>>

\* dismissButtonPressed of Settings.
CloseSettings ==
  /\ screen = "settings"
  /\ screen' = "home"
  /\ Appear(main)
  /\ UNCHANGED <<auth, name, server, cred, docs, unsent, requests, repos, sessions,
                 adds, trapped, budgets>>

\* FirebaseService.signOut, success: Auth first, in the keychain ...
SignOut ==
  /\ screen = "settings"
  /\ auth' = None
  /\ main' = main \o (IF auth = None THEN <<>> ELSE <<AuthChanged(None)>>)
  /\ screen' = "signingOut"
  /\ UNCHANGED <<name, server, store, requests, repos, sessions, adds, trapped, budgets>>

\* ... then the name, in UserDefaults, and Settings goes.  In between the process
\* may die, and Auth may sign somebody in on its own queue.
RemoveName ==
  /\ screen = "signingOut"
  /\ name' = None
  /\ screen' = "home"
  /\ Appear(main)
  /\ UNCHANGED <<auth, server, cred, docs, unsent, requests, repos, sessions, adds, trapped,
                 budgets>>

\* addButtonPressed, with a currentUser: the write goes to that user's path and
\* into the queue of Firestore's user; live listeners of the path hear of it.
Add ==
  /\ screen = "add"
  /\ currentUser # None
  /\ Len(adds) < MaxAdds
  /\ adds' = Append(adds, currentUser = auth)
  /\ unsent' = [unsent EXCEPT ![cred] = @ \cup {currentUser}]
  /\ main' = main \o Hears(lists, currentUser, List(currentUser))
  /\ screen' = "home"
  /\ UNCHANGED <<auth, name, server, cred, lists, docs, requests, repos, sessions,
                 trapped, budgets>>

-----------------------------------------------------------------------------
(* Auth.                                                                   *)

\* What Auth queues on the main thread: the notification, then the completion.
Posted_Unanswered(u, i) ==
  IF requests[i].kind = "signIn" THEN <<AuthChanged(u)>>
                                 ELSE <<AuthChanged(u), Block("answered", u, i)>>
Posted(u, i) == <<AuthChanged(u), Block("answered", u, i)>>

\* FIRAuth's decorated callback: the current user changes on Auth's own queue, while
\* the main thread does something else.
AuthSucceeds(i) ==
  /\ requests[i].stage = "auth"
  /\ (requests[i].kind = "signIn") = (requests[i].user \in accounts)
  /\ LET u == requests[i].user IN
       /\ accounts' = accounts \cup {u}
       /\ auth' = u
       /\ sessions' = sessions \cup {u}
       /\ requests' = [requests EXCEPT ![i].stage = "answered", ![i].display = profile[u]]
       /\ main' = main \o Posted(u, i)
  /\ UNCHANGED <<name, profile, commits, userDoc, store, screen, repos, adds, trapped, budgets>>

\* Wrong password, address in use, no network - or a sign-up whose answer is lost.
AuthFails(i) ==
  /\ requests[i].stage = "auth"
  /\ requests' = [requests EXCEPT ![i].stage = "failed"]
  /\ \/ UNCHANGED accounts
     \/ requests[i].kind = "create" /\ accounts' = accounts \cup {requests[i].user}
  /\ UNCHANGED <<auth, name, profile, commits, userDoc, store, main, screen, repos,
                 sessions, adds, trapped, budgets>>

\* An invalid token signs the user out behind the app's back.
Revoke ==
  /\ screen # "dead" /\ auth # None
  /\ revocations < MaxRevocations
  /\ revocations' = revocations + 1
  /\ auth' = None
  /\ main' = Append(main, AuthChanged(None))
  /\ UNCHANGED <<name, server, store, requests, screen, repos, sessions, adds, trapped, kills>>

\* The answer to commitChanges; it needs no signed-in user any more.  One that fails
\* changes nothing: nobody waits for it, and it may as well stay in commits.
CommitProfile(c) ==
  /\ c \in commits
  /\ commits' = commits \ {c}
  /\ profile' = [profile EXCEPT ![c.of] = c.as]
  /\ UNCHANGED <<auth, name, accounts, userDoc, store, main, requests, screen, repos,
                 sessions, adds, trapped, budgets>>

-----------------------------------------------------------------------------
(* Blocks of the main thread.                                              *)

\* The notification: Firestore is told the user captured when it was posted, and
\* swaps mutation queues, so lists with unanswered writes change; UserRepository
\* reads the user of this moment and observes the document of a new one.
DeliverAuthChanged ==
  /\ Due("authChanged")
  /\ LET u == Head(main).user
         S == IF u = cred THEN {} ELSE unsent[cred] \cup unsent[u]
         changed == SetToSeq({List(v) : v \in {w \in S : lists[w] = "live"}})
         news == IF told = auth THEN None ELSE auth
     IN /\ cred' = u
        /\ main' = Tail(main) \o changed
                     \o (IF news \in userDoc THEN Hears(docs, news, UserDoc(news)) ELSE <<>>)
        /\ docs' = Watched(docs, news)
  /\ told' = auth
  /\ UNCHANGED <<auth, name, server, lists, unsent, requests, screen, currentUser, listOf,
                 sessions, adds, trapped, budgets>>

\* loadData: Onboarding is presented over a bare Home whose user has no name.
DeliverLoad ==
  /\ Due("load")
  /\ screen' = IF name = None /\ screen = "home" THEN "onboarding" ELSE screen
  /\ main' = Tail(main)
  /\ UNCHANGED <<auth, name, server, store, requests, repos, sessions, adds, trapped, budgets>>

DeliverSignedIn ==
  /\ Due("answered") /\ requests[Head(main).id].kind = "signIn"
  /\ name' = requests[Head(main).id].display
  /\ Dismiss(Head(main).id)
  /\ UNCHANGED <<auth, server, cred, docs, unsent, repos, sessions, adds, trapped, budgets>>

\* `currentUser!` in FirebaseService.updateDisplayName.
Unwraps_Unchecked == TRUE
Unwraps == auth # None

\* createAccount's success: the user document is written, the display name is
\* sent for Auth's user, and getDocument is queued.
DeliverCreated ==
  /\ Due("answered") /\ requests[Head(main).id].kind = "create"
  /\ Unwraps
  /\ LET u == Head(main).user IN
       /\ userDoc' = IF Permitted(cred, u) THEN userDoc \cup {u} ELSE userDoc
       /\ commits' = commits \cup {[of |-> auth, as |-> u]}
       /\ docs' = IF Listening(docs, u) THEN [docs EXCEPT ![u] = "live"] ELSE docs
       /\ main' = Tail(main) \o <<Block("getDocument", u, Head(main).id)>>
                    \o (IF Listening(docs, u) THEN <<UserDoc(u)>> ELSE <<>>)
  /\ UNCHANGED <<auth, name, accounts, profile, cred, lists, unsent, requests, screen,
                 repos, sessions, adds, trapped, budgets>>

\* ... and the app traps when nobody is signed in by then; the document's write,
\* queued before, reaches the backend all the same or is lost with the process.
TrapInCreated ==
  /\ Due("answered") /\ requests[Head(main).id].kind = "create"
  /\ ~ Unwraps
  /\ trapped' = TRUE
  /\ \/ UNCHANGED userDoc
     \/ Permitted(cred, Head(main).user) /\ userDoc' = userDoc \cup {Head(main).user}
  /\ Memory
  /\ UNCHANGED <<auth, name, profile, commits, cred, unsent, adds, budgets>>

DeliverGetDocument ==
  /\ Due("getDocument")
  /\ requests' = [requests EXCEPT ![Head(main).id].stage = "document"]
  /\ main' = Tail(main)
  /\ UNCHANGED <<auth, name, server, store, screen, repos, sessions, adds, trapped, budgets>>

\* The document's displayName becomes the name; notFound and error only print.
DeliverGotDocument ==
  /\ Due("gotDocument")
  /\ LET i == Head(main).id IN
       IF Head(main).user # None
         THEN name' = Head(main).user /\ Dismiss(i)
         ELSE /\ requests' = [requests EXCEPT ![i].stage = "failed"]
              /\ main' = Tail(main)
              /\ UNCHANGED <<name, screen, lists>>
  /\ UNCHANGED <<auth, server, cred, docs, unsent, repos, sessions, adds, trapped, budgets>>

DeliverUserDoc ==
  /\ Due("userDoc")
  /\ currentUser' = Head(main).user
  /\ main' = Tail(main)
  /\ UNCHANGED <<auth, name, server, store, requests, screen, listOf, told, sessions, adds,
                 trapped, budgets>>

DeliverList ==
  /\ Due("list")
  /\ listOf' = Head(main).user
  /\ main' = Tail(main)
  /\ UNCHANGED <<auth, name, server, store, requests, screen, currentUser, told, sessions,
                 adds, trapped, budgets>>

-----------------------------------------------------------------------------
(* Firestore.                                                              *)

Same == UNCHANGED <<auth, name, server, screen, repos, sessions, adds, trapped, budgets>>

\* The first event of a listener: from the backend, or offline from the cache.
FirstList(u) ==
  /\ screen # "dead" /\ lists[u] = "new"
  /\ Permitted(cred, u) \/ Offline
  /\ lists' = [lists EXCEPT ![u] = "live"]
  /\ main' = Append(main, List(u))
  /\ Same /\ UNCHANGED <<cred, docs, unsent, requests>>

FirstUserDoc(u) ==
  /\ screen # "dead" /\ docs[u] = "new"
  /\ Permitted(cred, u) \/ Offline
  /\ u \in userDoc
  /\ docs' = [docs EXCEPT ![u] = "live"]
  /\ main' = Append(main, UserDoc(u))
  /\ Same /\ UNCHANGED <<cred, lists, unsent, requests>>

\* SyncEngine.HandleRejectedListen: the listeners are dropped, the error printed.
Denied(u) ==
  /\ screen # "dead" /\ ~ Permitted(cred, u)
  /\ \/ Listening(lists, u) /\ lists' = [lists EXCEPT ![u] = "refused"] /\ UNCHANGED docs
     \/ Listening(docs, u) /\ docs' = [docs EXCEPT ![u] = "refused"] /\ UNCHANGED lists
  /\ Same /\ UNCHANGED <<cred, unsent, main, requests>>

\* Another device changes the expenses of u.
RemoteChange(u) ==
  /\ screen # "dead" /\ lists[u] = "live" /\ Permitted(cred, u)
  /\ Cardinality({k \in DOMAIN main : main[k].kind = "list"}) < MaxRemotes
  /\ main' = Append(main, List(u))
  /\ Same /\ UNCHANGED <<store, requests>>

\* The backend answers the writes of Firestore's user to the path of u; refused
\* ones are undone, and live listeners of that path hear of it.
WriteAnswered(u) ==
  /\ screen # "dead" /\ u \in unsent[cred]
  /\ unsent' = [unsent EXCEPT ![cred] = @ \ {u}]
  /\ main' = IF Permitted(cred, u) THEN main ELSE main \o Hears(lists, u, List(u))
  /\ Same /\ UNCHANGED <<cred, lists, docs, requests>>

\* getDocument resolves: with the document, or with notFound or an error.
DocumentAnswers(i) ==
  /\ requests[i].stage = "document"
  /\ LET u == requests[i].user
         there == u \in userDoc /\ (Permitted(cred, u) \/ Offline)
         gone  == u \notin userDoc \/ ~ Permitted(cred, u)
     IN \E r \in (IF there THEN {u} ELSE {}) \cup (IF gone THEN {None} ELSE {}) :
          main' = Append(main, Block("gotDocument", r, i))
  /\ requests' = [requests EXCEPT ![i].stage = "answered"]
  /\ Same /\ UNCHANGED store

-----------------------------------------------------------------------------
Tap == \/ Open \/ CancelAdd \/ Back \/ CloseSettings \/ SignOut \/ Add
       \/ \E i \in Ids, u \in Users : Ask(i, u)

MainThread ==
  \/ DeliverAuthChanged \/ DeliverLoad \/ DeliverSignedIn \/ DeliverCreated
  \/ TrapInCreated \/ DeliverGetDocument \/ DeliverGotDocument
  \/ DeliverUserDoc \/ DeliverList \/ RemoveName

AuthBackend == \E i \in Ids : AuthSucceeds(i) \/ AuthFails(i)
Profiles == \E c \in commits : CommitProfile(c)
Answers(u) == FirstList(u) \/ FirstUserDoc(u)

\* The answers Firestore waits for.
Firestore == (\E u \in Users : Answers(u)) \/ \E i \in Ids : DocumentAnswers(i)

Next ==
  \/ Launch \/ Kill \/ Tap \/ MainThread \/ AuthBackend \/ Revoke \/ Profiles \/ Firestore
  \/ \E u \in Users : Denied(u) \/ RemoteChange(u) \/ WriteAnswered(u)

Spec == Init /\ [][Next]_vars

\* The main queue runs, and the two backends answer.
Fairness == WF_vars(MainThread) /\ WF_vars(AuthBackend) /\ WF_vars(Firestore)

FairSpec == Spec /\ Fairness

-----------------------------------------------------------------------------
(* What should be true of it.                                              *)

Blocks ==
  [kind : {"load", "authChanged", "userDoc", "list", "answered", "getDocument", "gotDocument"},
   user : MaybeUser, id : {0} \cup Ids]

\* Every variable keeps the shape the code gives it.
TypeOK ==
  /\ auth \in MaybeUser /\ name \in MaybeUser
  /\ accounts \subseteq Users /\ userDoc \subseteq Users
  /\ profile \in [Users -> MaybeUser]
  /\ commits \subseteq [of : Users, as : Users]
  /\ cred \in MaybeUser /\ told \in MaybeUser \cup {"never"}
  /\ lists \in [Users -> {"none", "new", "live", "refused"}]
  /\ docs \in [Users -> {"none", "new", "live", "refused"}]
  /\ unsent \in [MaybeUser -> SUBSET Users]
  /\ main \in Seq(Blocks)
  /\ requests \in [Ids ->
       [stage : {"free", "auth", "answered", "document", "failed", "late", "done", "lost"},
        kind : {"signIn", "create"}, user : MaybeUser, display : MaybeUser,
        onStack : BOOLEAN]]
  /\ screen \in {"dead", "home", "add", "settings", "signingOut", "onboarding"} \cup Forms
  /\ currentUser \in MaybeUser /\ listOf \in MaybeUser
  /\ sessions \subseteq Users
  /\ adds \in Seq(BOOLEAN)
  /\ trapped \in BOOLEAN
  /\ {revocations, kills} \subseteq Nat

\* The answer to u's own request is still queued.
Answered(u) == \E k \in DOMAIN main : main[k].kind = "answered" /\ main[k].user = u

\* Auth has answered another request, of its user, since it answered request i.
Overtaken(i) ==
  \E j \in Ids \ {i} : requests[j].user = auth /\ requests[j].stage \notin {"free", "lost", "auth"}

\* While somebody is signed in, the name Home tests is written and removed only by
\* the answer to that user's own request, or with that answer still queued to write it
\* again.  Auth's user changes on Auth's queue and the name in later blocks and in the
\* second half of signOut; answers may overlap, and the app be killed anywhere between.
\* The exception is real: a sign-up's document, read by the user id of the sign-up,
\* when another sign-in has overtaken it.
NameFollowsAuth ==
  [][name' # name =>
       \/ auth = None
       \/ Answered(auth)
       \/ Due("gotDocument") /\ (Head(main).user = auth \/ Overtaken(Head(main).id))]_vars

\* Home never stays open for somebody without a name, who could neither see nor end
\* the session: a block that presents Onboarding is queued.  The exception is real:
\* an account without a display name whose answer came when its form was gone.
SignedOutLeavesHome ==
  screen \in {"home", "add", "settings"} /\ name = None =>
    \/ \E k \in DOMAIN main : main[k].kind = "load"
    \/ \E i \in Ids : /\ requests[i].stage = "late" /\ requests[i].kind = "signIn"
                     /\ requests[i].display = None

\* Whatever a process shows, listens to or adds to belongs to somebody who has
\* been signed in since it was launched.
OwnSessionsOnly ==
  /\ {listOf, currentUser} \subseteq sessions \cup {None}
  /\ \A u \in Users : Listening(lists, u) \/ Listening(docs, u) => u \in sessions

\* Every success reported was about the signed-in user's own spendings.
OwnAdds == \A k \in DOMAIN adds : adds[k]

\* A request is under way, or was answered, that has lost its form: the user went
\* Back, or another answer closed it.
Left ==
  \E i \in Ids : /\ requests[i].stage \notin {"free", "lost", "failed", "done"}
               /\ ~ requests[i].onStack

\* A session the app has brought up in order: the name is that of Auth's user, no
\* request has lost its form, and nobody has added to another's expenses.
InOrder == screen # "dead" /\ name # None /\ name = auth /\ OwnAdds /\ ~ Left

LastList ==
  LET K == {k \in DOMAIN main : main[k].kind = "list"}
  IN IF K = {} THEN listOf ELSE main[CHOOSE k \in K : \A j \in K : j <= k].user

\* The user of a session in order is listened for; and once the first event has come
\* and the blocks queued on the main thread have run, sees the own list: listeners
\* left behind by earlier users, their late first events and swapped mutation queues
\* do not have the last word.  This holds where rules keep users apart (~ OpenRules)
\* and no other user's list is served from the cache (~ Offline).
BalanceWillBeOwn ==
  InOrder => \/ lists[auth] = "new"
             \/ lists[auth] = "live" /\ LastList = auth

\* A success reported for a spending is about the signed-in user's own spendings, as long
\* as every request is answered at its form.
AddsAreOwn == Left \/ OwnAdds

\* updateDisplayName names whoever is signed in when it runs, blocks after Auth's
\* answer.  That is the account just created; or one whose own sign-in has overtaken
\* it and whose answer is queued behind - then, and only then, one account is given
\* the name of another.
NamesAreOwn ==
  [][\A c \in commits' \ commits : c.of = c.as \/ Answered(c.of)']_vars

\* The signed-in user whom createAccount's completion unwraps is there.
NeverTraps == ~ trapped


\* Whoever asks to sign in or to sign up gets to Home, unless the request fails, the
\* app ends, or the form it came from is gone before the answer.
SignInLeadsHome ==
  \A i \in Ids : (requests[i].stage = "auth") ~>
    \/ requests[i].stage \in {"lost", "failed"}
    \/ requests[i].stage = "done" /\ screen = "home"
    \/ requests[i].stage # "done" /\ ~ requests[i].onStack
=============================================================================
