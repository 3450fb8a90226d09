------------------------------ MODULE Session ------------------------------
(***************************************************************************)
(* Accounts on one device: login-, account-, editAccount- and              *)
(* registerViewController.                                                 *)
(*                                                                         *)
(* An account is a user of Firebase Auth, with a password, and a document  *)
(* of the collection Accounts, with a name and a status ("2" may create    *)
(* accounts).  The device knows two things of who is signed in: Auth's own *)
(* current user, and the copy of a document in the UserDefaults key        *)
(* "current_user", which a read after the sign-in sets and which all       *)
(* screens show.  Auth and Firestore are external; a document written here *)
(* is read at once (one device).                                           *)
(***************************************************************************)
EXTENDS FiniteSets, Naturals

CONSTANTS
    Email,    \* emails, the ids of the documents
    Admin,    \* the account the library starts with
    Password, Name,
    None,     \* nobody, nothing
    Habits,   \* what a librarian may be like: "hurries" acts while an answer is
              \* awaited, "retypes" types in the email field meanwhile,
              \* "restarts"; "loses": Auth's answer may be lost after it took
              \* effect
    MaxCalls  \* bound: calls not answered

\* A document of Accounts.
Profile == [name : Name, status : {"1", "2"}]
\* A document as the screens know it, with its field "email".
Known   == [email : Email, name : Name, status : {"1", "2"}]

ASSUME SessionAssumption ==
    /\ Admin \in Email /\ None \notin Email /\ None \notin Password
    /\ None \notin Profile /\ None \notin Known
    /\ Habits \subseteq SUBSET {"hurries", "retypes", "restarts", "loses"}

VARIABLES
    users,       \* Auth: the password of each user
    profiles,    \* Accounts: the name and status of each document
    signedIn,    \* Auth.auth().currentUser
    currentUser, \* the key "current_user", kept over a restart
    screen,      \* the screen in front
    shown,       \* what the account screen showed when it was loaded
    form,        \* the edit screen's email and name
    emailText,   \* emailTextField of the login and of the register screen
    calls,       \* calls not answered yet
    profileRead, \* history: the read of this sign-in has brought its user's
                 \* document, and no user was created since
    habit        \* what the librarian of this behaviour is like: never changes

vars == <<users, profiles, signedIn, currentUser, screen, shown, form,
          emailText, calls, profileRead, habit>>

\* A call to Auth or Firestore; text: the email field when it is answered, if
\* its screen is still there (live); done: it has taken effect.
Call == [op : {"signIn", "create", "password", "read"}, email : Email,
         password : Password \cup {None}, text : Email, live : BOOLEAN,
         done : BOOLEAN]

NewCall(op, e, p) ==
    [op |-> op, email |-> e, password |-> p, text |-> e, live |-> TRUE,
     done |-> FALSE]

Asks(c) == /\ Cardinality(calls) < MaxCalls /\ c \notin calls
           /\ calls' = calls \cup {c}

\* A librarian who does not hurry waits for every answer.
Ready == calls = {} \/ "hurries" \in habit
----------------------------------------------------------------------------
Init ==
    /\ users \in [Email -> {None} \cup Password]
    /\ \A e \in Email : users[e] # None <=> e = Admin
    /\ profiles \in [Email -> {None} \cup Profile]
    /\ \A e \in Email : profiles[e] # None <=> e = Admin
    /\ profiles[Admin].status = "2"
    /\ signedIn = None /\ currentUser = None
    /\ screen = "login" /\ shown = None /\ form = None
    /\ emailText = [v \in {"login", "register"} |-> None]
    /\ calls = {} /\ profileRead = FALSE
    /\ habit \in Habits

\* Typing an email.
TypeEmail(e) ==
    /\ screen \in {"login", "register"}
    /\ (\A c \in calls : c.op \notin {"signIn", "create"}) \/ "retypes" \in habit
    /\ Ready
    /\ emailText' = [emailText EXCEPT ![screen] = e]
    /\ calls' = {IF c.live /\ c.op = (IF screen = "login" THEN "signIn" ELSE "create")
                 THEN [c EXCEPT !.text = e] ELSE c : c \in calls}
    /\ UNCHANGED <<users, profiles, signedIn, currentUser, screen, shown, form,
                   profileRead, habit>>

LoginButton(p) ==
    /\ screen = "login" /\ emailText["login"] # None /\ Ready
    /\ Asks(NewCall("signIn", emailText["login"], p))
    /\ UNCHANGED <<users, profiles, signedIn, currentUser, screen, shown, form,
                   emailText, profileRead, habit>>

\* The profile asked for is that of the email field as it is now; the main
\* screen does not wait for it.
ProfileAsked(c) == c.text

SignInAnswer(c) ==
    /\ c \in calls /\ c.op = "signIn" /\ users[c.email] = c.password
    /\ signedIn' = c.email
    /\ calls' = (calls \ {c}) \cup {NewCall("read", ProfileAsked(c), None)}
    /\ screen' = IF screen = "login" THEN "main" ELSE screen
    /\ profileRead' = FALSE
    /\ UNCHANGED <<users, profiles, currentUser, shown, form, emailText, habit>>

CopyOf_NoEmail(e, doc) == [email |-> doc.name, name |-> doc.name, status |-> doc.status]
CopyOf(e, doc) == [email |-> e, name |-> doc.name, status |-> doc.status]

\* The key after the read; a document that does not exist is only printed.
Stored_Once(c) ==
    IF currentUser # None \/ profiles[c.email] = None THEN currentUser
    ELSE CopyOf(c.email, profiles[c.email])
Stored(c) ==
    IF profiles[c.email] = None THEN currentUser
    ELSE CopyOf(c.email, profiles[c.email])

ReadAnswer(c) ==
    /\ c \in calls /\ c.op = "read"
    /\ calls' = calls \ {c}
    /\ currentUser' = Stored(c)
    /\ profileRead' = (profileRead \/ profiles[c.email] # None)
    /\ UNCHANGED <<users, profiles, signedIn, screen, shown, form, emailText, habit>>

\* Auth answers with an error: an alert, or nothing at all.  Or the read of the
\* profile fails, which is printed as if there were no document: the key still
\* holds the user before.
ErrorAnswer(c) ==
    /\ c \in calls
    /\ ~c.done \/ "loses" \in habit
    /\ calls' = calls \ {c}
    /\ UNCHANGED <<users, profiles, signedIn, currentUser, screen, shown, form,
                   emailText, profileRead, habit>>
----------------------------------------------------------------------------
(* The account screen.                                                     *)

\* The account tab is loaded once for each main screen.
OpenAccount ==
    /\ screen = "main" /\ Ready
    /\ shown # None \/ currentUser # None
    /\ shown' = IF shown = None THEN currentUser ELSE shown
    /\ screen' = "account"
    /\ UNCHANGED <<users, profiles, signedIn, currentUser, form, emailText,
                   calls, profileRead, habit>>

LeaveAccount ==
    /\ screen = "account"
    /\ screen' = "main"
    /\ UNCHANGED <<users, profiles, signedIn, currentUser, shown, form,
                   emailText, calls, profileRead, habit>>

\* Auth's user is signed out; current_user stays.
LogoutButton ==
    /\ screen = "account" /\ Ready
    /\ screen' = "login" /\ shown' = None
    /\ signedIn' = None /\ profileRead' = FALSE
    /\ UNCHANGED <<users, profiles, currentUser, form, emailText, calls, habit>>

OpenEdit ==
    /\ screen = "account" /\ Ready
    /\ screen' = "edit"
    /\ form' = currentUser
    /\ UNCHANGED <<users, profiles, signedIn, currentUser, shown, emailText,
                   calls, profileRead, habit>>

\* merge: true keeps the status.
Edited_Whole(doc, n) == [name |-> n, status |-> "1"]
Edited(doc, n) == [doc EXCEPT !.name = n]

\* The password goes to Auth's user, the name to the document of the form.
\* p: a new password typed twice, or none.
EditConfirm(n, p) ==
    /\ screen = "edit" /\ Ready
    /\ IF p = None \/ signedIn = None THEN calls' = calls
       ELSE Asks(NewCall("password", signedIn, p))
    /\ profiles' = [profiles EXCEPT ![form.email] = Edited(@, n)]
    /\ screen' = "account" /\ form' = None
    /\ UNCHANGED <<users, signedIn, currentUser, shown, emailText, profileRead, habit>>

EditCancel ==
    /\ screen = "edit"
    /\ screen' = "account" /\ form' = None
    /\ UNCHANGED <<users, profiles, signedIn, currentUser, shown, emailText,
                   calls, profileRead, habit>>

PasswordAnswer(c) ==
    /\ c \in calls /\ c.op = "password"
    /\ users' = [users EXCEPT ![c.email] = c.password]
    /\ calls' = calls \ {c}
    /\ UNCHANGED <<profiles, signedIn, currentUser, screen, shown, form,
                   emailText, profileRead, habit>>
----------------------------------------------------------------------------
(* The register screen, behind a button only status "2" shows.             *)

OpenRegister ==
    /\ screen = "account" /\ shown.status = "2" /\ Ready
    /\ screen' = "register"
    /\ UNCHANGED <<users, profiles, signedIn, currentUser, shown, form,
                   emailText, calls, profileRead, habit>>

\* registerButton with all fields filled.  When the two passwords differ an
\* alert says so, and the account is created all the same, with the first.
RegisterButton(p) ==
    /\ screen = "register" /\ emailText["register"] # None /\ Ready
    /\ Asks(NewCall("create", emailText["register"], p))
    /\ UNCHANGED <<users, profiles, signedIn, currentUser, screen, shown, form,
                   emailText, profileRead, habit>>

\* Auth creates the user, unless there is one.
Creates(c) == users[c.email] = None

UserCreated(c) ==
    /\ c \in calls /\ c.op = "create" /\ ~c.done /\ Creates(c)
    /\ users' = [users EXCEPT ![c.email] = c.password]
    /\ calls' = (calls \ {c}) \cup {[c EXCEPT !.done = TRUE]}
    /\ UNCHANGED <<profiles, signedIn, currentUser, screen, shown, form,
                   emailText, profileRead, habit>>

\* The document written is that of the email field as it is now.
Registered_Current(c) == currentUser.email
Registered(c) == c.text

Created_Early(c) == TRUE
Created(c) == c.done

\* The answer: Auth has signed the new user in, and the document is written
\* whole, with status "1".
CreateAnswer(c, n) ==
    /\ c \in calls /\ c.op = "create" /\ Created(c)
    /\ profiles' = [profiles EXCEPT ![Registered(c)] = [name |-> n, status |-> "1"]]
    /\ signedIn' = c.email /\ profileRead' = FALSE
    /\ calls' = calls \ {c}
    /\ UNCHANGED <<users, currentUser, screen, shown, form, emailText, habit>>

\* The OK of the alert, or cancel: the screen is gone with its fields.
LeaveRegister ==
    /\ screen = "register" /\ Ready
    /\ screen' = "account"
    /\ emailText' = [emailText EXCEPT !["register"] = None]
    /\ calls' = {IF c.op = "create" THEN [c EXCEPT !.live = FALSE] ELSE c : c \in calls}
    /\ UNCHANGED <<users, profiles, signedIn, currentUser, shown, form, profileRead, habit>>

\* The app is killed, or stops (the account tab without a current_user), and
\* starts again; the login screen signs Auth's user out.
Restart ==
    /\ "restarts" \in habit \/ (screen = "main" /\ shown = None /\ currentUser = None)
    /\ screen' = "login" /\ shown' = None /\ form' = None
    /\ emailText' = [v \in {"login", "register"} |-> None]
    /\ signedIn' = None /\ calls' = {} /\ profileRead' = FALSE
    /\ UNCHANGED <<users, profiles, currentUser, habit>>

Next ==
    \/ \E e \in Email : TypeEmail(e)
    \/ \E p \in Password : LoginButton(p)
    \/ \E c \in calls : SignInAnswer(c) \/ ReadAnswer(c) \/ ErrorAnswer(c)
    \/ OpenAccount \/ LeaveAccount \/ LogoutButton
    \/ OpenEdit \/ EditCancel
    \/ \E n \in Name, p \in Password \cup {None} : EditConfirm(n, p)
    \/ \E c \in calls : PasswordAnswer(c)
    \/ OpenRegister \/ LeaveRegister
    \/ \E p \in Password : RegisterButton(p)
    \/ \E c \in calls : UserCreated(c) \/ \E n \in Name : CreateAnswer(c, n)
    \/ Restart

Spec == Init /\ [][Next]_vars
----------------------------------------------------------------------------
(* Properties.                                                             *)

\* Every variable keeps its type.
TypeOK ==
    /\ users \in [Email -> Password \cup {None}]
    /\ profiles \in [Email -> Profile \cup {None}]
    /\ signedIn \in Email \cup {None}
    /\ currentUser \in Known \cup {None}
    /\ screen \in {"login", "main", "account", "edit", "register"}
    /\ shown \in Known \cup {None}
    /\ form \in Known \cup {None}
    /\ emailText \in [{"login", "register"} -> Email \cup {None}]
    /\ calls \in SUBSET Call
    /\ profileRead \in BOOLEAN
    /\ habit \in Habits

\* Where nobody retypes the email while a register is answered, a document is
\* written only for a user Auth has created, restarts between the two writes
\* and lost answers included.
ProfileHasUser ==
    "retypes" \notin habit => \A e \in Email : profiles[e] # None => users[e] # None

\* There, the first account keeps the right to create accounts: no register or
\* edit of anyone, however the answers interleave, takes its status away.
AdminKept ==
    "retypes" \notin habit => profiles[Admin] # None /\ profiles[Admin].status = "2"

\* To a librarian who waits for the answers the account screen shows the user
\* who is signed in, and the edit screen edits that user's document, from the
\* moment the read after the sign-in has brought the document until a user is
\* created; restarts and lost answers do not mix accounts up.  (Where the read
\* fails, or finds nothing after a register cut short, the user before is shown.)
ProfileShown ==
    habit \subseteq {"restarts", "loses"} /\ profileRead =>
        /\ screen \in {"account", "edit"} => shown.email = signedIn
        /\ screen = "edit" => form.email = signedIn

\* With a librarian who at most hurries, a user whose creation has been answered
\* has a document, so that the next sign-in finds it.
UserHasProfile ==
    habit \subseteq {"hurries"} => \A e \in Email : users[e] # None =>
        profiles[e] # None \/ \E c \in calls : c.op = "create" /\ c.email = e

\* "Update info and password": both are those of one account.
InfoAndPassword ==
    [][\A n \in Name, p \in Password : EditConfirm(n, p) => form.email = signedIn]_vars
============================================================================
