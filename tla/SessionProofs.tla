--------------------------- MODULE SessionProofs ---------------------------
(* Proofs about accounts on one device.                                    *)
EXTENDS Session, TLAPS

\* A call that sets a password has one.
CallsOK == \A c \in calls : c.op # "read" => c.password \in Password

\* The screens behind the account tab have a user to show and to edit.
ScreensOK ==
    /\ shown # None => currentUser # None
    /\ screen \in {"account", "edit", "register"} => shown # None
    /\ screen = "edit" => form # None

\* What the device knows of a user came from a document, and none is deleted.
KnownOK ==
    /\ currentUser # None => profiles[currentUser.email] # None
    /\ shown # None => profiles[shown.email] # None
    /\ form # None => profiles[form.email] # None

TypeInv == TypeOK /\ CallsOK /\ ScreensOK /\ KnownOK

\* Asking for one keeps the type of the calls.
LEMMA AsksType ==
    ASSUME NEW op \in {"signIn", "create", "password"}, NEW e \in Email,
           NEW p \in Password, calls \in SUBSET Call, CallsOK,
           Asks(NewCall(op, e, p))
    PROVE  calls' \in SUBSET Call /\ CallsOK'
  <1> DEFINE c == NewCall(op, e, p)
  <1>1. c \in Call /\ c.op = op /\ c.password = p
    BY DEF NewCall, Call
  <1>2. calls' = calls \cup {c}
    BY DEF Asks
  <1> HIDE DEF c
  <1> QED
    BY <1>1, <1>2 DEF CallsOK

\* What answers and fields change of a call.
LEMMA ChangedCall ==
    ASSUME NEW c \in Call
    PROVE  /\ [c EXCEPT !.live = FALSE] \in Call /\ [c EXCEPT !.done = TRUE] \in Call
           /\ \A d \in {[c EXCEPT !.live = FALSE], [c EXCEPT !.done = TRUE]} :
                 d.op = c.op /\ d.password = c.password /\ d.email = c.email
           /\ [c EXCEPT !.live = FALSE].text = c.text
           /\ [c EXCEPT !.live = FALSE].done = c.done
           /\ [c EXCEPT !.done = TRUE].text = c.text
  BY DEF Call

\* It holds at the start.
LEMMA TypeInit == Init => TypeInv
  <1> SUFFICES ASSUME Init PROVE TypeInv
    OBVIOUS
  <1>1. TypeOK
    BY SessionAssumption DEF Init, TypeOK, Known, Call
  <1>2. CallsOK /\ ScreensOK /\ KnownOK
    BY DEF Init, CallsOK, ScreensOK, KnownOK
  <1> QED
    BY <1>1, <1>2 DEF TypeInv

\* Every step keeps the invariant.
LEMMA TypeStep == TypeInv /\ [Next]_vars => TypeInv'
  <1> SUFFICES ASSUME TypeInv, [Next]_vars PROVE TypeInv'
    OBVIOUS
  <1> USE SessionAssumption DEF TypeInv
  <1>1. ASSUME NEW e \in Email, TypeEmail(e) PROVE TypeInv'
    BY <1>1 DEF TypeEmail, TypeOK, CallsOK, ScreensOK, KnownOK, Call
  <1>2. ASSUME NEW p \in Password, LoginButton(p) PROVE TypeInv'
    <2>1. calls' \in SUBSET Call /\ CallsOK'
      BY <1>2, AsksType DEF LoginButton, TypeOK
    <2> QED
      BY <1>2, <2>1 DEF LoginButton, TypeOK, ScreensOK, KnownOK
  <1>3. ASSUME NEW c \in calls, SignInAnswer(c) PROVE TypeInv'
    <2>1. calls' \in SUBSET Call /\ CallsOK'
      <3> DEFINE new == NewCall("read", ProfileAsked(c), None)
      <3>1. c.text \in Email
        BY DEF TypeOK, Call
      <3>2. new \in Call /\ new.op = "read"
        BY <3>1 DEF ProfileAsked, NewCall, Call
      <3>3. calls' = (calls \ {c}) \cup {new}
        BY <1>3 DEF SignInAnswer
      <3> HIDE DEF new
      <3> QED
        BY <3>2, <3>3 DEF TypeOK, CallsOK
    <2> QED
      BY <1>3, <2>1 DEF SignInAnswer, TypeOK, ScreensOK, KnownOK, Call
  <1>4. ASSUME NEW c \in calls, ReadAnswer(c) PROVE TypeInv'
    BY <1>4 DEF ReadAnswer, Stored, CopyOf, TypeOK, CallsOK, ScreensOK, KnownOK, Call, Profile, Known
  <1>5. ASSUME NEW c \in calls, ErrorAnswer(c) PROVE TypeInv'
    BY <1>5 DEF ErrorAnswer, TypeOK, CallsOK, ScreensOK, KnownOK
  <1>6. ASSUME OpenAccount PROVE TypeInv'
    BY <1>6 DEF OpenAccount, TypeOK, CallsOK, ScreensOK, KnownOK
  <1>7. ASSUME LeaveAccount \/ LogoutButton PROVE TypeInv'
    BY <1>7 DEF LeaveAccount, LogoutButton, TypeOK, CallsOK, ScreensOK, KnownOK
  <1>8. ASSUME OpenEdit \/ EditCancel PROVE TypeInv'
    BY <1>8 DEF OpenEdit, EditCancel, TypeOK, CallsOK, ScreensOK, KnownOK
  <1>9. ASSUME NEW n \in Name, NEW p \in Password \cup {None}, EditConfirm(n, p) PROVE TypeInv'
    <2>1. calls' \in SUBSET Call /\ CallsOK'
      <3>1. CASE p = None \/ signedIn = None
        BY <1>9, <3>1 DEF EditConfirm, TypeOK, CallsOK
      <3>2. CASE ~(p = None \/ signedIn = None)
        BY <1>9, <3>2, AsksType DEF EditConfirm, TypeOK
      <3> QED
        BY <3>1, <3>2
    <2> QED
      BY <1>9, <2>1 DEF EditConfirm, Edited, TypeOK, ScreensOK, KnownOK, Profile, Known
  <1>10. ASSUME NEW c \in calls, PasswordAnswer(c) PROVE TypeInv'
    BY <1>10 DEF PasswordAnswer, TypeOK, CallsOK, ScreensOK, KnownOK, Call
  <1>11. ASSUME OpenRegister PROVE TypeInv'
    BY <1>11 DEF OpenRegister, TypeOK, CallsOK, ScreensOK, KnownOK
  <1>12. ASSUME LeaveRegister PROVE TypeInv'
    <2>1. ASSUME NEW d \in calls' PROVE d \in Call /\ (d.op # "read" => d.password \in Password)
      <3>1. PICK c \in calls : d = IF c.op = "create" THEN [c EXCEPT !.live = FALSE] ELSE c
        BY <1>12 DEF LeaveRegister
      <3> QED
        BY <3>1, ChangedCall DEF TypeOK, CallsOK
    <2> QED
      BY <1>12, <2>1 DEF LeaveRegister, TypeOK, CallsOK, ScreensOK, KnownOK
  <1>13. ASSUME NEW p \in Password, RegisterButton(p) PROVE TypeInv'
    <2>1. calls' \in SUBSET Call /\ CallsOK'
      BY <1>13, AsksType DEF RegisterButton, TypeOK
    <2> QED
      BY <1>13, <2>1 DEF RegisterButton, TypeOK, ScreensOK, KnownOK
  <1>14. ASSUME NEW c \in calls, UserCreated(c) PROVE TypeInv'
    <2>1. calls' \in SUBSET Call /\ CallsOK'
      <3> DEFINE new == [c EXCEPT !.done = TRUE]
      <3>1. new \in Call /\ new.op = c.op /\ new.password = c.password
        BY <1>14, ChangedCall, SessionAssumption DEF TypeOK
      <3>2. calls' = (calls \ {c}) \cup {new}
        BY <1>14 DEF UserCreated
      <3> HIDE DEF new
      <3> QED
        BY <3>1, <3>2 DEF TypeOK, CallsOK
    <2> QED
      BY <1>14, <2>1 DEF UserCreated, TypeOK, CallsOK, ScreensOK, KnownOK, Call
  <1>15. ASSUME NEW c \in calls, NEW n \in Name, CreateAnswer(c, n) PROVE TypeInv'
    <2> DEFINE doc == [name |-> n, status |-> "1"]
    <2>1. c.text \in Email /\ c.email \in Email /\ doc \in Profile
      BY DEF TypeOK, Call, Profile
    <2>2. profiles' = [profiles EXCEPT ![c.text] = doc] /\ calls' = calls \ {c}
      BY <1>15 DEF CreateAnswer, Registered
    <2> HIDE DEF doc
    <2>3. /\ profiles' \in [Email -> Profile \cup {None}]
          /\ \A e \in Email : profiles[e] # None => profiles'[e] # None
      BY <2>1, <2>2 DEF TypeOK
    <2>4. TypeOK'
      BY <1>15, <2>1, <2>2, <2>3 DEF CreateAnswer, TypeOK
    <2>5. CallsOK' /\ ScreensOK'
      BY <1>15, <2>2 DEF CreateAnswer, CallsOK, ScreensOK
    <2>6. KnownOK'
      BY <1>15, <2>3 DEF CreateAnswer, KnownOK, TypeOK, Known
    <2> QED
      BY <2>4, <2>5, <2>6
  <1>16. ASSUME Restart PROVE TypeInv'
    BY <1>16 DEF Restart, TypeOK, CallsOK, ScreensOK, KnownOK
  <1>17. ASSUME UNCHANGED vars PROVE TypeInv'
    BY <1>17 DEF vars, TypeOK, CallsOK, ScreensOK, KnownOK
  <1> QED
    BY <1>1, <1>2, <1>3, <1>4, <1>5, <1>6, <1>7, <1>8, <1>9, <1>10, <1>11, <1>12,
       <1>13, <1>14, <1>15, <1>16, <1>17 DEF Next

\* In every behaviour every variable keeps its type.
THEOREM TypeCorrect == Spec => []TypeOK
  <1>1. Spec => []TypeInv
    BY TypeInit, TypeStep, PTL DEF Spec
  <1> QED
    BY <1>1, PTL DEF TypeInv
----------------------------------------------------------------------------
(* Users and documents.                                                    *)

\* Whoever is signed in, changes a password or has been created is a user.
UsersOK ==
    /\ signedIn # None => users[signedIn] # None
    /\ \A c \in calls : c.op = "password" \/ c.done => users[c.email] # None

\* Every step keeps it.
LEMMA UsersStep == TypeInv /\ UsersOK /\ [Next]_vars => UsersOK'
  <1> SUFFICES ASSUME TypeInv, UsersOK, [Next]_vars PROVE UsersOK'
    OBVIOUS
  <1> USE SessionAssumption
  <1>0. /\ calls \in SUBSET Call
        /\ users \in [Email -> Password \cup {None}]
        /\ signedIn \in Email \cup {None}
        /\ CallsOK
    BY DEF TypeInv, TypeOK
  <1>1. ASSUME NEW e \in Email, TypeEmail(e) PROVE UsersOK'
    <2> DEFINE typed(c) == IF c.live /\ c.op = (IF screen = "login" THEN "signIn" ELSE "create")
                           THEN [c EXCEPT !.text = e] ELSE c
    <2>1. calls' = {typed(c) : c \in calls}
      BY <1>1 DEF TypeEmail
    <2>2. \A c \in calls : /\ typed(c).op = c.op /\ typed(c).email = c.email
                          /\ typed(c).done = c.done
      BY <1>0 DEF Call
    <2> HIDE DEF typed
    <2> QED
      BY <1>1, <2>1, <2>2 DEF TypeEmail, UsersOK
  <1>2. ASSUME NEW p \in Password, LoginButton(p) \/ RegisterButton(p) PROVE UsersOK'
    BY <1>2 DEF LoginButton, RegisterButton, Asks, NewCall, UsersOK
  <1>3. ASSUME NEW c \in calls, SignInAnswer(c) PROVE UsersOK'
    <2>1. c.password \in Password
      BY <1>0, <1>3 DEF SignInAnswer, CallsOK
    <2> QED
      BY <1>3, <2>1 DEF SignInAnswer, NewCall, UsersOK
  <1>4. ASSUME NEW c \in calls, ReadAnswer(c) \/ ErrorAnswer(c) PROVE UsersOK'
    BY <1>4 DEF ReadAnswer, ErrorAnswer, UsersOK
  <1>5. ASSUME OpenAccount \/ LeaveAccount \/ LogoutButton \/ OpenEdit \/ EditCancel \/ OpenRegister
        PROVE  UsersOK'
    BY <1>5 DEF OpenAccount, LeaveAccount, LogoutButton, OpenEdit, EditCancel, OpenRegister, UsersOK
  <1>6. ASSUME NEW n \in Name, NEW p \in Password \cup {None}, EditConfirm(n, p) PROVE UsersOK'
    BY <1>6 DEF EditConfirm, Asks, NewCall, UsersOK
  <1>7. ASSUME NEW c \in calls, PasswordAnswer(c) \/ UserCreated(c) PROVE UsersOK'
    <2>1. c.password \in Password /\ c.email \in Email
      BY <1>0, <1>7 DEF PasswordAnswer, UserCreated, CallsOK, Call
    <2>2. users' = [users EXCEPT ![c.email] = c.password] /\ signedIn' = signedIn
      BY <1>7 DEF PasswordAnswer, UserCreated
    <2>3. /\ users'[c.email] # None
          /\ \A e \in Email : users[e] # None => users'[e] # None
      BY <1>0, <2>1, <2>2
    <2>4. \A d \in calls' : d.email = c.email \/ d \in calls
      BY <1>0, <1>7 DEF PasswordAnswer, UserCreated, Call
    <2> QED
      BY <1>0, <2>2, <2>3, <2>4 DEF UsersOK, Call
  <1>8. ASSUME NEW c \in calls, NEW n \in Name, CreateAnswer(c, n) PROVE UsersOK'
    BY <1>8 DEF CreateAnswer, Created, UsersOK
  <1>9. ASSUME LeaveRegister PROVE UsersOK'
    <2> DEFINE gone(c) == IF c.op = "create" THEN [c EXCEPT !.live = FALSE] ELSE c
    <2>1. calls' = {gone(c) : c \in calls}
      BY <1>9 DEF LeaveRegister
    <2>2. \A c \in calls : /\ gone(c).op = c.op /\ gone(c).email = c.email
                          /\ gone(c).done = c.done
      BY <1>0, ChangedCall
    <2> HIDE DEF gone
    <2> QED
      BY <1>9, <2>1, <2>2 DEF LeaveRegister, UsersOK
  <1>10. ASSUME Restart \/ UNCHANGED vars PROVE UsersOK'
    BY <1>10 DEF Restart, vars, UsersOK
  <1> QED
    BY <1>1, <1>2, <1>3, <1>4, <1>5, <1>6, <1>7, <1>8, <1>9, <1>10 DEF Next

\* Where nobody retypes, a register writes the document of the user it created,
\* who is not the first account, which had a user all along; only somebody
\* known to the device has asked for it.
CreatesOK ==
    \A c \in calls : c.op = "create" =>
        /\ c.text = c.email /\ currentUser # None
        /\ c.done => users[c.email] # None /\ c.email # Admin

\* A user without a document has a register that took effect and is awaited.
Awaited ==
    \A e \in Email : users[e] # None /\ profiles[e] = None =>
        \E c \in calls : c.op = "create" /\ c.email = e /\ c.done

LinkInv ==
    /\ "retypes" \notin habit => CreatesOK
    /\ ProfileHasUser /\ AdminKept
    /\ habit \subseteq {"hurries"} => Awaited

\* It holds at the start.
LEMMA LinkInit == Init => LinkInv
  BY SessionAssumption DEF Init, LinkInv, CreatesOK, ProfileHasUser, AdminKept, Awaited

\* Every step keeps the invariant.
LEMMA LinkStep == TypeInv /\ UsersOK /\ LinkInv /\ [Next]_vars => LinkInv'
  <1> SUFFICES ASSUME TypeInv, UsersOK, LinkInv, [Next]_vars PROVE LinkInv'
    OBVIOUS
  <1> USE SessionAssumption DEF LinkInv
  <1>0. /\ calls \in SUBSET Call
        /\ users \in [Email -> Password \cup {None}]
        /\ profiles \in [Email -> Profile \cup {None}]
    BY DEF TypeInv, TypeOK
  <1>1. ASSUME NEW e \in Email, TypeEmail(e) PROVE LinkInv'
    <2>1. CASE "retypes" \in habit
      BY <1>1, <2>1 DEF TypeEmail, ProfileHasUser, AdminKept
    <2>2. CASE "retypes" \notin habit
      <3>1. calls' = calls
        BY <1>1, <2>2 DEF TypeEmail
      <3> QED
        BY <1>1, <2>2, <3>1 DEF TypeEmail, CreatesOK, ProfileHasUser, AdminKept, Awaited
    <2> QED
      BY <2>1, <2>2
  <1>2. ASSUME NEW p \in Password, LoginButton(p) PROVE LinkInv'
    BY <1>2 DEF LoginButton, Asks, NewCall, CreatesOK, ProfileHasUser, AdminKept, Awaited
  <1>3. ASSUME NEW c \in calls, SignInAnswer(c) PROVE LinkInv'
    BY <1>3 DEF SignInAnswer, NewCall, CreatesOK, ProfileHasUser, AdminKept, Awaited
  <1>4. ASSUME NEW c \in calls, ReadAnswer(c) PROVE LinkInv'
    <2>1. currentUser # None => currentUser' # None
      BY <1>0, <1>4 DEF ReadAnswer, Stored, CopyOf, Call, Known, Profile
    <2> QED
      BY <1>4, <2>1 DEF ReadAnswer, CreatesOK, ProfileHasUser, AdminKept, Awaited
  <1>5. ASSUME NEW c \in calls, ErrorAnswer(c) PROVE LinkInv'
    BY <1>5 DEF ErrorAnswer, CreatesOK, ProfileHasUser, AdminKept, Awaited
  <1>6. ASSUME OpenAccount \/ LeaveAccount \/ LogoutButton PROVE LinkInv'
    BY <1>6 DEF OpenAccount, LeaveAccount, LogoutButton, CreatesOK, ProfileHasUser, AdminKept, Awaited
  <1>7. ASSUME OpenEdit \/ EditCancel \/ OpenRegister PROVE LinkInv'
    BY <1>7 DEF OpenEdit, EditCancel, OpenRegister, CreatesOK, ProfileHasUser, AdminKept, Awaited
  <1>8. ASSUME NEW n \in Name, NEW p \in Password \cup {None}, EditConfirm(n, p) PROVE LinkInv'
    <2>1. /\ form.email \in Email /\ profiles[form.email] \in Profile
      BY <1>8 DEF EditConfirm, TypeInv, TypeOK, ScreensOK, KnownOK, Known
    <2>2. \A e \in Email : /\ profiles'[e] # None <=> profiles[e] # None
                           /\ profiles[e] # None => profiles'[e].status = profiles[e].status
      BY <1>0, <1>8, <2>1 DEF EditConfirm, Edited, Profile
    <2>3. /\ calls \subseteq calls' /\ \A c \in calls' \ calls : c.op = "password"
          /\ users' = users /\ habit' = habit /\ currentUser' = currentUser
      BY <1>8 DEF EditConfirm, Asks, NewCall
    <2> QED
      BY <2>2, <2>3 DEF CreatesOK, ProfileHasUser, AdminKept, Awaited
  <1>9. ASSUME NEW c \in calls, PasswordAnswer(c) PROVE LinkInv'
    <2>1. c.password \in Password /\ c.email \in Email
      BY <1>0, <1>9 DEF PasswordAnswer, TypeInv, CallsOK, Call
    <2>2. \A e \in Email : users[e] # None => users'[e] # None
      BY <1>0, <1>9, <2>1 DEF PasswordAnswer
    <2>3. \A e \in Email : users'[e] # None => users[e] # None \/ e = c.email
      BY <1>0, <1>9, <2>1 DEF PasswordAnswer
    <2>4. "retypes" \notin habit => CreatesOK'
      BY <1>0, <1>9, <2>2 DEF PasswordAnswer, CreatesOK, Call
    <2>5. habit \subseteq {"hurries"} => Awaited'
      BY <1>0, <1>9, <2>3 DEF PasswordAnswer, Awaited, UsersOK, Call
    <2> QED
      BY <1>9, <2>2, <2>4, <2>5 DEF PasswordAnswer, ProfileHasUser, AdminKept
  <1>10. ASSUME LeaveRegister PROVE LinkInv'
    <2> DEFINE gone(c) == IF c.op = "create" THEN [c EXCEPT !.live = FALSE] ELSE c
    <2>1. calls' = {gone(c) : c \in calls}
      BY <1>10 DEF LeaveRegister
    <2>2. \A c \in calls : /\ gone(c).op = c.op /\ gone(c).text = c.text
                          /\ gone(c).email = c.email /\ gone(c).done = c.done
      BY <1>0, ChangedCall
    <2> HIDE DEF gone
    <2> QED
      BY <1>10, <2>1, <2>2 DEF LeaveRegister, CreatesOK, ProfileHasUser, AdminKept, Awaited
  <1>11. ASSUME NEW p \in Password, RegisterButton(p) PROVE LinkInv'
    <2>1. currentUser # None
      BY <1>11 DEF RegisterButton, TypeInv, ScreensOK
    <2> QED
      BY <1>11, <2>1 DEF RegisterButton, Asks, NewCall, CreatesOK, ProfileHasUser, AdminKept, Awaited
  <1>12. ASSUME NEW c \in calls, UserCreated(c) PROVE LinkInv'
    <2> DEFINE new == [c EXCEPT !.done = TRUE]
    <2>1. /\ c.email \in Email /\ c.password \in Password
      BY <1>0, <1>12 DEF UserCreated, TypeInv, CallsOK, Call
    <2>2. /\ new.op = "create" /\ new.email = c.email /\ new.text = c.text /\ new.done
      BY <1>0, <1>12, ChangedCall DEF UserCreated, Call
    <2>3. /\ calls' = (calls \ {c}) \cup {new} /\ ~c.done
      BY <1>12 DEF UserCreated
    <2>4. \A e \in Email : users'[e] # None <=> users[e] # None \/ e = c.email
      BY <1>0, <1>12, <2>1 DEF UserCreated
    <2>5. "retypes" \notin habit => c.email # Admin
      BY <1>12 DEF UserCreated, Creates, ProfileHasUser, AdminKept
    <2> HIDE DEF new
    <2>6. "retypes" \notin habit => CreatesOK'
      BY <1>0, <1>12, <2>1, <2>2, <2>3, <2>4, <2>5 DEF UserCreated, CreatesOK, Call
    <2>7. habit \subseteq {"hurries"} => Awaited'
      BY <1>12, <2>1, <2>2, <2>3, <2>4 DEF UserCreated, Awaited
    <2> QED
      BY <1>12, <2>4, <2>6, <2>7 DEF UserCreated, ProfileHasUser, AdminKept
  <1>13. ASSUME NEW c \in calls, NEW n \in Name, CreateAnswer(c, n) PROVE LinkInv'
    <2> DEFINE doc == [name |-> n, status |-> "1"]
    <2>1. c.text \in Email /\ doc # None
      BY <1>0 DEF Call, Profile
    <2>2. /\ profiles' = [profiles EXCEPT ![c.text] = doc] /\ calls' = calls \ {c}
          /\ c.op = "create" /\ c.done /\ users' = users /\ habit' = habit
          /\ currentUser' = currentUser
      BY <1>13 DEF CreateAnswer, Registered, Created
    <2> HIDE DEF doc
    <2>3. "retypes" \notin habit => CreatesOK' /\ c.text = c.email /\ c.text # Admin /\ users[c.text] # None
      BY <2>2 DEF CreatesOK
    <2>4. ProfileHasUser' /\ AdminKept'
      BY <1>0, <2>1, <2>2, <2>3 DEF ProfileHasUser, AdminKept
    <2>5. habit \subseteq {"hurries"} => Awaited'
      BY <1>0, <2>1, <2>2, <2>3 DEF Awaited
    <2> QED
      BY <2>2, <2>3, <2>4, <2>5
  <1>14. ASSUME Restart PROVE LinkInv'
    BY <1>14 DEF Restart, CreatesOK, ProfileHasUser, AdminKept, Awaited
  <1>15. ASSUME UNCHANGED vars PROVE LinkInv'
    BY <1>15 DEF vars, CreatesOK, ProfileHasUser, AdminKept, Awaited
  <1> QED
    BY <1>1, <1>2, <1>3, <1>4, <1>5, <1>6, <1>7, <1>8, <1>9, <1>10, <1>11, <1>12,
       <1>13, <1>14, <1>15 DEF Next

\* The three together are invariant.
LEMMA LinkInvariant == Spec => [](TypeInv /\ UsersOK /\ LinkInv)
  <1>1. Init => UsersOK
    BY DEF Init, UsersOK
  <1> QED
    BY <1>1, TypeInit, TypeStep, UsersStep, LinkInit, LinkStep, PTL DEF Spec

\* Where nobody retypes the email while a register is answered, a document is
\* written only for a user Auth has created.
THEOREM ProfileHasUserHolds == Spec => []ProfileHasUser
  BY LinkInvariant, PTL DEF LinkInv

\* There, no register or edit takes the status of the first account away.
THEOREM AdminKeptHolds == Spec => []AdminKept
  BY LinkInvariant, PTL DEF LinkInv

\* With a librarian who at most hurries, every user whose creation has been
\* answered has a document.
THEOREM UserHasProfileHolds == Spec => []UserHasProfile
  <1>1. LinkInv => UserHasProfile
    BY DEF LinkInv, Awaited, UserHasProfile
  <1> QED
    BY <1>1, LinkInvariant, PTL
----------------------------------------------------------------------------
(* The patient librarian.                                                  *)

\* With one who waits for every answer there is one call at a time, of the
\* screen it was made on; a sign-in reads the document of the user signed in,
\* and no tab shows anybody before that.  Once it is read, the key and what was
\* copied from it, to the account tab and to the form, are of the user signed in.
PatientOK ==
    habit \subseteq {"restarts", "loses"} =>
        /\ \A c, d \in calls : c = d
        /\ screen = "login" => shown = None
        /\ form # None => screen = "edit"
        /\ profileRead =>
              /\ currentUser # None /\ currentUser.email = signedIn
              /\ shown # None => shown.email = signedIn
              /\ form # None => form.email = signedIn
        /\ \A c \in calls :
              /\ c.op = "signIn" => screen = "login" /\ c.text = c.email
              /\ c.op = "create" => screen = "register"
              /\ c.op = "read" => screen = "main" /\ shown = None /\ signedIn = c.email

\* Every step keeps it.
LEMMA PatientStep == TypeInv /\ PatientOK /\ [Next]_vars => PatientOK'
  <1> SUFFICES ASSUME TypeInv, PatientOK, [Next]_vars, habit \subseteq {"restarts", "loses"}
               PROVE  PatientOK'
    <2>1. ASSUME TypeInv, PatientOK, [Next]_vars PROVE habit' = habit
      BY <2>1 DEF vars, Next, TypeEmail, LoginButton, SignInAnswer, ReadAnswer, ErrorAnswer,
             OpenAccount, LeaveAccount, LogoutButton, OpenEdit, EditCancel, EditConfirm,
             PasswordAnswer, OpenRegister, LeaveRegister, RegisterButton, UserCreated,
             CreateAnswer, Restart
    <2> QED
      BY <2>1 DEF PatientOK
  <1> USE SessionAssumption
  <1>0. /\ calls \in SUBSET Call
        /\ profiles \in [Email -> Profile \cup {None}]
        /\ users \in [Email -> Password \cup {None}]
        /\ "hurries" \notin habit
        /\ Ready => calls = {}
    BY DEF TypeInv, TypeOK, Ready
  <1>1. ASSUME NEW e \in Email, TypeEmail(e) PROVE PatientOK'
    <2>1. calls' = {} /\ calls = {}
      BY <1>0, <1>1 DEF TypeEmail
    <2> QED
      BY <1>1, <2>1 DEF TypeEmail, PatientOK
  <1>2. ASSUME NEW p \in Password, LoginButton(p) PROVE PatientOK'
    <2> DEFINE new == NewCall("signIn", emailText["login"], p)
    <2>1. new.op = "signIn" /\ new.text = new.email
      BY DEF NewCall
    <2>2. calls' = {new} /\ calls = {}
      BY <1>0, <1>2 DEF LoginButton, Asks
    <2> HIDE DEF new
    <2> QED
      BY <1>2, <2>1, <2>2 DEF LoginButton, PatientOK
  <1>3. ASSUME NEW c \in calls, SignInAnswer(c) PROVE PatientOK'
    <2> DEFINE new == NewCall("read", ProfileAsked(c), None)
    <2>1. new.op = "read" /\ new.email = c.text
      BY DEF NewCall, ProfileAsked
    <2>2. calls' = {new}
      BY <1>3 DEF SignInAnswer, PatientOK
    <2>3. /\ c.text = c.email /\ screen = "login" /\ shown = None /\ form = None
      BY <1>3 DEF SignInAnswer, PatientOK
    <2> HIDE DEF new
    <2> QED
      BY <1>3, <2>1, <2>2, <2>3 DEF SignInAnswer, PatientOK
  <1>4. ASSUME NEW c \in calls, ReadAnswer(c) PROVE PatientOK'
    <2>1. calls' = {}
      BY <1>4 DEF ReadAnswer, PatientOK
    <2>2. screen = "main" /\ shown = None /\ form = None /\ signedIn = c.email
      BY <1>4 DEF ReadAnswer, PatientOK
    <2>3. profiles[c.email] # None => currentUser' # None /\ currentUser'.email = signedIn
      BY <1>0, <1>4, <2>2 DEF ReadAnswer, Stored, CopyOf, Known, Profile, Call
    <2>4. profiles[c.email] = None => currentUser' = currentUser /\ profileRead' = profileRead
      BY <1>4 DEF ReadAnswer, Stored, TypeInv, TypeOK
    <2> QED
      BY <1>4, <2>1, <2>2, <2>3, <2>4 DEF ReadAnswer, PatientOK
  <1>5. ASSUME NEW c \in calls, ErrorAnswer(c) PROVE PatientOK'
    <2>1. calls' = {}
      BY <1>5 DEF ErrorAnswer, PatientOK
    <2> QED
      BY <1>5, <2>1 DEF ErrorAnswer, PatientOK
  <1>6. ASSUME OpenAccount PROVE PatientOK'
    BY <1>0, <1>6 DEF OpenAccount, PatientOK
  <1>7. ASSUME LeaveAccount PROVE PatientOK'
    <2>1. shown # None
      BY <1>7 DEF LeaveAccount, TypeInv, ScreensOK
    <2>2. \A c \in calls : c.op # "signIn" /\ c.op # "create" /\ c.op # "read"
      BY <1>7 DEF LeaveAccount, PatientOK
    <2> QED
      BY <1>7, <2>1, <2>2 DEF LeaveAccount, PatientOK
  <1>8. ASSUME LogoutButton PROVE PatientOK'
    BY <1>0, <1>8 DEF LogoutButton, PatientOK
  <1>9. ASSUME OpenEdit \/ OpenRegister PROVE PatientOK'
    BY <1>0, <1>9 DEF OpenEdit, OpenRegister, PatientOK
  <1>10. ASSUME EditCancel PROVE PatientOK'
    BY <1>10 DEF EditCancel, PatientOK
  <1>11. ASSUME NEW n \in Name, NEW p \in Password \cup {None}, EditConfirm(n, p) PROVE PatientOK'
    <2> DEFINE new == NewCall("password", signedIn, p)
    <2>1. new.op = "password"
      BY DEF NewCall
    <2>2. calls = {} /\ calls' \in SUBSET {new}
      BY <1>0, <1>11 DEF EditConfirm, Asks
    <2> HIDE DEF new
    <2> QED
      BY <1>11, <2>1, <2>2 DEF EditConfirm, PatientOK
  <1>12. ASSUME NEW c \in calls, PasswordAnswer(c) PROVE PatientOK'
    <2>1. calls' = {} /\ \A d \in calls : d.op = "password"
      BY <1>12 DEF PasswordAnswer, PatientOK
    <2> QED
      BY <1>12, <2>1 DEF PasswordAnswer, PatientOK
  <1>13. ASSUME LeaveRegister PROVE PatientOK'
    <2>1. calls = {} /\ calls' = {}
      BY <1>0, <1>13 DEF LeaveRegister
    <2> QED
      BY <1>13, <2>1 DEF LeaveRegister, PatientOK
  <1>14. ASSUME NEW p \in Password, RegisterButton(p) PROVE PatientOK'
    <2> DEFINE new == NewCall("create", emailText["register"], p)
    <2>1. new.op = "create"
      BY DEF NewCall
    <2>2. calls' = {new} /\ calls = {}
      BY <1>0, <1>14 DEF RegisterButton, Asks
    <2> HIDE DEF new
    <2> QED
      BY <1>14, <2>1, <2>2 DEF RegisterButton, PatientOK
  <1>15. ASSUME NEW c \in calls, UserCreated(c) PROVE PatientOK'
    <2> DEFINE new == [c EXCEPT !.done = TRUE]
    <2>1. new.op = "create" /\ screen = "register"
      BY <1>0, <1>15 DEF UserCreated, PatientOK, Call
    <2>2. calls' = {new}
      BY <1>15 DEF UserCreated, PatientOK
    <2> HIDE DEF new
    <2> QED
      BY <1>15, <2>1, <2>2 DEF UserCreated, PatientOK
  <1>16. ASSUME NEW c \in calls, NEW n \in Name, CreateAnswer(c, n) PROVE PatientOK'
    <2>1. calls' = {} /\ screen = "register" /\ ~profileRead'
      BY <1>16 DEF CreateAnswer, PatientOK
    <2> QED
      BY <1>16, <2>1 DEF CreateAnswer, PatientOK
  <1>17. ASSUME Restart PROVE PatientOK'
    BY <1>0, <1>17 DEF Restart, PatientOK
  <1>18. ASSUME UNCHANGED vars PROVE PatientOK'
    BY <1>18 DEF vars, PatientOK
  <1> QED
    BY <1>1, <1>2, <1>3, <1>4, <1>5, <1>6, <1>7, <1>8, <1>9, <1>10, <1>11, <1>12,
       <1>13, <1>14, <1>15, <1>16, <1>17, <1>18 DEF Next

\* To a librarian who waits for the answers, from the moment the read after the
\* sign-in has brought the document until a user is created, the account screen
\* shows the user signed in and the edit screen edits that user's document.
THEOREM ProfileShownHolds == Spec => []ProfileShown
  <1>1. Init => PatientOK
    BY DEF Init, PatientOK
  <1>2. TypeInv /\ PatientOK => ProfileShown
    BY DEF TypeInv, ScreensOK, PatientOK, ProfileShown
  <1> QED
    BY <1>1, <1>2, LinkInvariant, PatientStep, PTL DEF Spec
============================================================================
