------------------------------ MODULE Sessions ------------------------------
(***************************************************************************)
(* Signing in and out (identity/auth.py, api/auth.py): passwords and the    *)
(* hosted pages of the identity provider, AuthKit; the cookies of several   *)
(* browsers; the sessions and users the program keeps.  Requests run in     *)
(* parallel and their provider calls take time; links and callbacks reach   *)
(* a browser other than the one that asked for them, or never arrive.       *)
(***************************************************************************)
EXTENDS Naturals, Sequences, FiniteSets

CONSTANTS
    Subjects,   \* accounts at the provider
    Browsers, Flows, Signings,
    MaxSessions, Nobody

VARIABLES
    authkit,    \* authkit[s]: has a password, mailbox verified, reset link sent
    remembered, \* remembered[b]: the account whose AuthKit session browser b holds
    identity,   \* identity[s]: the user of the account
    users,      \* users created
    session,    \* sessions created
    cookie,     \* cookie[b]: session, login state, pending verification, force
    flow,       \* flow[f]: a visit to the hosted pages
    signing,    \* requests at work
    left        \* left[b]: "out" since a sign-out, "forced" once a forced login or its cookie is gone
sessionVars == <<authkit, remembered, identity, users, session, cookie, flow, signing, left>>

\* The marker for nothing is no user, session, visit, account or browser.
NobodyApart == Nobody \notin Nat /\ Nobody \notin Flows /\ Nobody \notin Subjects /\ Nobody \notin Browsers

Resting == [at |-> "idle", browser |-> Nobody, hosted |-> FALSE, origin |-> Nobody, subject |-> Nobody, resumed |-> "no", user |-> Nobody]
Unused == [at |-> "unused", browser |-> Nobody, challenge |-> FALSE, after |-> "no", subject |-> Nobody, resumed |-> "no"]
Clean == [session |-> Nobody, state |-> Nobody, pending |-> Nobody, force |-> FALSE]

SessionInit ==
    /\ authkit \in [Subjects -> {[password |-> FALSE, verified |-> FALSE, link |-> FALSE],
                                 [password |-> TRUE, verified |-> FALSE, link |-> FALSE]}]
    /\ remembered = [b \in Browsers |-> Nobody]
    /\ identity = [s \in Subjects |-> Nobody] /\ users = 0 /\ session = <<>>
    /\ cookie = [b \in Browsers |-> Clean] /\ flow = [f \in Flows |-> Unused]
    /\ signing = [q \in Signings |-> Resting] /\ left = [b \in Browsers |-> "no"]

-----------------------------------------------------------------------------
(* Passwords.                                                              *)

\* Registration and a forgotten password both send a link to the mailbox; neither says
\* whether the account was known.
RequestPasswordReset(s) ==
    /\ ~authkit[s].link /\ authkit' = [authkit EXCEPT ![s].link = TRUE]
    /\ UNCHANGED <<remembered, identity, users, session, cookie, flow, signing, left>>

\* The provider confirms the reset: it verifies the mailbox and ends its own sessions.
ConfirmPasswordReset(q, b, s) ==
    /\ signing[q] = Resting /\ authkit[s].link
    /\ authkit' = [authkit EXCEPT ![s] = [password |-> TRUE, verified |-> TRUE, link |-> FALSE]]
    /\ remembered' = [c \in Browsers |-> IF remembered[c] = s THEN Nobody ELSE remembered[c]]
    /\ signing' = [signing EXCEPT ![q] = [Resting EXCEPT !.at = "revoke", !.browser = b, !.subject = s]]
    /\ UNCHANGED <<identity, users, session, cookie, flow, left>>

SignedOut(b) == [cookie EXCEPT ![b].session = Nobody, ![b].force = TRUE]

\* The state of a login begun before a sign-out stays in the browser: history notes that the
\* login is an earlier one.
Earlier(b) ==
    /\ left' = [left EXCEPT ![b] = "out"]
    /\ flow' = [f \in Flows |->
            IF flow[f].browser # b THEN flow[f]
            ELSE [flow[f] EXCEPT !.after = "earlier", !.resumed = IF @ = "no" THEN @ ELSE "earlier"]]

Overtaken(q, b) ==
    IF signing[q].browser # b \/ signing[q].resumed = "no" THEN signing[q] ELSE [signing[q] EXCEPT !.resumed = "earlier"]

\* Then the program ends the account's, in the transaction it commits before it answers.
RevokeUserSessions(q) ==
    LET b == signing[q].browser
        user == identity[signing[q].subject] IN
    /\ signing[q].at = "revoke"
    /\ session' = [i \in DOMAIN session |->
            IF user # Nobody /\ session[i].user = user THEN [session[i] EXCEPT !.live = FALSE] ELSE session[i]]
    /\ cookie' = [SignedOut(b) EXCEPT ![b].pending = Nobody]
    /\ Earlier(b)
    /\ signing' = [r \in Signings |-> IF r = q THEN Resting ELSE Overtaken(r, b)]
    /\ UNCHANGED <<authkit, remembered, identity, users>>

Establish(b, s) == [Resting EXCEPT !.at = "establish", !.browser = b, !.origin = b, !.subject = s]

Hosted(b, f) ==
    [Establish(b, flow[f].subject) EXCEPT !.hosted = TRUE, !.origin = flow[f].browser, !.resumed = flow[f].resumed]

\* The provider takes the password, wants the mailbox verified, or sends to its hosted pages.
PasswordLogin(q, b, s) ==
    /\ signing[q] = Resting /\ authkit[s].password
    /\ \/ /\ authkit[s].verified
          /\ signing' = [signing EXCEPT ![q] = Establish(b, s)]
          /\ UNCHANGED cookie
       \/ /\ cookie' = [cookie EXCEPT ![b].pending = IF authkit[s].verified THEN Nobody ELSE s]
          /\ cookie' # cookie /\ UNCHANGED signing
    /\ UNCHANGED <<authkit, remembered, identity, users, session, flow, left>>

\* The code mailed to the account whose password was entered in this browser.
VerifyEmail(q, b) ==
    LET s == cookie[b].pending IN
    /\ signing[q] = Resting /\ s # Nobody
    /\ authkit' = [authkit EXCEPT ![s].verified = TRUE]
    /\ signing' = [signing EXCEPT ![q] = Establish(b, s)]
    /\ UNCHANGED <<remembered, identity, users, session, cookie, flow, left>>

-----------------------------------------------------------------------------
(* The hosted pages.                                                       *)

\* After a sign-out, AuthKit is asked for a fresh challenge.
Challenged(b) == cookie[b].force

\* The login is sent to AuthKit with a state of its own; the force cookie is spent.
Login(b, f) ==
    /\ flow[f] = Unused
    /\ flow' = [flow EXCEPT ![f] = [Unused EXCEPT !.at = "begun", !.browser = b, !.challenge = Challenged(b), !.after = left[b]]]
    /\ cookie' = [cookie EXCEPT ![b].state = f, ![b].force = FALSE]
    /\ left' = [left EXCEPT ![b] = IF @ = "out" /\ cookie[b].force THEN "forced" ELSE @]
    /\ UNCHANGED <<authkit, remembered, identity, users, session, signing>>

\* AuthKit takes the account it remembers in that browser, unless challenged, or credentials.
Authenticate(f) ==
    LET b == flow[f].browser IN
    /\ flow[f].at = "begun"
    /\ \E s \in Subjects, entered \in BOOLEAN :
        /\ authkit[s].verified /\ authkit[s].password
        /\ ~entered => ~flow[f].challenge /\ remembered[b] = s
        /\ flow' = [flow EXCEPT ![f].at = "authenticated", ![f].subject = s,
                                ![f].resumed = IF entered THEN "no" ELSE IF flow[f].after = "no" THEN "kept" ELSE flow[f].after]
        /\ remembered' = [remembered EXCEPT ![b] = s]
    /\ UNCHANGED <<authkit, identity, users, session, cookie, signing, left>>

AnyState(b, f) == TRUE

StateMatches(b, f) == cookie[b].state = f

\* The callback, in whatever browser its address is opened; its code is exchanged once.  Every
\* failure, of the state, of the provider or of a policy, deletes the browser's state.
Callback(q, b, f) ==
    /\ signing[q] = Resting /\ flow[f].at = "authenticated"
    /\ \/ /\ StateMatches(b, f)
          /\ signing' = [signing EXCEPT ![q] = Hosted(b, f)]
          /\ flow' = [flow EXCEPT ![f] = [Unused EXCEPT !.at = "used"]]
          /\ UNCHANGED cookie
       \/ /\ cookie[b].state # Nobody
          /\ cookie' = [cookie EXCEPT ![b].state = Nobody]
          /\ UNCHANGED <<signing, flow>>
    /\ UNCHANGED <<authkit, remembered, identity, users, session, left>>

-----------------------------------------------------------------------------
(* Users and sessions.                                                     *)

\* The account's user is read: an e-mail never links an account to a user.
EstablishIdentity(q) ==
    /\ signing[q].at = "establish"
    /\ signing' = [signing EXCEPT ![q].at = "create", ![q].user = identity[signing[q].subject]]
    /\ UNCHANGED <<authkit, remembered, identity, users, session, cookie, flow, left>>

\* Two first logins of an account: the unique index refuses the second.
Taken(q) == signing[q].user = Nobody /\ identity[signing[q].subject] # Nobody

\* A new user when there was none, a session and the browser's cookies: all those of logins are
\* deleted, after the hosted pages their state alone.
CreateSession(q) ==
    LET b == signing[q].browser
        s == signing[q].subject
        user == IF signing[q].user = Nobody THEN users + 1 ELSE signing[q].user IN
    /\ signing[q].at = "create" /\ ~Taken(q) /\ Len(session) < MaxSessions
    /\ users' = IF signing[q].user = Nobody THEN user ELSE users
    /\ identity' = [identity EXCEPT ![s] = user]
    /\ session' = Append(session, [user |-> user, subject |-> s, origin |-> signing[q].origin, live |-> TRUE,
                            resumed |-> signing[q].resumed])
    /\ cookie' = [cookie EXCEPT ![b] =
            IF signing[q].hosted THEN [cookie[b] EXCEPT !.session = Len(session'), !.state = Nobody]
                                 ELSE [Clean EXCEPT !.session = Len(session')]]
    /\ left' = [left EXCEPT ![b] = "no"]
    /\ signing' = [signing EXCEPT ![q] = Resting]
    /\ UNCHANGED <<authkit, remembered, flow>>

\* A conflict, a fault or a lost answer: the transaction is rolled back.
RollBack(q) ==
    /\ signing[q] # Resting
    /\ signing' = [signing EXCEPT ![q] = Resting]
    /\ UNCHANGED <<authkit, remembered, identity, users, session, cookie, flow, left>>

Live(b) == cookie[b].session # Nobody /\ session[cookie[b].session].live

\* The session is revoked here, and at the provider if it can be reached.
Logout(b) ==
    /\ cookie[b].session # Nobody
    /\ session' = [session EXCEPT ![cookie[b].session].live = FALSE]
    /\ remembered' \in {remembered} \cup IF Live(b) THEN {[remembered EXCEPT ![b] = Nobody]} ELSE {}
    /\ cookie' = SignedOut(b) /\ Earlier(b) /\ signing' = [q \in Signings |-> Overtaken(q, b)]
    /\ UNCHANGED <<authkit, identity, users>>

\* A membership is deactivated, or the session's time is over.
EndSession(i) ==
    /\ session[i].live
    /\ \/ session' = [session EXCEPT ![i].live = FALSE]
       \/ session' = [j \in DOMAIN session |-> IF session[j].user = session[i].user
                        THEN [session[j] EXCEPT !.live = FALSE] ELSE session[j]]
    /\ UNCHANGED <<authkit, remembered, identity, users, cookie, flow, signing, left>>

\* Ten minutes pass: a browser forgets what it holds for a login.
CookiesExpire(b) ==
    /\ cookie' = [cookie EXCEPT ![b] = [Clean EXCEPT !.session = cookie[b].session]]
    /\ cookie' # cookie
    /\ left' = [left EXCEPT ![b] = IF @ = "out" THEN "forced" ELSE @]
    /\ UNCHANGED <<authkit, remembered, identity, users, session, flow, signing>>

SessionNext ==
    \/ \E s \in Subjects : RequestPasswordReset(s)
    \/ \E q \in Signings, b \in Browsers :
        \/ \E s \in Subjects : ConfirmPasswordReset(q, b, s) \/ PasswordLogin(q, b, s)
        \/ VerifyEmail(q, b)
        \/ \E f \in Flows : Callback(q, b, f)
    \/ \E q \in Signings : RevokeUserSessions(q) \/ EstablishIdentity(q) \/ CreateSession(q) \/ RollBack(q)
    \/ \E b \in Browsers : (\E f \in Flows : Login(b, f)) \/ Logout(b) \/ CookiesExpire(b)
    \/ \E f \in Flows : Authenticate(f)
    \/ \E i \in DOMAIN session : EndSession(i)

SessionSpec == SessionInit /\ [][SessionNext]_sessionVars

-----------------------------------------------------------------------------
(* Properties.                                                             *)

\* A browser is signed in only as who authenticated in it: a callback whose login another browser
\* began opens nothing there (api/auth.py:375-379), and tabs that overwrite each other's state fail.
LoginBound == \A b \in Browsers : cookie[b].session # Nobody => session[cookie[b].session].origin = b

\* One account, one user and one user, one account, though first logins run in parallel
\* (identity/auth.py:214-246).
OneUserPerSubject ==
    \A i, j \in DOMAIN session : session[i].subject = session[j].subject <=> session[i].user = session[j].user

\* After a sign-out, the account AuthKit still remembers signs in again without credentials only
\* if a forced login was begun and not finished, ten minutes passed, or the login was begun
\* before the sign-out, which leaves its state in the browser (api/auth.py:418-437).
ResumedOnlyIfForced == \A i \in DOMAIN session : session[i].resumed # "out"

\* Who is signed in where, and as whom.
SessionsHold == LoginBound /\ OneUserPerSubject /\ ResumedOnlyIfForced
=============================================================================
