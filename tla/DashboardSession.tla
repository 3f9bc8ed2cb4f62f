---------------------------- MODULE DashboardSession ----------------------------
(***************************************************************************)
(* Who is logged in, in the dashboard: the login page (pages/LoginPage.tsx)*)
(* the store (store/authStore.ts), the two interceptors of the API client  *)
(* (services/api.ts), and what leads from page to page (App.tsx, the       *)
(* layout's header and sidebar).  No route asks for a login; the server    *)
(* refuses some requests without one.  An answer 401 ends whatever session *)
(* there is when it arrives.                                               *)
(*                                                                         *)
(* careful      chosen once: the operator does one thing after the other   *)
(* storageWorks whether the browser lets the page use its local storage    *)
(* at           the login page, or a page of the application               *)
(* token, isAuthenticated   the store's; token 0 is none                   *)
(* stored       the token in local storage                                 *)
(* isLoading    the login page's; attempt[a] is the a-th submission        *)
(* request[r]   a request for a page that needs a login, with its token    *)
(* issued, expired   tokens the server gave out, and those it accepts no   *)
(*              longer: run out, revoked, or of a user who is gone         *)
(***************************************************************************)
EXTENDS InformationBounds

VARIABLES careful, storageWorks, at, token, isAuthenticated, stored, isLoading, attempt,
          request, issued, expired
store == <<token, isAuthenticated, stored>>
sessionServer == <<issued, expired>>
sessionVars == <<careful, storageWorks, at, store, isLoading, attempt, request, sessionServer>>

NoRequest == [stage |-> "idle", token |-> 0]
NoAttempt == [stage |-> "unused", token |-> 0]
Pending(a) == attempt[a].stage \notin {"unused", "over"}
Quiet == /\ \A a \in Attempts : ~Pending(a)
         /\ \A r \in Requests : request[r] = NoRequest
MayAct == careful => Quiet

SessionInit ==
  /\ careful \in BOOLEAN /\ storageWorks \in BOOLEAN
  /\ at = "app"
  /\ token = 0 /\ isAuthenticated = FALSE /\ stored = 0
  /\ isLoading = FALSE
  /\ attempt = [a \in Attempts |-> NoAttempt]
  /\ request = [r \in Requests |-> NoRequest]
  /\ issued = 0 /\ expired = {}

\* What the store's login() does with an answer 200: the flag is set whatever token the
\* answer has.  safeStorage swallows what the browser refuses.
LogIn(t) == /\ token' = t /\ isAuthenticated' = TRUE
            /\ stored' = IF storageWorks /\ t # 0 THEN t ELSE stored

\* What login() does with any failure, and logout().
LogOut == /\ token' = 0 /\ isAuthenticated' = FALSE
          /\ stored' = IF storageWorks THEN 0 ELSE stored

\* Leaving the login page drops its state, and coming to it starts with a new one.
\* Mutant: the page's state is kept.
NavigateKeeps(to) == at' = to /\ UNCHANGED isLoading
Navigate(to) == at' = to /\ isLoading' = FALSE

(***************************************************************************)
(* The login page.                                                         *)
(***************************************************************************)
Submitted(a) ==
  /\ at = "login" /\ attempt[a] = NoAttempt /\ MayAct
  /\ attempt' = [attempt EXCEPT ![a].stage = "delay"]
  /\ isLoading' = TRUE
  /\ UNCHANGED <<careful, storageWorks, at, store, request, sessionServer>>

\* The button is disabled while a login is under way, and with it the Enter key.
handleSubmit(a) == ~isLoading /\ Submitted(a)

\* Demo Access dispatches the submit event itself, past the disabled button.
handleDemoAccess(a) == Submitted(a)

\* 1.2 seconds later.
SendLogin(a) ==
  /\ attempt[a].stage = "delay"
  /\ attempt' = [attempt EXCEPT ![a].stage = "sent"]
  /\ UNCHANGED <<careful, storageWorks, at, store, isLoading, request, sessionServer>>

Granted(a) ==
  /\ attempt[a].stage = "sent" /\ issued < MaxTokens
  /\ issued' = issued + 1
  /\ attempt' = [attempt EXCEPT ![a] = [stage |-> "granted", token |-> issued']]
  /\ UNCHANGED <<careful, storageWorks, at, store, isLoading, request, expired>>

\* login() of the store, then the page leads to the application wherever one is.
LoginSucceeds(a) ==
  /\ attempt[a].stage = "granted"
  /\ LogIn(attempt[a].token)
  /\ Navigate("app")
  /\ attempt' = [attempt EXCEPT ![a].stage = "over"]
  /\ UNCHANGED <<careful, storageWorks, request, sessionServer>>

\* Wrong credentials, the limit of attempts, or no answer: the session there was is
\* gone, and the page leads to the application all the same.
LoginFails(a) ==
  /\ attempt[a].stage \in {"sent", "granted"}
  /\ LogOut
  /\ Navigate("app")
  /\ attempt' = [attempt EXCEPT ![a].stage = "over"]
  /\ UNCHANGED <<careful, storageWorks, request, sessionServer>>

(***************************************************************************)
(* Pages: logging out, going back, loading anew.                           *)
(***************************************************************************)

\* In the header's menu and in the sidebar; the server is not told.
logout ==
  /\ at = "app" /\ MayAct
  /\ LogOut /\ Navigate("login")
  /\ UNCHANGED <<careful, storageWorks, attempt, request, sessionServer>>

BrowserBack ==
  /\ MayAct
  /\ Navigate(IF at = "app" THEN "login" ELSE "app")
  /\ UNCHANGED <<careful, storageWorks, store, attempt, request, sessionServer>>

\* The store starts empty; nothing calls loadFromStorage, so local storage is not read.
Reload ==
  /\ MayAct
  /\ token' = 0 /\ isAuthenticated' = FALSE /\ UNCHANGED stored
  /\ \E to \in {"app", "login"} : Navigate(to)
  /\ attempt' = [a \in Attempts |-> IF Pending(a) THEN [NoAttempt EXCEPT !.stage = "over"]
                                    ELSE attempt[a]]
  /\ request' = [r \in Requests |-> NoRequest]
  /\ UNCHANGED <<careful, storageWorks, sessionServer>>

(***************************************************************************)
(* Requests.                                                               *)
(***************************************************************************)

\* The interceptor puts the token of the moment into the request.
\* Mutant: it takes the one in local storage.
TokenStored == stored
TokenOfTheMoment == token

Ask(r) ==
  /\ at = "app" /\ request[r] = NoRequest
  /\ careful => \A a \in Attempts : ~Pending(a)
  /\ request' = [request EXCEPT ![r] = [stage |-> "sent", token |-> TokenOfTheMoment]]
  /\ UNCHANGED <<careful, storageWorks, at, store, isLoading, attempt, sessionServer>>

\* get_current_user: no token, and one that is not accepted any longer, is refused.
Serve(r) ==
  /\ request[r].stage = "sent"
  /\ request' = [request EXCEPT ![r].stage =
                   IF request[r].token \in expired \cup {0} THEN "401" ELSE "200"]
  /\ UNCHANGED <<careful, storageWorks, at, store, isLoading, attempt, sessionServer>>

\* Another error of the server, no connection, or no answer within ten seconds.
RequestFails(r) ==
  /\ request[r].stage = "sent"
  /\ request' = [request EXCEPT ![r].stage = "failed"]
  /\ UNCHANGED <<careful, storageWorks, at, store, isLoading, attempt, sessionServer>>

\* The interceptor looks at the status of the error, not at the request's token.
\* Mutant: every error ends the session.
EndsOnError(r) == request[r].stage \in {"401", "failed"}
EndsSession(r) == request[r].stage = "401"

AnswerArrives(r) ==
  /\ request[r].stage \in {"401", "200", "failed"}
  /\ IF EndsSession(r) THEN LogOut ELSE UNCHANGED store
  /\ request' = [request EXCEPT ![r] = NoRequest]
  /\ UNCHANGED <<careful, storageWorks, at, isLoading, attempt, sessionServer>>

Expire(t) ==
  /\ t \in 1..issued /\ expired' = expired \cup {t}
  /\ UNCHANGED <<careful, storageWorks, at, store, isLoading, attempt, request, issued>>

SessionNext ==
  \/ \E a \in Attempts : \/ handleSubmit(a) \/ handleDemoAccess(a) \/ SendLogin(a)
                         \/ Granted(a) \/ LoginSucceeds(a) \/ LoginFails(a)
  \/ logout \/ BrowserBack \/ Reload
  \/ \E r \in Requests : \/ Ask(r) \/ Serve(r) \/ RequestFails(r)
                         \/ AnswerArrives(r)
  \/ \E t \in 1..MaxTokens : Expire(t)

\* The timer fires, and axios answers or gives up after ten seconds.
LoginStep(a) == SendLogin(a) \/ LoginSucceeds(a) \/ LoginFails(a)
SessionFairness == \A a \in Attempts : WF_sessionVars(LoginStep(a))
SessionSpec == SessionInit /\ [][SessionNext]_sessionVars /\ SessionFairness

(***************************************************************************)
(* Properties.                                                             *)
(***************************************************************************)

\* Every variable has its type.
SessionTypeOK ==
  /\ careful \in BOOLEAN /\ storageWorks \in BOOLEAN /\ at \in {"app", "login"}
  /\ token \in 0..MaxTokens /\ isAuthenticated \in BOOLEAN /\ stored \in 0..MaxTokens
  /\ isLoading \in BOOLEAN
  /\ attempt \in [Attempts -> [stage : {"unused", "delay", "sent", "granted", "over"},
                               token : 0..MaxTokens]]
  /\ request \in [Requests -> [stage : {"idle", "sent", "401", "200", "failed"},
                            token : 0..MaxTokens]]
  /\ issued \in 0..MaxTokens /\ expired \subseteq 1..issued

\* However requests and logins overlap, a session whose token the server still accepts,
\* and which no logout, reload or failed login ends, is ended only by a refusal of a
\* request sent outside it (before its login, or in another session), never by one of
\* its own requests, refused or failed.
SessionsEndWithCause ==
  [][ token # 0 /\ token' = 0 =>
        \/ logout \/ Reload \/ token \in expired
        \/ \E a \in Attempts : LoginFails(a)
        \/ \E r \in Requests : request[r].stage = "401" /\ request[r].token # token ]_sessionVars

\* An operator who does one thing after the other loses or changes a session only by
\* logging out or in, by a reload, or because its token ran out.
CarefulKeepsSession ==
  [][ careful /\ token # 0 /\ token' # token =>
        \/ logout \/ Reload \/ token \in expired
        \/ \E a \in Attempts : LoginSucceeds(a) \/ LoginFails(a) ]_sessionVars

\* The button turns only while a submission is under way; for an operator who does one
\* thing after the other it turns just as long.
LoadingHasAttempt ==
  /\ isLoading => \E a \in Attempts : Pending(a)
  /\ careful => (isLoading <=> \E a \in Attempts : Pending(a))

\* A submission comes to its end, and the button can be used again.
LoginEnds == isLoading ~> ~isLoading
=============================================================================
