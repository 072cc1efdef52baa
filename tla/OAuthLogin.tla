----------------------------- MODULE OAuthLogin -----------------------------
(***************************************************************************)
(* The GitHub login of src/backend/hos4c/auth_oauth.py and the two routes  *)
(* of main.py around it, composed with SimulationApi: the callback is one  *)
(* more request on the same pool of threads, creates the sessions that     *)
(* perform_action runs under and writes its event to the same ledger.      *)
(* One-time states live in memory and are lost with the process.  GitHub   *)
(* and the browsers are external: a state can come back any number of      *)
(* times, at any time, and the exchange of the code can fail.              *)
(***************************************************************************)
EXTENDS SimulationApi

CONSTANTS OAuthStates,     \* what secrets.token_hex can make
          Users,           \* GitHub users
          ApprovedOwner,   \* APPROVED_OWNER_GITHUB_ID ...
          NoOwner,         \* ... or its default, 0
          OwnerActor,      \* the owner's GitHub login, actor_id of a callback's session
          SimulatedActor,  \* actor_id of a simulated login's
          SimulationMode   \* SIMULATION_MODE of config.py and auth_oauth.py

ASSUME LoginAssumption ==
  /\ ApprovedOwner \in Users \cup {NoOwner} /\ NoOwner \notin Users
  /\ SimulationMode \in BOOLEAN
  /\ OAuthStates # {}

VARIABLES
  oauth,    \* OAUTH_STATES: "unused", "open", "stale" past ten minutes, or "gone"
  lpc,      \* where each thread is in github_callback
  login,    \* the local variables of its callback
  sent,     \* the sessions whose cookie has been sent to a browser ...
  tokens,   \* ... and those whose CSRF token has
  logins    \* history: the sessions callbacks created, with the state they came by

oauthVars == <<oauth, lpc, login, sent, tokens, logins>>
loginVars == <<vars, oauthVars>>

LoginType ==
  [id : Nat, state : OAuthStates, session : Sessions, stamp : Nat, prev : Nat]

NoLogin ==
  [id |-> 0, state |-> CHOOSE x \in OAuthStates : TRUE,
   session |-> CHOOSE s \in Sessions : TRUE, stamp |-> 0, prev |-> Genesis]

LoginGoto(t, label) == lpc' = [lpc EXCEPT ![t] = label]

\* Leaves with an answer; what was stored stays stored.
LoginEnd(t) ==
  /\ LoginGoto(t, "idle")
  /\ login' = [login EXCEPT ![t] = NoLogin]
  /\ UNCHANGED logins

-----------------------------------------------------------------------------
(* One-time states *)

\* github_login: create_oauth_state and the redirect that carries it.
Redirect(x) ==
  /\ ~SimulationMode
  /\ oauth[x] = "unused"
  /\ oauth' = [oauth EXCEPT ![x] = "open"]
  /\ UNCHANGED <<vars, lpc, login, sent, tokens, logins>>

\* Ten minutes pass.
Lapse(x) ==
  /\ oauth[x] = "open"
  /\ oauth' = [oauth EXCEPT ![x] = "stale"]
  /\ UNCHANGED <<vars, lpc, login, sent, tokens, logins>>

-----------------------------------------------------------------------------
(* github_callback *)

\* A redirect comes back, or comes back again.
Callback(t, x) ==
  /\ ~SimulationMode
  /\ pc[t] = "idle" /\ lpc[t] = "idle"
  /\ oauth[x] # "unused"
  /\ made < MaxRequests
  /\ made' = made + 1
  /\ login' = [login EXCEPT ![t].id = made + 1, ![t].state = x]
  /\ LoginGoto(t, "consume")
  /\ UNCHANGED <<decision, tableVars, disabled, restarts, pc, local, response,
                 oauth, sent, tokens, logins>>

\* Mutant: the state is read, not popped.
ConsumeByGet(t) ==
  /\ lpc[t] = "consume"
  /\ IF oauth[login[t].state] = "open"
     THEN LoginGoto(t, "exchange") /\ UNCHANGED <<login, logins>>
     ELSE LoginEnd(t)
  /\ UNCHANGED <<vars, oauth, sent, tokens>>

\* consume_oauth_state: popped whatever it is worth; one that is not there or has
\* lapsed ends the callback with 400.
Consume(t) ==
  /\ lpc[t] = "consume"
  /\ oauth' = [oauth EXCEPT ![login[t].state] = "gone"]
  /\ IF oauth[login[t].state] = "open"
     THEN LoginGoto(t, "exchange") /\ UNCHANGED <<login, logins>>
     ELSE LoginEnd(t)
  /\ UNCHANGED <<vars, sent, tokens>>

\* is_approved_owner fails closed without an owner.
is_approved_owner(user) == ApprovedOwner # NoOwner /\ user = ApprovedOwner

\* The code is exchanged and the user is fetched ...
Identify(t, user) ==
  /\ lpc[t] = "exchange"
  /\ is_approved_owner(user)
  /\ LoginGoto(t, "session")
  /\ UNCHANGED <<vars, oauth, login, sent, tokens, logins>>

\* ... or GitHub refuses or cannot be reached, or the user is somebody else.  The
\* state is spent all the same.
IdentifyFails(t) ==
  /\ lpc[t] = "exchange"
  /\ LoginEnd(t)
  /\ UNCHANGED <<vars, oauth, sent, tokens>>

\* create_session, in a transaction of its own ...
CreateSession(t, s) ==
  /\ lpc[t] = "session"
  /\ session[s] = "none" /\ ActorOf[s] = OwnerActor
  /\ session' = [session EXCEPT ![s] = "live"]
  /\ login' = [login EXCEPT ![t].session = s]
  /\ logins' = logins \cup {[session |-> s, state |-> login[t].state]}
  /\ LoginGoto(t, "stamp")
  /\ UNCHANGED <<decision, rows, records, disabled, made, restarts, pc, local,
                 response, oauth, sent, tokens>>

\* ... then record_audit_event, in its three steps ...
LoginStamp(t) ==
  /\ lpc[t] = "stamp"
  /\ \E now \in Times : login' = [login EXCEPT ![t].stamp = now]
  /\ LoginGoto(t, "prev")
  /\ UNCHANGED <<vars, oauth, sent, tokens, logins>>

LoginLastHash(t) ==
  /\ lpc[t] = "prev"
  /\ \E hash \in LastHashes(rows) : login' = [login EXCEPT ![t].prev = hash]
  /\ LoginGoto(t, "insert")
  /\ UNCHANGED <<vars, oauth, sent, tokens, logins>>

\* Mutant: a failed INSERT goes unnoticed.
LoginInsertLost(t) ==
  /\ lpc[t] = "insert"
  /\ LoginGoto(t, "cookie")
  /\ UNCHANGED <<vars, oauth, login, sent, tokens, logins>>

\* Mutant: the role is bound where resulting_state belongs.
LoginRowOfRole(t) ==
  [id |-> login[t].id, decision |-> "N/A", action |-> "LOGIN",
   session |-> login[t].session, from |-> "UNAUTHENTICATED", to |-> SessionRole,
   version |-> 0, prev |-> login[t].prev, created_at |-> login[t].stamp]

LoginRow(t) ==
  [id |-> login[t].id, decision |-> "N/A", action |-> "LOGIN",
   session |-> login[t].session, from |-> "UNAUTHENTICATED", to |-> "AUTHENTICATED",
   version |-> 0, prev |-> login[t].prev, created_at |-> login[t].stamp]

LoginInsert(t) ==
  /\ lpc[t] = "insert"
  /\ rows' = rows \cup {LoginRow(t)}
  /\ LoginGoto(t, "cookie")
  /\ UNCHANGED <<decision, session, records, disabled, made, restarts, pc, local,
                 response, oauth, login, sent, tokens, logins>>

\* SQLite raises: 500, without a cookie.
LoginStoreFails(t) ==
  /\ lpc[t] \in {"session", "prev", "insert"}
  /\ LoginEnd(t)
  /\ UNCHANGED <<vars, oauth, sent, tokens>>

\* ... and only then the redirect that sets the cookie.  The CSRF token that
\* create_session returned goes nowhere.
SendCookie(t) ==
  /\ lpc[t] = "cookie"
  /\ sent' = sent \cup {login[t].session}
  /\ LoginEnd(t)
  /\ UNCHANGED <<vars, oauth, tokens>>

-----------------------------------------------------------------------------
(* The rest of the backend, under the sessions browsers have been sent *)

\* login_simulated, which works in both modes and answers with the CSRF token.
SimulatedLogin(s) ==
  /\ ActorOf[s] = SimulatedActor
  /\ Login(s)
  /\ sent' = sent \cup {s} /\ tokens' = tokens \cup {s}
  /\ UNCHANGED <<oauth, lpc, login, logins>>

\* A session id and its CSRF token are random: only a browser that was sent them has
\* them.
Act(t, body) ==
  /\ lpc[t] = "idle"
  /\ body.session \in sent
  /\ body.token => body.session \in tokens
  /\ Request(t, body)
  /\ UNCHANGED oauthVars

\* auth_logout wants the cookie alone, revoke_session and revoke_all_sessions the
\* CSRF token too.
EndSession ==
  /\ \/ \E s \in sent : Revoke(s)
     \/ \E s \in Sessions : Expire(s)
     \/ \E s \in tokens : RevokeAll(s)
  /\ UNCHANGED oauthVars

\* The process dies and is started again: OAUTH_STATES is empty.
LoginRestart ==
  /\ Restart
  /\ oauth' = [x \in OAuthStates |-> IF oauth[x] = "unused" THEN "unused" ELSE "gone"]
  /\ lpc' = [t \in Threads |-> "idle"]
  /\ login' = [t \in Threads |-> NoLogin]
  /\ UNCHANGED <<sent, tokens, logins>>

LoginInit ==
  /\ Init
  /\ oauth = [x \in OAuthStates |-> "unused"]
  /\ lpc = [t \in Threads |-> "idle"]
  /\ login = [t \in Threads |-> NoLogin]
  /\ sent = {} /\ tokens = {} /\ logins = {}

LoginStep(t) ==
  \/ Consume(t) \/ IdentifyFails(t) \/ \E user \in Users : Identify(t, user)
  \/ \E s \in Sessions : CreateSession(t, s)
  \/ LoginStamp(t) \/ LoginLastHash(t) \/ LoginInsert(t) \/ LoginStoreFails(t)
  \/ SendCookie(t)

LoginNext ==
  \/ \E x \in OAuthStates : Redirect(x) \/ Lapse(x)
  \/ \E t \in Threads, x \in OAuthStates : Callback(t, x)
  \/ \E t \in Threads : LoginStep(t)
  \/ \E s \in Sessions : SimulatedLogin(s)
  \/ \E t \in Threads, body \in Bodies : Act(t, body)
  \/ \E t \in Threads : Step(t) /\ UNCHANGED oauthVars
  \/ EndSession
  \/ LoginRestart

LoginSpec == LoginInit /\ [][LoginNext]_loginVars

-----------------------------------------------------------------------------
(* Properties *)

LoginRowType ==
  [id : Nat, decision : {"N/A"}, action : {"LOGIN"}, session : Sessions,
   from : {"UNAUTHENTICATED"}, to : {"AUTHENTICATED"}, version : {0}, prev : Nat,
   created_at : Nat]

LoginTypeOK ==
  /\ rows \subseteq RowType \cup LoginRowType
  /\ made \in 0 .. MaxRequests
  /\ oauth \in [OAuthStates -> {"unused", "open", "stale", "gone"}]
  /\ lpc \in [Threads -> {"idle", "consume", "exchange", "session", "stamp", "prev",
                          "insert", "cookie"}]
  /\ login \in [Threads -> LoginType]
  /\ sent \subseteq Sessions /\ tokens \subseteq sent
  /\ logins \subseteq [session : Sessions, state : OAuthStates]

\* A one-time state makes one session, whichever threads it comes back on at the
\* same time, however often, and whatever failed or was restarted in between.
OneSessionPerState == \A l, m \in logins : l.state = m.state => l = m

LoginEvents == {r \in rows : r.action = "LOGIN"}

\* A browser holds no GitHub session that the ledger does not show: the session is in
\* the table before its event is written and stays there when writing it fails, but
\* the cookie is sent last.  And the ledger shows each login once, and none that was
\* not made, however often its redirect comes back and wherever it fails.
LoginsShown ==
  /\ \A l \in logins : l.session \in sent => \E q \in LoginEvents : q.session = l.session
  /\ \A q \in LoginEvents : \E l \in logins : l.session = q.session
  /\ \A q, r \in LoginEvents : q.session = r.session => q = r

\* Nothing is done under a session that GitHub vouched for: perform_action wants its
\* CSRF token, which nobody was sent.
GitHubSessionsIdle ==
  \A l \in logins, r \in rows : r.session = l.session => r.action = "LOGIN"

-----------------------------------------------------------------------------
(* What makes OneSessionPerState inductive *)

\* The types of the callback's own variables, as far as states go.
CallbackTypes ==
  /\ oauth \in [OAuthStates -> {"unused", "open", "stale", "gone"}]
  /\ lpc \in [Threads -> {"idle", "consume", "exchange", "session", "stamp", "prev",
                          "insert", "cookie"}]
  /\ DOMAIN login = Threads
  /\ \A t \in Threads :
       /\ DOMAIN login[t] = DOMAIN NoLogin
       /\ lpc[t] # "idle" => login[t].state \in OAuthStates
  /\ logins \subseteq [session : Sessions, state : OAuthStates]

\* Threads that may still create a session for the state they consumed.
Holding(x) == {t \in Threads : lpc[t] \in {"exchange", "session"} /\ login[t].state = x}

\* A state that made a session, or may still make one, is gone from OAUTH_STATES;
\* one thread at most holds it, and none once its session is made.
SpentStates ==
  /\ \A l \in logins : oauth[l.state] = "gone" /\ Holding(l.state) = {}
  /\ \A x \in OAuthStates :
       /\ \A t, u \in Holding(x) : t = u
       /\ Holding(x) # {} => oauth[x] = "gone"

LoginInv == CallbackTypes /\ SpentStates /\ OneSessionPerState

-----------------------------------------------------------------------------
(* What makes LoginsShown and GitHubSessionsIdle inductive *)

\* Where a callback has created its session, and has not written its event yet.
WithSession == {"stamp", "prev", "insert", "cookie"}
Unshown == {"stamp", "prev", "insert"}

\* A session that a callback has created was given to it alone, and its event is there
\* before its cookie goes.
SessionsOwned ==
  /\ \A s \in sent : session[s] # "none"
  /\ \A l \in logins : session[l.session] # "none"
  /\ \A t \in Threads :
       /\ lpc[t] \in WithSession => \E l \in logins : l.session = login[t].session
       /\ lpc[t] \in WithSession =>
            \A u \in Threads :
              lpc[u] \in WithSession /\ login[u].session = login[t].session => u = t
       /\ lpc[t] \in WithSession => login[t].session \notin sent
       /\ lpc[t] \in Unshown => \A q \in LoginEvents : q.session # login[t].session
       /\ lpc[t] = "cookie" => \E q \in LoginEvents : q.session = login[t].session

\* Where a request has passed validate_csrf.
Checked == {"gate", "validate", "apply", "version", "stamp", "prev", "insert"}

\* Whoever acts has the token of a session no callback created.
TokensHeld ==
  /\ \A l \in logins : l.session \notin tokens
  /\ \A t \in Threads :
       /\ pc[t] = "csrf" /\ local[t].body.token => local[t].body.session \in tokens
       /\ pc[t] \in Checked => local[t].body.session \in tokens
  /\ \A r \in rows : r.action # "LOGIN" => r.session \in tokens

LoginLedgerInv == LoginTypeOK /\ SessionsOwned /\ LoginsShown /\ TokensHeld
=============================================================================
