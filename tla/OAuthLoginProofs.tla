-------------------------- MODULE OAuthLoginProofs ---------------------------
(***************************************************************************)
(* Proofs about OAuthLogin for any number of threads, states, sessions,    *)
(* users, requests and restarts.                                           *)
(*   A one-time state makes one session: the pop that lets a thread        *)
(* through leaves the state "gone", from where it never returns, so the    *)
(* thread that popped it is the only one that holds it (SpentStates), and  *)
(* it lets go of it when it makes the session.                             *)
(*   The ledger shows every login whose cookie was sent, once: a session   *)
(* is one thread's from its creation to its cookie, which goes after the   *)
(* event (SessionsOwned).  And nobody acts under it: who passes            *)
(* validate_csrf was sent the token of his session (TokensHeld).  What     *)
(* SimulationApi proves of its own steps is cited from                     *)
(* SimulationApiProofs.                                                    *)
(***************************************************************************)
EXTENDS OAuthLogin, SimulationApiProofs

\* The local variables of a callback keep their fields, and the state they came by.
LEMMA NoLoginFields ==
  DOMAIN NoLogin = {"id", "state", "session", "stamp", "prev"}
  BY DEF NoLogin

\* The invariant holds initially.
LEMMA InitLogin == LoginInit => LoginInv
<1> SUFFICES ASSUME LoginInit PROVE LoginInv
  OBVIOUS
<1>1. CallbackTypes
  BY DEF LoginInit, CallbackTypes
<1>2. \A x \in OAuthStates : Holding(x) = {}
  BY DEF LoginInit, Holding
<1> QED
  BY <1>1, <1>2 DEF LoginInit, LoginInv, SpentStates, OneSessionPerState

-----------------------------------------------------------------------------
(* Steps *)

\* Steps of the rest of the backend, and whatever leaves these variables alone.
LEMMA Untouched ==
  ASSUME LoginInv, UNCHANGED <<oauth, lpc, login, logins>>
  PROVE  LoginInv'
  BY DEF LoginInv, CallbackTypes, SpentStates, Holding, OneSessionPerState

\* A step after which no thread holds a state it did not hold before, no session is
\* new and no spent state is back keeps what was spent apart.
LEMMA NothingNewlyHeld ==
  ASSUME LoginInv, UNCHANGED logins,
         \A x \in OAuthStates : Holding(x)' \subseteq Holding(x),
         \A x \in OAuthStates : oauth[x] = "gone" => oauth'[x] = "gone"
  PROVE  SpentStates' /\ OneSessionPerState'
<1>1. \A l \in logins : l.state \in OAuthStates
  BY DEF LoginInv, CallbackTypes
<1>2. \A l \in logins' : oauth'[l.state] = "gone" /\ Holding(l.state)' = {}
  BY <1>1 DEF LoginInv, SpentStates
<1>3. \A x \in OAuthStates :
        /\ \A t, u \in Holding(x)' : t = u
        /\ Holding(x)' # {} => oauth'[x] = "gone"
  BY DEF LoginInv, SpentStates
<1>4. OneSessionPerState'
  BY DEF LoginInv, OneSessionPerState
<1> QED
  BY <1>2, <1>3, <1>4 DEF SpentStates

\* States are made, lapse, and come back on a thread.
LEMMA StatesStep ==
  ASSUME LoginInv,
         \/ \E x \in OAuthStates : Redirect(x) \/ Lapse(x)
         \/ \E t \in Threads, x \in OAuthStates : Callback(t, x)
  PROVE  LoginInv'
<1>1. ASSUME NEW x \in OAuthStates, Redirect(x) \/ Lapse(x)
      PROVE  LoginInv'
  <2>1. UNCHANGED <<lpc, login, logins>>
    BY <1>1 DEF Redirect, Lapse
  <2>2. CallbackTypes'
    BY <1>1, <2>1 DEF Redirect, Lapse, LoginInv, CallbackTypes
  <2>3. \A y \in OAuthStates : oauth[y] = "gone" => oauth'[y] = "gone"
    BY <1>1 DEF Redirect, Lapse, LoginInv, CallbackTypes
  <2>4. \A y \in OAuthStates : Holding(y)' = Holding(y)
    BY <2>1 DEF Holding
  <2> QED
    BY <2>1, <2>2, <2>3, <2>4, NothingNewlyHeld DEF LoginInv
<1>2. ASSUME NEW t \in Threads, NEW x \in OAuthStates, Callback(t, x)
      PROVE  LoginInv'
  <2>1. /\ UNCHANGED <<oauth, logins>>
        /\ lpc' = [lpc EXCEPT ![t] = "consume"]
        /\ login' = [login EXCEPT ![t].id = made + 1, ![t].state = x]
    BY <1>2 DEF Callback, LoginGoto
  <2>2. /\ login'[t].state = x /\ DOMAIN login'[t] = DOMAIN login[t]
        /\ DOMAIN login' = Threads
        /\ \A u \in Threads \ {t} : login'[u] = login[u] /\ lpc'[u] = lpc[u]
        /\ lpc'[t] = "consume"
    BY <2>1, NoLoginFields DEF LoginInv, CallbackTypes
  <2>3. CallbackTypes'
    BY <2>1, <2>2 DEF LoginInv, CallbackTypes, NoLogin
  <2>4. \A y \in OAuthStates : Holding(y)' \subseteq Holding(y)
    BY <2>2 DEF Holding
  <2> QED
    BY <2>1, <2>3, <2>4, NothingNewlyHeld DEF LoginInv
<1> QED
  BY <1>1, <1>2

\* A thread that ends its callback holds nothing any more.
LEMMA EndStep ==
  ASSUME LoginInv, NEW t \in Threads, LoginEnd(t),
         oauth' \in [OAuthStates -> {"unused", "open", "stale", "gone"}],
         \A x \in OAuthStates : oauth[x] = "gone" => oauth'[x] = "gone"
  PROVE  LoginInv'
<1>1. /\ UNCHANGED logins
      /\ lpc' = [lpc EXCEPT ![t] = "idle"] /\ login' = [login EXCEPT ![t] = NoLogin]
  BY DEF LoginEnd, LoginGoto
<1>2. /\ lpc'[t] = "idle" /\ login'[t] = NoLogin /\ DOMAIN login' = Threads
      /\ \A u \in Threads \ {t} : login'[u] = login[u] /\ lpc'[u] = lpc[u]
  BY <1>1 DEF LoginInv, CallbackTypes
<1>3. CallbackTypes'
  BY <1>1, <1>2 DEF LoginInv, CallbackTypes, NoLogin
<1>4. \A y \in OAuthStates : Holding(y)' \subseteq Holding(y)
  BY <1>2 DEF Holding
<1> QED
  BY <1>1, <1>3, <1>4, NothingNewlyHeld DEF LoginInv

\* The pop: the thread it lets through is the only one that holds the state.
LEMMA ConsumeStep ==
  ASSUME LoginInv, NEW t \in Threads, Consume(t)
  PROVE  LoginInv'
<1> DEFINE x == login[t].state
<1>1. x \in OAuthStates /\ lpc[t] = "consume"
  BY DEF Consume, LoginInv, CallbackTypes
<1>2. /\ oauth'[x] = "gone" /\ \A y \in OAuthStates \ {x} : oauth'[y] = oauth[y]
      /\ oauth' \in [OAuthStates -> {"unused", "open", "stale", "gone"}]
  BY <1>1 DEF Consume, LoginInv, CallbackTypes
<1>3. CASE oauth[x] = "open"
  <2>1. UNCHANGED <<login, logins>> /\ lpc' = [lpc EXCEPT ![t] = "exchange"]
    BY <1>3 DEF Consume, LoginGoto
  <2>2. lpc'[t] = "exchange" /\ \A u \in Threads \ {t} : lpc'[u] = lpc[u]
    BY <2>1 DEF LoginInv, CallbackTypes
  <2>3. CallbackTypes'
    BY <1>1, <1>2, <2>1, <2>2 DEF LoginInv, CallbackTypes, NoLogin
  <2>4. Holding(x) = {} /\ \A l \in logins : l.state # x
    BY <1>1, <1>3 DEF LoginInv, SpentStates
  <2>5. Holding(x)' = {t}
    BY <2>1, <2>2, <2>4 DEF Holding
  <2>6. \A y \in OAuthStates \ {x} : Holding(y)' = Holding(y)
    BY <1>1, <2>1, <2>2 DEF Holding
  <2>7. \A l \in logins : l.state \in OAuthStates
    BY DEF LoginInv, CallbackTypes
  <2>8. SpentStates'
    BY <1>2, <2>1, <2>4, <2>5, <2>6, <2>7 DEF LoginInv, SpentStates
  <2> QED
    BY <2>1, <2>3, <2>8 DEF LoginInv, OneSessionPerState
<1>4. CASE oauth[x] # "open"
  <2>1. LoginEnd(t)
    BY <1>4 DEF Consume
  <2> QED
    BY <1>2, <2>1, EndStep
<1> QED
  BY <1>3, <1>4

\* The session is made by the thread that holds the state, which lets go of it.
LEMMA SessionStep ==
  ASSUME LoginInv, NEW t \in Threads, NEW s \in Sessions, CreateSession(t, s)
  PROVE  LoginInv'
<1> DEFINE x == login[t].state
           new == [session |-> s, state |-> x]
<1>1. /\ lpc[t] = "session" /\ lpc' = [lpc EXCEPT ![t] = "stamp"]
      /\ login' = [login EXCEPT ![t].session = s]
      /\ logins' = logins \cup {new} /\ UNCHANGED oauth
  BY DEF CreateSession, LoginGoto
<1>2. x \in OAuthStates
  BY <1>1 DEF LoginInv, CallbackTypes
<1>3. /\ lpc'[t] = "stamp" /\ DOMAIN login' = Threads
      /\ login'[t].state = x /\ DOMAIN login'[t] = DOMAIN login[t]
      /\ \A u \in Threads \ {t} : lpc'[u] = lpc[u] /\ login'[u] = login[u]
  BY <1>1, NoLoginFields DEF LoginInv, CallbackTypes
<1>4. CallbackTypes'
  BY <1>1, <1>2, <1>3 DEF LoginInv, CallbackTypes, NoLogin
<1>5. t \in Holding(x)
  BY <1>1 DEF Holding
<1>6. /\ Holding(x) = {t} /\ oauth[x] = "gone" /\ \A l \in logins : l.state # x
  BY <1>2, <1>5 DEF LoginInv, SpentStates
<1>7. /\ Holding(x)' = {}
      /\ \A y \in OAuthStates : Holding(y)' \subseteq Holding(y)
  BY <1>3, <1>6 DEF Holding
<1>8. SpentStates'
  <2>1. \A l \in logins : l.state \in OAuthStates
    BY DEF LoginInv, CallbackTypes
  <2>2. \A l \in logins : oauth'[l.state] = "gone" /\ Holding(l.state)' = {}
    BY <1>1, <1>7, <2>1 DEF LoginInv, SpentStates
  <2>3. oauth'[new.state] = "gone" /\ Holding(new.state)' = {}
    BY <1>1, <1>6, <1>7
  <2>4. \A y \in OAuthStates :
          /\ \A v, u \in Holding(y)' : v = u
          /\ Holding(y)' # {} => oauth'[y] = "gone"
    BY <1>1, <1>7 DEF LoginInv, SpentStates
  <2> QED
    BY <1>1, <2>2, <2>3, <2>4 DEF SpentStates
<1>9. OneSessionPerState'
  BY <1>1, <1>6 DEF LoginInv, OneSessionPerState
<1> QED
  BY <1>4, <1>8, <1>9 DEF LoginInv

\* The steps of a callback that neither take a state nor make a session.
LEMMA GoOnStep ==
  ASSUME LoginInv, NEW t \in Threads,
         \/ \E user \in Users : Identify(t, user)
         \/ LoginStamp(t) \/ LoginLastHash(t) \/ LoginInsert(t)
  PROVE  LoginInv'
<1>1. UNCHANGED <<oauth, logins>>
  BY DEF Identify, LoginStamp, LoginLastHash, LoginInsert
<1>2. /\ lpc[t] # "idle" /\ DOMAIN login' = Threads
      /\ login'[t].state = login[t].state /\ DOMAIN login'[t] = DOMAIN login[t]
      /\ \A u \in Threads \ {t} : lpc'[u] = lpc[u] /\ login'[u] = login[u]
  BY NoLoginFields DEF Identify, LoginStamp, LoginLastHash, LoginInsert, LoginGoto,
                       LoginInv, CallbackTypes
<1>3. /\ lpc' \in [Threads -> {"idle", "consume", "exchange", "session", "stamp",
                               "prev", "insert", "cookie"}]
      /\ lpc'[t] \in {"exchange", "session"} => lpc[t] \in {"exchange", "session"}
  BY DEF Identify, LoginStamp, LoginLastHash, LoginInsert, LoginGoto, LoginInv,
         CallbackTypes
<1>4. CallbackTypes'
  BY <1>1, <1>2, <1>3 DEF LoginInv, CallbackTypes, NoLogin
<1>5. \A x \in OAuthStates : Holding(x)' \subseteq Holding(x)
  BY <1>2, <1>3 DEF Holding
<1> QED
  BY <1>1, <1>4, <1>5, NothingNewlyHeld DEF LoginInv

\* A restart forgets the states and the threads, and brings no state back.
LEMMA RestartStep ==
  ASSUME LoginInv, LoginRestart
  PROVE  LoginInv'
<1>1. CallbackTypes'
  BY DEF LoginRestart, LoginInv, CallbackTypes
<1>2. \A x \in OAuthStates : Holding(x)' = {}
  BY DEF LoginRestart, Holding
<1>3. \A x \in OAuthStates : oauth[x] = "gone" => oauth'[x] = "gone"
  BY DEF LoginRestart
<1> QED
  BY <1>1, <1>2, <1>3, NothingNewlyHeld DEF LoginRestart, LoginInv

-----------------------------------------------------------------------------
(* The theorem *)

\* Every step keeps the invariant.
LEMMA NextLogin == LoginInv /\ [LoginNext]_loginVars => LoginInv'
<1> SUFFICES ASSUME LoginInv, [LoginNext]_loginVars PROVE LoginInv'
  OBVIOUS
<1>1. ASSUME NEW t \in Threads, LoginStep(t)
      PROVE  LoginInv'
  <2>1. CASE IdentifyFails(t) \/ LoginStoreFails(t) \/ SendCookie(t)
    <3>1. LoginEnd(t) /\ UNCHANGED oauth
      BY <2>1 DEF IdentifyFails, LoginStoreFails, SendCookie
    <3> QED
      BY <3>1, EndStep DEF LoginInv, CallbackTypes
  <2> QED
    BY <1>1, <2>1, ConsumeStep, SessionStep, GoOnStep DEF LoginStep
<1>2. CASE \/ \E s \in Sessions : SimulatedLogin(s)
           \/ \E t \in Threads, body \in Bodies : Act(t, body)
           \/ \E t \in Threads : Step(t) /\ UNCHANGED oauthVars
           \/ EndSession
           \/ UNCHANGED loginVars
  <2>1. UNCHANGED <<oauth, lpc, login, logins>>
    BY <1>2 DEF SimulatedLogin, Act, EndSession, oauthVars, loginVars
  <2> QED
    BY <2>1, Untouched
<1> QED
  BY <1>1, <1>2, StatesStep, RestartStep DEF LoginNext

\* However often a state comes back, on however many threads at once and whatever
\* fails or restarts in between, it makes one session.
THEOREM StatesAreOneTime == LoginSpec => []OneSessionPerState
<1>1. LoginInv => OneSessionPerState
  BY DEF LoginInv
<1>2. LoginSpec => []LoginInv
  BY InitLogin, NextLogin, PTL DEF LoginSpec
<1> QED
  BY <1>1, <1>2, PTL

-----------------------------------------------------------------------------
(* Types of a backend with both logins *)

LEMMA NoLoginType == NoLogin \in LoginType
<1>1. \E s \in Sessions : TRUE
  BY ApiAssumption DEF BodyType
<1>2. \E x \in OAuthStates : TRUE
  BY LoginAssumption
<1> QED
  BY <1>1, <1>2 DEF NoLogin, LoginType, Genesis

\* The types of the login's own variables and of the ledger.
LoginTypes ==
  /\ rows \subseteq RowType \cup LoginRowType
  /\ oauth \in [OAuthStates -> {"unused", "open", "stale", "gone"}]
  /\ lpc \in [Threads -> {"idle", "consume", "exchange", "session", "stamp", "prev",
                          "insert", "cookie"}]
  /\ login \in [Threads -> LoginType]
  /\ sent \subseteq Sessions /\ tokens \subseteq sent
  /\ logins \subseteq [session : Sessions, state : OAuthStates]

LEMMA TypesSplit == CoreTypes => (LoginTypeOK <=> LoginTypes)
  BY DEF LoginTypeOK, LoginTypes, CoreTypes

\* A last hash is a number in this ledger too.
LEMMA LoginHashNat ==
  ASSUME LoginTypes
  PROVE  LastHashes(rows) \subseteq Nat
<1>1. \A r \in rows : r.id \in Nat
  BY DEF LoginTypes, RowType, LoginRowType
<1> QED
  BY <1>1, LastHashNat

\* Steps of the callback.
LEMMA EndTypes ==
  ASSUME CoreTypes, LoginTypes, NEW t \in Threads,
         IdentifyFails(t) \/ LoginStoreFails(t) \/ SendCookie(t) \/ Consume(t)
  PROVE  CoreTypes' /\ LoginTypes'
<1>1. UNCHANGED vars /\ UNCHANGED <<tokens, logins>>
  BY DEF IdentifyFails, LoginStoreFails, SendCookie, Consume, LoginEnd
<1>2. CoreTypes'
  BY <1>1 DEF CoreTypes, vars, tableVars
<1>3. /\ lpc' \in [Threads -> {"idle", "consume", "exchange", "session", "stamp", "prev",
                               "insert", "cookie"}]
      /\ login' \in [Threads -> LoginType]
  BY NoLoginType
     DEF IdentifyFails, LoginStoreFails, SendCookie, Consume, LoginEnd, LoginGoto, LoginTypes
<1>4. /\ oauth' \in [OAuthStates -> {"unused", "open", "stale", "gone"}]
      /\ sent' \subseteq Sessions /\ sent \subseteq sent'
  BY DEF IdentifyFails, LoginStoreFails, SendCookie, Consume, LoginTypes, LoginType
<1> QED
  BY <1>1, <1>2, <1>3, <1>4 DEF LoginTypes, vars, tableVars

LEMMA CallbackSteps ==
  ASSUME CoreTypes, LoginTypes, NEW t \in Threads, NEW x \in OAuthStates, Callback(t, x)
  PROVE  CoreTypes' /\ LoginTypes'
<1>1. made + 1 \in 0 .. MaxRequests /\ made + 1 \in Nat
  BY ApiAssumption DEF Callback, CoreTypes
<1>2. [login[t] EXCEPT !.id = made + 1, !.state = x] \in LoginType
  BY <1>1 DEF LoginTypes, LoginType
<1>3. login' \in [Threads -> LoginType]
  BY <1>2 DEF Callback, LoginTypes
<1>4. CoreTypes'
  BY <1>1 DEF Callback, CoreTypes, tableVars
<1> QED
  BY <1>3, <1>4 DEF Callback, LoginGoto, LoginTypes, tableVars

LEMMA MiddleTypes ==
  ASSUME CoreTypes, LoginTypes, NEW t \in Threads,
         \/ \E user \in Users : Identify(t, user)
         \/ \E s \in Sessions : CreateSession(t, s)
         \/ LoginStamp(t) \/ LoginLastHash(t) \/ LoginInsert(t)
  PROVE  CoreTypes' /\ LoginTypes'
<1>1. /\ \A s \in Sessions : [login[t] EXCEPT !.session = s] \in LoginType
      /\ \A now \in Times : [login[t] EXCEPT !.stamp = now] \in LoginType
      /\ \A hash \in LastHashes(rows) : [login[t] EXCEPT !.prev = hash] \in LoginType
  BY LoginHashNat, ApiAssumption DEF LoginTypes, LoginType
<1>2. CoreTypes'
  BY DEF Identify, CreateSession, LoginStamp, LoginLastHash, LoginInsert, CoreTypes, vars,
         tableVars
<1>3. login' \in [Threads -> LoginType]
  <2>1. CASE LoginStamp(t)
    <3>1. PICK now \in Times : login' = [login EXCEPT ![t].stamp = now]
      BY <2>1 DEF LoginStamp
    <3> QED
      BY <1>1, <3>1 DEF LoginTypes
  <2>2. CASE LoginLastHash(t)
    <3>1. PICK hash \in LastHashes(rows) : login' = [login EXCEPT ![t].prev = hash]
      BY <2>2 DEF LoginLastHash
    <3> QED
      BY <1>1, <3>1 DEF LoginTypes
  <2>3. CASE ~LoginStamp(t) /\ ~LoginLastHash(t)
    BY <1>1, <2>3 DEF Identify, CreateSession, LoginInsert, LoginTypes
  <2> QED
    BY <2>1, <2>2, <2>3
<1>4. /\ lpc' \in [Threads -> {"idle", "consume", "exchange", "session", "stamp", "prev",
                               "insert", "cookie"}]
      /\ UNCHANGED <<oauth, sent, tokens>>
  BY DEF Identify, CreateSession, LoginStamp, LoginLastHash, LoginInsert, LoginGoto,
         LoginTypes
<1>5. rows' \subseteq RowType \cup LoginRowType
  <2>1. LoginRow(t) \in LoginRowType
    BY DEF LoginRow, LoginRowType, LoginTypes, LoginType
  <2> QED
    BY <2>1 DEF Identify, CreateSession, LoginStamp, LoginLastHash, LoginInsert, LoginTypes,
                vars, tableVars
<1>6. logins' \subseteq [session : Sessions, state : OAuthStates]
  BY DEF Identify, CreateSession, LoginStamp, LoginLastHash, LoginInsert, LoginTypes,
         LoginType
<1> QED
  BY <1>2, <1>3, <1>4, <1>5, <1>6 DEF LoginTypes

\* Steps of the rest.
LEMMA AroundTypes ==
  ASSUME CoreTypes, LoginTypes,
         \/ \E x \in OAuthStates : Redirect(x) \/ Lapse(x)
         \/ \E s \in Sessions : SimulatedLogin(s)
         \/ \E t \in Threads, body \in Bodies : Act(t, body)
         \/ \E t \in Threads : Step(t) /\ UNCHANGED oauthVars
         \/ EndSession
         \/ LoginRestart
         \/ UNCHANGED loginVars
  PROVE  CoreTypes' /\ LoginTypes'
<1>1. ASSUME NEW x \in OAuthStates, Redirect(x) \/ Lapse(x)
      PROVE  CoreTypes' /\ LoginTypes'
  BY <1>1 DEF Redirect, Lapse, CoreTypes, LoginTypes, vars, tableVars
<1>2. ASSUME NEW s \in Sessions, SimulatedLogin(s)
      PROVE  CoreTypes' /\ LoginTypes'
  BY <1>2, SessionTypes DEF SimulatedLogin, Login, SetSession, LoginTypes
<1>3. ASSUME NEW t \in Threads, NEW body \in Bodies, Act(t, body)
      PROVE  CoreTypes' /\ LoginTypes'
  BY <1>3, RequestTypes DEF Act, Request, LoginTypes, oauthVars, tableVars
<1>4. ASSUME NEW t \in Threads, Step(t), UNCHANGED oauthVars
      PROVE  CoreTypes' /\ LoginTypes'
  <2>1. Row(t) \in RowType
    BY BodyFields DEF CoreTypes, LocalType, Row, RowType
  <2>2. rows' = rows \/ rows' = rows \cup {Row(t)}
    BY <1>4 DEF Step, ValidateCsrf, CsrfRefused, ReadSession, SessionGone, Validate,
                ValidateRefused, Apply, ReadVersion, Stamp, ReadLastHash, Insert, Record,
                StoreFails, Respond, Fail, tableVars
  <2> QED
    BY <1>4, <2>1, <2>2, StepTypes, LoginHashNat DEF LoginTypes, oauthVars
<1>5. CASE EndSession
  <2>1. CoreTypes'
    BY <1>5, SessionTypes DEF EndSession, LoginTypes
  <2> QED
    BY <1>5, <2>1 DEF EndSession, Revoke, Expire, SetSession, RevokeAll, LoginTypes, oauthVars
<1>6. CASE LoginRestart
  BY <1>6, RestartTypes, NoLoginType DEF LoginRestart, Restart, LoginTypes, tableVars
<1>7. CASE UNCHANGED loginVars
  BY <1>7 DEF loginVars, oauthVars, vars, tableVars, CoreTypes, LoginTypes
<1> QED
  BY <1>1, <1>2, <1>3, <1>4, <1>5, <1>6, <1>7

LEMMA LoginNextTypes ==
  ASSUME CoreTypes, LoginTypes, [LoginNext]_loginVars
  PROVE  CoreTypes' /\ LoginTypes'
  BY EndTypes, CallbackSteps, MiddleTypes, AroundTypes DEF LoginNext, LoginStep

-----------------------------------------------------------------------------
(* Whose a session is, and what the ledger shows of it *)

\* What the steps below start from, and what they keep.
Ledger == CoreTypes /\ LoginTypes /\ SessionsOwned /\ LoginsShown /\ TokensHeld

Kept == SessionsOwned /\ LoginsShown /\ TokensHeld

\* Steps after which no callback has got further with a session.
LEMMA OwnedQuiet ==
  ASSUME Ledger, UNCHANGED <<sent, logins, LoginEvents>>,
         \A s \in Sessions : session[s] # "none" => session'[s] # "none",
         \A t \in Threads : lpc'[t] \in WithSession =>
                              lpc[t] \in WithSession /\ (lpc'[t] = "cookie" <=> lpc[t] = "cookie")
                              /\ login'[t].session = login[t].session
  PROVE  SessionsOwned' /\ LoginsShown'
<1>1. /\ \A s \in sent' : session'[s] # "none"
      /\ \A l \in logins' : session'[l.session] # "none"
  BY DEF Ledger, SessionsOwned, LoginTypes
<1>2. ASSUME NEW t \in Threads, lpc'[t] \in WithSession
      PROVE  /\ \E l \in logins' : l.session = login'[t].session
             /\ \A u \in Threads :
                  lpc'[u] \in WithSession /\ login'[u].session = login'[t].session => u = t
             /\ login'[t].session \notin sent'
  BY <1>2 DEF Ledger, SessionsOwned
<1>3. ASSUME NEW t \in Threads
      PROVE  /\ lpc'[t] \in Unshown => \A q \in LoginEvents' : q.session # login'[t].session
             /\ lpc'[t] = "cookie" => \E q \in LoginEvents' : q.session = login'[t].session
  BY <1>3 DEF Ledger, SessionsOwned, WithSession, Unshown
<1>4. SessionsOwned'
  BY <1>1, <1>2, <1>3 DEF SessionsOwned
<1> QED
  BY <1>4 DEF Ledger, LoginsShown

\* Steps after which nobody has got further than he was with a token he has not got.
LEMMA TokensQuiet ==
  ASSUME Ledger, UNCHANGED <<tokens, logins>>,
         \A r \in rows' \ rows : r.action # "LOGIN" => r.session \in tokens,
         \A t \in Threads :
           /\ pc'[t] = "csrf" /\ local'[t].body.token => local'[t].body.session \in tokens
           /\ pc'[t] \in Checked => local'[t].body.session \in tokens
  PROVE  TokensHeld'
  BY DEF Ledger, TokensHeld

\* A step of a request: its event, if it has one, is not a login's.
LEMMA RequestKeeps ==
  ASSUME Ledger, NEW t \in Threads, Step(t), UNCHANGED oauthVars
  PROVE  Kept'
<1>1. UNCHANGED <<session, lpc, login, sent, tokens, logins>>
  BY DEF Step, ValidateCsrf, CsrfRefused, ReadSession, SessionGone, Validate,
         ValidateRefused, Apply, ReadVersion, Stamp, ReadLastHash, Insert, Record,
         StoreFails, Respond, Fail, tableVars, oauthVars
<1>2. \A r \in rows' \ rows : /\ r.action # "LOGIN" /\ r.session = local[t].body.session
                              /\ pc[t] \in Checked
  <2>1. CASE Insert(t)
    <3>1. /\ rows' = rows \cup {Row(t)} /\ Row(t).action = local[t].body.action
          /\ Row(t).session = local[t].body.session /\ pc[t] \in Checked
      BY <2>1 DEF Insert, Row, Checked
    <3>2. local[t].body.action # "LOGIN"
      BY BodyFields DEF Ledger, Actions
    <3> QED
      BY <3>1, <3>2
  <2>2. CASE ~Insert(t)
    BY <2>2 DEF Step, ValidateCsrf, CsrfRefused, ReadSession, SessionGone, Validate,
                ValidateRefused, Apply, ReadVersion, Stamp, ReadLastHash, Record,
                StoreFails, Respond, Fail, tableVars
  <2> QED
    BY <2>1, <2>2
<1>3. rows \subseteq rows'
  BY DEF Step, ValidateCsrf, CsrfRefused, ReadSession, SessionGone, Validate,
         ValidateRefused, Apply, ReadVersion, Stamp, ReadLastHash, Insert, Record,
         StoreFails, Respond, Fail, tableVars
<1>4. LoginEvents' = LoginEvents
  BY <1>2, <1>3 DEF LoginEvents
<1>5. SessionsOwned' /\ LoginsShown'
  BY <1>1, <1>4, OwnedQuiet
<1>6. /\ \A u \in Threads \ {t} : pc'[u] = pc[u] /\ local'[u] = local[u]
      /\ pc'[t] # "csrf"
      /\ pc'[t] \in Checked =>
           /\ local'[t].body = local[t].body
           /\ pc[t] \in Checked \/ (pc[t] = "csrf" /\ local[t].body.token)
  BY DEF Ledger, Step, ValidateCsrf, CsrfRefused, ReadSession, SessionGone, Validate,
         ValidateRefused, Apply, ReadVersion, Stamp, ReadLastHash, Insert, Record,
         StoreFails, Respond, Fail, Goto, Checked, CoreTypes, LocalType
<1>7. \A u \in Threads :
        /\ pc'[u] = "csrf" /\ local'[u].body.token => local'[u].body.session \in tokens
        /\ pc'[u] \in Checked => local'[u].body.session \in tokens
  BY <1>6 DEF Ledger, TokensHeld
<1>8. TokensHeld'
  <2>1. \A r \in rows' \ rows : r.action # "LOGIN" => r.session \in tokens
    BY <1>2 DEF Ledger, TokensHeld
  <2> QED
    BY <1>1, <1>7, <2>1, TokensQuiet
<1> QED
  BY <1>5, <1>8 DEF Kept

\* A request is made, with the token of its session only if that was sent.
LEMMA ActKeeps ==
  ASSUME Ledger, NEW t \in Threads, NEW body \in Bodies, Act(t, body)
  PROVE  Kept'
<1>1. UNCHANGED <<rows, session, lpc, login, sent, tokens, logins>>
  BY DEF Act, Request, oauthVars, tableVars
<1>2. /\ body.token => body.session \in tokens
      /\ pc'[t] = "csrf" /\ local'[t].body = body
      /\ \A u \in Threads \ {t} : pc'[u] = pc[u] /\ local'[u] = local[u]
  BY DEF Act, Request, Goto, Ledger, CoreTypes, LocalType
<1>3. SessionsOwned' /\ LoginsShown'
  BY <1>1, OwnedQuiet DEF LoginEvents
<1>4. \A u \in Threads :
        /\ pc'[u] = "csrf" /\ local'[u].body.token => local'[u].body.session \in tokens
        /\ pc'[u] \in Checked => local'[u].body.session \in tokens
  BY <1>2 DEF Ledger, TokensHeld, Checked
<1>5. TokensHeld'
  BY <1>1, <1>4, TokensQuiet
<1> QED
  BY <1>3, <1>5 DEF Kept

\* Steps that leave requests and their tokens alone, or end them.
LEMMA TokensStay ==
  ASSUME Ledger, UNCHANGED <<tokens, logins>>, \A r \in rows' \ rows : r.action = "LOGIN",
         \A t \in Threads : pc'[t] = "idle" \/ (pc'[t] = pc[t] /\ local'[t] = local[t])
  PROVE  TokensHeld'
<1>1. \A t \in Threads :
        /\ pc'[t] = "csrf" /\ local'[t].body.token => local'[t].body.session \in tokens
        /\ pc'[t] \in Checked => local'[t].body.session \in tokens
  BY DEF Ledger, TokensHeld, Checked
<1> QED
  BY <1>1, TokensQuiet

\* States come and go, sessions end, the process dies.
LEMMA AroundKeeps ==
  ASSUME Ledger,
         \/ \E x \in OAuthStates : Redirect(x) \/ Lapse(x)
         \/ \E t \in Threads, x \in OAuthStates : Callback(t, x)
         \/ EndSession
         \/ LoginRestart
         \/ UNCHANGED loginVars
  PROVE  Kept'
<1>1. UNCHANGED <<rows, sent, tokens, logins>>
  BY DEF Redirect, Lapse, Callback, EndSession, Revoke, Expire, SetSession, RevokeAll,
         LoginRestart, Restart, loginVars, oauthVars, vars, tableVars
<1>2. \A s \in Sessions : session[s] # "none" => session'[s] # "none"
  BY DEF Redirect, Lapse, Callback, EndSession, Revoke, Expire, SetSession, RevokeAll,
         LoginRestart, Restart, loginVars, oauthVars, vars, tableVars, Ledger, CoreTypes
<1>3. \A t \in Threads :
        /\ lpc'[t] \in WithSession => lpc'[t] = lpc[t] /\ login'[t] = login[t]
        /\ pc'[t] = "idle" \/ (pc'[t] = pc[t] /\ local'[t] = local[t])
  <2>1. ASSUME NEW t \in Threads, NEW x \in OAuthStates, Callback(t, x)
        PROVE  /\ UNCHANGED <<pc, local>> /\ lpc'[t] = "consume"
               /\ \A u \in Threads \ {t} : lpc'[u] = lpc[u] /\ login'[u] = login[u]
    BY <2>1 DEF Callback, LoginGoto, Ledger, LoginTypes
  <2>2. CASE (\E x \in OAuthStates : Redirect(x) \/ Lapse(x)) \/ UNCHANGED loginVars
    BY <2>2 DEF Redirect, Lapse, loginVars, oauthVars, vars
  <2>3. CASE EndSession
    BY <2>3 DEF EndSession, Revoke, Expire, SetSession, RevokeAll, oauthVars
  <2>4. CASE LoginRestart
    BY <2>4 DEF LoginRestart, Restart, WithSession
  <2> QED
    BY <2>1, <2>2, <2>3, <2>4 DEF WithSession
<1>4. SessionsOwned' /\ LoginsShown'
  BY <1>1, <1>2, <1>3, OwnedQuiet DEF LoginEvents
<1>5. TokensHeld'
  BY <1>1, <1>3, TokensStay
<1> QED
  BY <1>4, <1>5 DEF Kept

\* A simulated login makes a session that no callback has made.
LEMMA SimulatedKeeps ==
  ASSUME Ledger, NEW s \in Sessions, SimulatedLogin(s)
  PROVE  Kept'
<1>1. /\ UNCHANGED <<rows, pc, local, lpc, login, logins>>
      /\ sent' = sent \cup {s} /\ tokens' = tokens \cup {s}
      /\ session[s] = "none" /\ session' = [session EXCEPT ![s] = "live"]
  BY DEF SimulatedLogin, Login, SetSession
<1>2. \A x \in Sessions : session'[x] = IF x = s THEN "live" ELSE session[x]
  BY <1>1 DEF Ledger, CoreTypes
<1>3. \A l \in logins : l.session # s /\ l.session \in Sessions
  BY <1>1 DEF Ledger, SessionsOwned, LoginTypes
<1>4. \A t \in Threads : lpc[t] \in WithSession => login[t].session # s
  BY <1>3 DEF Ledger, SessionsOwned
<1>5. LoginEvents' = LoginEvents
  BY <1>1 DEF LoginEvents
<1>6. /\ \A x \in sent' : session'[x] # "none"
      /\ \A l \in logins' : session'[l.session] # "none"
  BY <1>1, <1>2, <1>3 DEF Ledger, SessionsOwned, LoginTypes
<1>7. SessionsOwned'
  BY <1>1, <1>4, <1>5, <1>6 DEF Ledger, SessionsOwned
<1>8. LoginsShown'
  BY <1>1, <1>3, <1>5 DEF Ledger, LoginsShown
<1>9. TokensHeld'
  BY <1>1, <1>3 DEF Ledger, TokensHeld
<1> QED
  BY <1>7, <1>8, <1>9 DEF Kept

-----------------------------------------------------------------------------
(* The steps of a callback *)

\* Those that neither make a session, nor show it, nor send it.
LEMMA CallbackKeeps ==
  ASSUME Ledger, NEW t \in Threads,
         \/ Consume(t) \/ IdentifyFails(t) \/ \E user \in Users : Identify(t, user)
         \/ LoginStamp(t) \/ LoginLastHash(t) \/ LoginStoreFails(t)
  PROVE  Kept'
<1>1. UNCHANGED <<rows, session, pc, local, sent, tokens, logins>>
  BY DEF Consume, IdentifyFails, Identify, LoginStamp, LoginLastHash, LoginStoreFails,
         LoginEnd, vars, tableVars
<1>2. /\ \A u \in Threads \ {t} : lpc'[u] = lpc[u] /\ login'[u] = login[u]
      /\ lpc'[t] # "cookie"
      /\ lpc'[t] \in WithSession =>
           /\ lpc[t] \in WithSession /\ lpc[t] # "cookie"
           /\ login'[t].session = login[t].session
  BY DEF Consume, IdentifyFails, Identify, LoginStamp, LoginLastHash, LoginStoreFails,
         LoginEnd, LoginGoto, WithSession, Ledger, LoginTypes, LoginType
<1>3. SessionsOwned' /\ LoginsShown'
  BY <1>1, <1>2, OwnedQuiet DEF LoginEvents
<1>4. TokensHeld'
  BY <1>1, TokensStay
<1> QED
  BY <1>3, <1>4 DEF Kept

\* A session is made that nobody has, no event shows and no token goes with.
LEMMA CreateKeeps ==
  ASSUME Ledger, NEW t \in Threads, NEW s \in Sessions, CreateSession(t, s)
  PROVE  Kept'
<1> DEFINE new == [session |-> s, state |-> login[t].state]
<1>1. /\ UNCHANGED <<rows, pc, local, sent, tokens>> /\ logins' = logins \cup {new}
      /\ session[s] = "none" /\ session' = [session EXCEPT ![s] = "live"]
      /\ lpc[t] = "session" /\ new.session = s
  BY DEF CreateSession
<1> HIDE DEF new
<1>2. /\ lpc'[t] = "stamp" /\ login'[t].session = s
      /\ \A u \in Threads \ {t} : lpc'[u] = lpc[u] /\ login'[u] = login[u]
  BY DEF CreateSession, LoginGoto, Ledger, LoginTypes, LoginType
<1>3. \A x \in Sessions : session'[x] = IF x = s THEN "live" ELSE session[x]
  BY <1>1 DEF Ledger, CoreTypes
<1>4. /\ s \notin sent /\ s \notin tokens
      /\ \A l \in logins : l.session # s
  BY <1>1 DEF Ledger, SessionsOwned, LoginTypes
<1>5. LoginEvents' = LoginEvents /\ \A q \in LoginEvents : q.session # s
  BY <1>1, <1>4 DEF LoginEvents, Ledger, LoginsShown
<1>6. \A u \in Threads : lpc[u] \in WithSession => login[u].session # s
  BY <1>4 DEF Ledger, SessionsOwned
<1>7. /\ \A x \in sent' : session'[x] # "none"
      /\ \A l \in logins' : session'[l.session] # "none"
  BY <1>1, <1>3 DEF Ledger, SessionsOwned, LoginTypes
<1>8. ASSUME NEW u \in Threads
      PROVE  /\ lpc'[u] \in WithSession => \E l \in logins' : l.session = login'[u].session
             /\ lpc'[u] \in WithSession =>
                  \A v \in Threads :
                    lpc'[v] \in WithSession /\ login'[v].session = login'[u].session => v = u
             /\ lpc'[u] \in WithSession => login'[u].session \notin sent'
             /\ lpc'[u] \in Unshown => \A q \in LoginEvents' : q.session # login'[u].session
             /\ lpc'[u] = "cookie" => \E q \in LoginEvents' : q.session = login'[u].session
  <2>1. CASE u = t
    BY <1>1, <1>2, <1>4, <1>5, <1>6, <2>1 DEF WithSession
  <2>2. CASE u # t
    <3>1. lpc'[u] = lpc[u] /\ login'[u] = login[u]
      BY <1>2, <2>2
    <3> QED
      BY <1>1, <1>2, <1>5, <1>6, <2>2, <3>1 DEF Ledger, SessionsOwned
  <2> QED
    BY <2>1, <2>2
<1>9. SessionsOwned'
  BY <1>7, <1>8 DEF SessionsOwned
<1>10. LoginsShown'
  BY <1>1, <1>4, <1>5 DEF Ledger, LoginsShown
<1>11. TokensHeld'
  BY <1>1, <1>4 DEF Ledger, TokensHeld
<1> QED
  BY <1>9, <1>10, <1>11 DEF Kept

\* Its one event is written.
LEMMA InsertKeeps ==
  ASSUME Ledger, NEW t \in Threads, LoginInsert(t)
  PROVE  Kept'
<1> DEFINE new == LoginRow(t)
<1>1. /\ UNCHANGED <<session, pc, local, login, sent, tokens, logins>>
      /\ rows' = rows \cup {new} /\ lpc[t] = "insert"
      /\ new.action = "LOGIN" /\ new.session = login[t].session
  BY DEF LoginInsert, LoginRow
<1> HIDE DEF new
<1>2. lpc'[t] = "cookie" /\ \A u \in Threads \ {t} : lpc'[u] = lpc[u]
  BY DEF LoginInsert, LoginGoto, Ledger, LoginTypes
<1>3. LoginEvents' = LoginEvents \cup {new}
  BY <1>1 DEF LoginEvents
<1>4. /\ \A q \in LoginEvents : q.session # new.session
      /\ \E l \in logins : l.session = new.session
      /\ \A u \in Threads \ {t} : lpc[u] \in WithSession => login[u].session # new.session
  BY <1>1 DEF Ledger, SessionsOwned, WithSession, Unshown
<1>5. ASSUME NEW u \in Threads
      PROVE  /\ lpc'[u] \in WithSession => \E l \in logins' : l.session = login'[u].session
             /\ lpc'[u] \in WithSession =>
                  \A v \in Threads :
                    lpc'[v] \in WithSession /\ login'[v].session = login'[u].session => v = u
             /\ lpc'[u] \in WithSession => login'[u].session \notin sent'
             /\ lpc'[u] \in Unshown => \A q \in LoginEvents' : q.session # login'[u].session
             /\ lpc'[u] = "cookie" => \E q \in LoginEvents' : q.session = login'[u].session
  <2>1. \A v \in Threads : lpc'[v] \in WithSession => lpc[v] \in WithSession
    BY <1>1, <1>2 DEF WithSession
  <2>2. CASE u = t
    BY <1>1, <1>2, <1>3, <2>1, <2>2 DEF Ledger, SessionsOwned, WithSession, Unshown
  <2>3. CASE u # t
    <3>1. lpc'[u] = lpc[u] /\ login'[u] = login[u]
      BY <1>1, <1>2, <2>3
    <3> QED
      BY <1>1, <1>3, <1>4, <2>1, <2>3, <3>1 DEF Ledger, SessionsOwned, WithSession, Unshown
  <2> QED
    BY <2>2, <2>3
<1>6. SessionsOwned'
  BY <1>1, <1>5 DEF Ledger, SessionsOwned
<1>7. LoginsShown'
  BY <1>1, <1>3, <1>4 DEF Ledger, LoginsShown
<1>8. TokensHeld'
  BY <1>1, TokensStay
<1> QED
  BY <1>6, <1>7, <1>8 DEF Kept

\* The cookie of a session that is shown is sent, without its token.
LEMMA SendKeeps ==
  ASSUME Ledger, NEW t \in Threads, SendCookie(t)
  PROVE  Kept'
<1> DEFINE s == login[t].session
<1>1. /\ UNCHANGED <<rows, session, pc, local, tokens, logins>>
      /\ sent' = sent \cup {s} /\ lpc[t] = "cookie"
  BY DEF SendCookie, LoginEnd, vars, tableVars
<1>2. /\ lpc'[t] = "idle"
      /\ \A u \in Threads \ {t} : lpc'[u] = lpc[u] /\ login'[u] = login[u]
  BY DEF SendCookie, LoginEnd, LoginGoto, Ledger, LoginTypes
<1>3. LoginEvents' = LoginEvents
  BY <1>1 DEF LoginEvents
<1>4. /\ \E q \in LoginEvents : q.session = s
      /\ \E l \in logins : l.session = s
      /\ \A u \in Threads \ {t} : lpc[u] \in WithSession => login[u].session # s
  BY <1>1 DEF Ledger, SessionsOwned, WithSession
<1> HIDE DEF s
<1>5. session[s] # "none"
  BY <1>4 DEF Ledger, SessionsOwned
<1>6. \A u \in Threads : lpc'[u] \in WithSession \/ lpc'[u] \in Unshown \/ lpc'[u] = "cookie" =>
                           u # t /\ lpc'[u] = lpc[u] /\ login'[u] = login[u]
  BY <1>2 DEF WithSession, Unshown
<1>7. ASSUME NEW u \in Threads
      PROVE  /\ lpc'[u] \in WithSession => \E l \in logins' : l.session = login'[u].session
             /\ lpc'[u] \in WithSession =>
                  \A v \in Threads :
                    lpc'[v] \in WithSession /\ login'[v].session = login'[u].session => v = u
             /\ lpc'[u] \in WithSession => login'[u].session \notin sent'
             /\ lpc'[u] \in Unshown => \A q \in LoginEvents' : q.session # login'[u].session
             /\ lpc'[u] = "cookie" => \E q \in LoginEvents' : q.session = login'[u].session
  BY <1>1, <1>3, <1>4, <1>6 DEF Ledger, SessionsOwned
<1>8. SessionsOwned'
  BY <1>1, <1>5, <1>7 DEF Ledger, SessionsOwned
<1>9. LoginsShown'
  BY <1>1, <1>3, <1>4 DEF Ledger, LoginsShown
<1>10. TokensHeld'
  BY <1>1, TokensStay
<1> QED
  BY <1>8, <1>9, <1>10 DEF Kept

LEMMA NextKeeps ==
  ASSUME Ledger, [LoginNext]_loginVars
  PROVE  Kept'
<1>1. ASSUME NEW t \in Threads, LoginStep(t)
      PROVE  Kept'
  BY <1>1, CallbackKeeps, CreateKeeps, InsertKeeps, SendKeeps DEF LoginStep
<1> QED
  BY <1>1, AroundKeeps, SimulatedKeeps, ActKeeps, RequestKeeps DEF LoginNext

-----------------------------------------------------------------------------
(* Its theorems *)

LEMMA InitLedger == LoginInit => CoreTypes /\ LoginLedgerInv
<1> SUFFICES ASSUME LoginInit PROVE CoreTypes /\ LoginLedgerInv
  OBVIOUS
<1>1. CoreTypes
  BY InitTypes DEF LoginInit
<1>2. LoginTypeOK
  BY NoLoginType, ApiAssumption DEF LoginInit, Init, LoginTypeOK
<1>3. LoginEvents = {}
  BY DEF LoginInit, Init, LoginEvents
<1>4. SessionsOwned /\ LoginsShown /\ TokensHeld
  BY <1>3 DEF LoginInit, Init, SessionsOwned, LoginsShown, TokensHeld, WithSession, Unshown,
              Checked
<1> QED
  BY <1>1, <1>2, <1>4 DEF LoginLedgerInv

LEMMA NextLedger ==
  CoreTypes /\ LoginLedgerInv /\ [LoginNext]_loginVars => CoreTypes' /\ LoginLedgerInv'
<1> SUFFICES ASSUME CoreTypes, LoginLedgerInv, [LoginNext]_loginVars
             PROVE  CoreTypes' /\ LoginLedgerInv'
  OBVIOUS
<1>1. Ledger
  BY TypesSplit DEF LoginLedgerInv, Ledger
<1>2. CoreTypes' /\ LoginTypes'
  BY <1>1, LoginNextTypes DEF Ledger
<1>3. LoginTypeOK'
  BY <1>2 DEF LoginTypes, LoginTypeOK, CoreTypes
<1>4. Kept'
  BY <1>1, NextKeeps
<1> QED
  BY <1>2, <1>3, <1>4 DEF LoginLedgerInv, Kept

\* The login's variables have their types, and the ledger it shares has the rows of
\* both.
THEOREM LoginTypeCorrect == LoginSpec => []LoginTypeOK
<1>1. LoginLedgerInv => LoginTypeOK
  BY DEF LoginLedgerInv
<1> QED
  BY <1>1, InitLedger, NextLedger, PTL DEF LoginSpec

\* Whatever fails between the session, its event and its cookie, and whatever runs at
\* the same time, a browser holds no GitHub session without the ledger showing its
\* login, and the ledger shows no login twice and none that was not made.
THEOREM LoginsAreShown == LoginSpec => []LoginsShown
<1>1. LoginLedgerInv => LoginsShown
  BY DEF LoginLedgerInv
<1> QED
  BY <1>1, InitLedger, NextLedger, PTL DEF LoginSpec

\* The ledger shows no action under a session a callback made.
THEOREM GitHubSessionsCannotAct == LoginSpec => []GitHubSessionsIdle
<1>1. LoginLedgerInv => GitHubSessionsIdle
  BY DEF LoginLedgerInv, TokensHeld, GitHubSessionsIdle
<1> QED
  BY <1>1, InitLedger, NextLedger, PTL DEF LoginSpec
=============================================================================
