---------------------------- MODULE Auth_proofs ----------------------------
(***************************************************************************)
(* Proofs about Auth, for any accounts and any number of logins: types,    *)
(* credentials, the schedule of the poll loop, and that it implements      *)
(* Login.                                                                  *)
(*                                                                         *)
(* AuthInv says where a login stands at each stage of its coroutine: which *)
(* OAuth state it works for, which tokens it has and how long it has       *)
(* polled, the last as a table of the loop's delays.                       *)
(***************************************************************************)
EXTENDS Auth, TLAPS

USE DEF generateState, parseTwitchUser

\* The loop has waited w delays when it starts its n-th attempt (from 0).
Elapsed(n, w) ==
    \/ n = 0 /\ w = 0
    \/ n = 1 /\ w = 2
    \/ n = 2 /\ w = 4
    \/ n = 3 /\ w = 6
    \/ n = 4 /\ w = 11
    \/ n = 5 /\ w = 17
    \/ n = 6 /\ w = 24
    \/ n = 7 /\ w = 32
    \/ n = 8 /\ w = 41
    \/ n = 9 /\ w = 51

OnSchedule ==
    /\ waited <= 62
    /\ pc = "delay" => Elapsed(attempts, waited)
    /\ pc = "/token" => Elapsed(attempts, waited - 1)
    /\ pc = "backoff" => Elapsed(attempts - 1, waited - 1)

\* The stages after the OAuth state was generated, the page opened, the
\* tokens stored.
Polling == {"delay", "/token", "backoff"}
HasTokens == {"/user_info", "setState"}
Opened == Polling \cup HasTokens

Stage ==
    /\ service_state = "LoggingIn" <=> pc # "idle"
    /\ pc # "idle" => logins \in Logins
    /\ pc \in {"/auth_url"} \cup Opened => m_state = logins /\ m_client_id
    /\ pc \in Opened => m_state \in pages
    /\ pc \in HasTokens =>
          /\ m_access_token = m_state /\ m_refresh_token = m_state
          /\ authorized[m_state] \in Accounts

Result == [access_token |-> m_state,
           broadcaster_id |-> authorized[m_state],
           client_id |-> TRUE]
Written ==
    pc = "setState" =>
        m_current_user = authorized[m_state] /\ m_config = Result

OneAccount ==
    m_config = EmptyConfig \/ (Coherent /\ m_config.broadcaster_id \in Accounts)

AuthInv ==
    /\ TypeOK /\ OnSchedule /\ Stage /\ Written /\ OneAccount
    /\ CredentialsAreOfThisLogin

\* What the poll loop's attempts can be at each stage.
LEMMA AttemptsBounded ==
    ASSUME TypeOK, OnSchedule
    PROVE  /\ attempts \in Int /\ waited \in Int
           /\ pc \in {"delay", "/token"} => attempts < max_attempts
  <1>1. attempts \in Int /\ waited \in Int
    BY DEF TypeOK
  <1>2. ASSUME NEW w, Elapsed(attempts, w) PROVE attempts < 10
    BY <1>2, <1>1 DEF Elapsed
  <1>3. CASE pc = "delay"
    BY <1>1, <1>2, <1>3, Zenon DEF OnSchedule, max_attempts
  <1>4. CASE pc = "/token"
    BY <1>1, <1>2, <1>4, Zenon DEF OnSchedule, max_attempts
  <1> QED BY <1>1, <1>3, <1>4

\* Before the first login nothing is stored or awaited.
LEMMA AuthInit == Init => AuthInv
  <1> SUFFICES ASSUME Init PROVE AuthInv
    BY Zenon
  <1> USE AuthAssumption DEF Init
  <1>1. TypeOK
    <2>1. /\ m_config \in [access_token : Nat,
                           broadcaster_id : Accounts \cup {NoAccount},
                           client_id : BOOLEAN]
          /\ authorized \in [Logins -> Accounts \cup {NoAccount}]
      BY Zenon DEF None, EmptyConfig
    <2>2. /\ m_state \in 0..logins /\ m_access_token \in 0..logins
          /\ m_refresh_token \in 0..logins /\ logins \in 0..MaxLogins
          /\ attempts \in 0..max_attempts /\ waited \in Nat
      BY DEF None, max_attempts
    <2> QED BY <2>1, <2>2 DEF TypeOK, Stages
  <1>2. OnSchedule /\ Stage /\ Written
    BY DEF OnSchedule, Stage, Written, Polling, HasTokens, Opened
  <1>3. OneAccount /\ CredentialsAreOfThisLogin
    BY Zenon DEF OneAccount, CredentialsAreOfThisLogin
  <1> QED BY <1>1, <1>2, <1>3 DEF AuthInv

\* The type invariant is preserved by every step from a state that satisfies
\* the whole invariant.
LEMMA TypeStep == AuthInv /\ [Next]_vars => TypeOK'
  <1> SUFFICES ASSUME AuthInv, [Next]_vars PROVE TypeOK'
    BY Zenon
  <1> USE AuthAssumption DEF AuthInv, TypeOK, result, tokens, loop, browser,
          Logins, None, max_attempts, Stages
  <1>1. CASE startLogin
    BY <1>1 DEF startLogin
  <1>2. CASE fetchClientIdAsync
    <2>1. /\ UNCHANGED <<m_config, m_current_user, m_access_token,
                         m_refresh_token, attempts, waited, logins, pages,
                         authorized>>
          /\ m_state' = m_state \/ m_state' = logins
          /\ m_client_id' = m_client_id \/ m_client_id' = TRUE
          /\ service_state' = service_state \/ service_state' = "Error"
          /\ pc' \in {"/auth_url", "idle"}
      BY <1>2, Zenon DEF fetchClientIdAsync, LoginFails
    <2>2. m_state' \in 0..logins
      BY <2>1
    <2> QED BY <2>1, <2>2
  <1>3. CASE getAuthUrlAsync
    <2>1. m_state \in Logins
      <3>1. pc = "/auth_url"
        BY <1>3, Zenon DEF getAuthUrlAsync
      <3>2. m_state = logins
        BY <3>1, Zenon DEF Stage
      <3> QED BY <3>1, <3>2 DEF Stage
    <2>2. /\ UNCHANGED <<m_config, m_current_user, tokens, logins, authorized>>
          /\ attempts' = attempts \/ attempts' = 0
          /\ waited' = waited \/ waited' = 0
          /\ pages' = pages \/ pages' = pages \cup {m_state}
          /\ service_state' = service_state \/ service_state' = "Error"
          /\ pc' \in {"delay", "idle"}
      BY <1>3, Zenon DEF getAuthUrlAsync, LoginFails
    <2>3. attempts' \in 0..10 /\ waited' \in Nat
      BY <2>2
    <2>4. pages \subseteq Logins
      BY Zenon
    <2>5. pages' \subseteq Logins
      <3> HIDE DEF Logins
      <3> QED BY <2>1, <2>2, <2>4
    <2> QED BY <2>2, <2>3, <2>5
  <1>4. CASE Delay
    BY <1>4 DEF Delay
  <1>5. CASE requestTokenAsync
    <2>1. attempts < 10
      BY <1>5, AttemptsBounded, Zenon DEF requestTokenAsync
    <2>2. /\ UNCHANGED <<service_state, m_config, m_current_user, m_client_id,
                         m_state, waited, logins, pages, authorized>>
          /\ m_access_token' \in {m_state, m_access_token}
          /\ m_refresh_token' \in {m_state, m_refresh_token}
          /\ attempts' \in {attempts, attempts + 1}
          /\ pc' \in {"/user_info", "backoff"}
      BY <1>5, Zenon DEF requestTokenAsync
    <2>3. attempts' \in 0..10
      BY <2>1, <2>2
    <2>4. m_access_token' \in 0..logins /\ m_refresh_token' \in 0..logins
      BY <2>2, Zenon
    <2> QED BY <2>2, <2>3, <2>4
  <1>6. CASE Backoff
    BY <1>6 DEF Backoff, LoginFails
  <1>7. CASE fetchUserInfoAsync
    <2>1. m_state \in Logins /\ authorized[m_state] \in Accounts
      BY <1>7, Zenon DEF fetchUserInfoAsync, Stage, Opened, HasTokens
    <2> QED BY <1>7, <2>1 DEF fetchUserInfoAsync, LoginFails
  <1>8. CASE setState
    BY <1>8, Zenon DEF setState
  <1>9. CASE disconnect
    BY <1>9, Zenon DEF disconnect
  <1>10. CASE \E s \in Logins, a \in Accounts : Authorize(s, a)
    BY <1>10 DEF Authorize
  <1>11. CASE UNCHANGED vars
    BY <1>11, Zenon DEF vars
  <1> QED
    BY <1>1, <1>2, <1>3, <1>4, <1>5, <1>6, <1>7, <1>8, <1>9, <1>10, <1>11, Zenon
       DEF Next, LoginStep

\* The delays add up as the table says.
LEMMA ScheduleStep == AuthInv /\ [Next]_vars => OnSchedule'
  <1> SUFFICES ASSUME AuthInv, [Next]_vars PROVE OnSchedule'
    BY Zenon
  <1>1. attempts \in Int /\ waited \in Int
    BY DEF AuthInv, TypeOK
  <1> USE <1>1 DEF AuthInv, OnSchedule, loop, max_attempts
  <1>2. CASE startLogin \/ fetchClientIdAsync \/ fetchUserInfoAsync
             \/ setState
    BY <1>2, Zenon
    DEF startLogin, fetchClientIdAsync, fetchUserInfoAsync, setState,
                LoginFails
  <1>3. CASE getAuthUrlAsync
    BY <1>3 DEF getAuthUrlAsync, LoginFails, Elapsed
  <1>4. CASE Delay
    BY <1>4 DEF Delay, Elapsed
  <1>5. CASE requestTokenAsync
    <2>1. /\ pc = "/token" /\ waited' = waited
          /\ pc' = "/user_info" \/ pc' = "backoff"
          /\ pc' = "backoff" => attempts' = attempts + 1
      BY <1>5, Zenon DEF requestTokenAsync
    <2>2. pc' = "backoff" => attempts' - 1 = attempts
      BY <2>1
    <2>3. Elapsed(attempts, waited - 1) /\ waited <= 62
      BY <2>1, Zenon
    <2>4. pc' = "backoff" => Elapsed(attempts' - 1, waited' - 1)
      BY <2>1, <2>2, <2>3, Zenon
    <2> QED BY <2>1, <2>3, <2>4
  <1>6. CASE Backoff
    <2>1. /\ pc = "backoff" /\ Elapsed(attempts - 1, waited - 1)
          /\ waited' = waited + (IF attempts >= 4 THEN attempts ELSE 1)
          /\ attempts' = attempts
          /\ \/ attempts < 10 /\ pc' = "delay"
             \/ attempts >= 10 /\ pc' = "idle"
      BY <1>6 DEF Backoff, LoginFails
    <2>2. attempts < 10 => Elapsed(attempts, waited')
      BY <2>1 DEF Elapsed
    <2>3. waited' <= 62
      BY <2>1 DEF Elapsed
    <2> QED BY <2>1, <2>2, <2>3
  <1>7. CASE disconnect \/ (\E s \in Logins, a \in Accounts : Authorize(s, a))
             \/ UNCHANGED vars
    BY <1>7, Zenon DEF disconnect, Authorize, vars
  <1> QED
    BY <1>2, <1>3, <1>4, <1>5, <1>6, <1>7, Zenon DEF Next, LoginStep

\* A step keeps what is known of the login's stage.
LEMMA StageStep == AuthInv /\ [Next]_vars => Stage'
  <1> SUFFICES ASSUME AuthInv, [Next]_vars PROVE Stage'
    BY Zenon
  <1>0. /\ Stage /\ logins \in 0..MaxLogins /\ MaxLogins \in Nat
        /\ service_state \in {"Disconnected", "LoggingIn", "LoggedIn", "Error"}
        /\ authorized \in [Logins -> Accounts \cup {NoAccount}]
    BY AuthAssumption, Zenon DEF AuthInv, TypeOK
  <1> USE DEF Stage, Opened, Polling, HasTokens, result, tokens, loop, browser
  <1>1. CASE startLogin
    <2>1. logins' \in Logins
      BY <1>0, <1>1 DEF startLogin, Logins
    <2> QED BY <1>0, <1>1, <2>1 DEF startLogin, Logins
  <1>2. CASE fetchClientIdAsync
    BY <1>0, <1>2, Zenon DEF fetchClientIdAsync, LoginFails, Logins
  <1>3. CASE getAuthUrlAsync
    BY <1>0, <1>3, Zenon DEF getAuthUrlAsync, LoginFails, Logins
  <1>4. CASE Delay
    BY <1>0, <1>4, Zenon DEF Delay, Logins
  <1>5. CASE requestTokenAsync
    <2>1. PICK answer \in getHttpAsync(TokenBodies) :
             /\ m_access_token' = IF answer \in {"both", "access_token only"}
                                  THEN m_state ELSE m_access_token
             /\ m_refresh_token' = IF answer = "both" THEN m_state
                                   ELSE m_refresh_token
             /\ pc' = IF answer = "both" THEN "/user_info" ELSE "backoff"
      BY <1>5, Zenon DEF requestTokenAsync
    <2>2. answer = "both" => authorized[m_state] # NoAccount
      BY Zenon DEF getHttpAsync, TokenBodies
    <2>3. m_state \in Logins
      BY <1>0, <1>5, Zenon DEF requestTokenAsync
    <2>4. answer = "both" => authorized[m_state] \in Accounts
      BY <1>0, <2>2, <2>3, Zenon
    <2> QED BY <1>0, <1>5, <2>1, <2>4 DEF requestTokenAsync, Logins
  <1>6. CASE Backoff
    BY <1>0, <1>6, Zenon DEF Backoff, LoginFails, Logins
  <1>7. CASE fetchUserInfoAsync
    BY <1>0, <1>7, Zenon DEF fetchUserInfoAsync, LoginFails, Logins
  <1>8. CASE setState
    BY <1>0, <1>8, Zenon DEF setState, Logins
  <1>9. CASE disconnect
    BY <1>0, <1>9, Zenon DEF disconnect, Logins
  <1>10. CASE \E s \in Logins, a \in Accounts : Authorize(s, a)
    <2>1. PICK s \in Logins, a \in Accounts : Authorize(s, a)
      BY <1>10, Zenon
    <2>2. authorized[m_state] \in Accounts => authorized'[m_state] = authorized[m_state]
      BY <1>0, <2>1, AuthAssumption DEF Authorize
    <2> QED BY <1>0, <2>1, <2>2 DEF Authorize, Logins
  <1>11. CASE UNCHANGED vars
    BY <1>0, <1>11, Zenon DEF vars, Logins
  <1> QED
    BY <1>1, <1>2, <1>3, <1>4, <1>5, <1>6, <1>7, <1>8, <1>9, <1>10, <1>11, Zenon
       DEF Next, LoginStep

\* An authorization is final.
LEMMA AuthorizedStays ==
    ASSUME TypeOK, [Next]_vars, NEW s \in Logins, authorized[s] \in Accounts
    PROVE  authorized'[s] = authorized[s]
  <1>1. authorized' = authorized
        \/ \E t \in Logins, a \in Accounts : Authorize(t, a)
    BY Zenon DEF Next, LoginStep, vars, browser, startLogin, fetchClientIdAsync,
           getAuthUrlAsync, Delay, requestTokenAsync, Backoff,
           fetchUserInfoAsync, setState, disconnect
  <1>2. ASSUME NEW t \in Logins, NEW a \in Accounts, Authorize(t, a)
        PROVE  authorized'[s] = authorized[s]
    BY <1>2, AuthAssumption, Zenon DEF Authorize, TypeOK
  <1> QED BY <1>1, <1>2

\* Only fetchUserInfoAsync writes the configuration, and it writes what the
\* tokens and the user of the current OAuth state are.
LEMMA ConfigWritten ==
    ASSUME AuthInv, [Next]_vars
    PROVE  \/ m_config' = m_config
           \/ /\ pc = "/user_info" /\ pc' = "setState"
              /\ m_state \in Logins /\ authorized[m_state] \in Accounts
              /\ UNCHANGED <<service_state, tokens, authorized>>
              /\ m_current_user' = authorized[m_state]
              /\ m_config' = Result
  <1>1. m_config' = m_config \/ fetchUserInfoAsync
    BY Zenon DEF Next, LoginStep, vars, result, startLogin, fetchClientIdAsync,
           getAuthUrlAsync, Delay, requestTokenAsync, Backoff, LoginFails,
           setState, disconnect, Authorize
  <1>2. CASE fetchUserInfoAsync
    <2>1. /\ pc = "/user_info" /\ UNCHANGED <<tokens, authorized>>
          /\ \/ m_config' = m_config
             \/ /\ pc' = "setState" /\ service_state' = service_state
                /\ m_current_user' = authorized[m_state]
                /\ m_config' = [access_token |-> m_access_token,
                                broadcaster_id |-> authorized[m_state],
                                client_id |-> m_client_id]
      BY <1>2, Zenon DEF fetchUserInfoAsync, LoginFails, result, browser
    <2>2. /\ m_state \in Logins /\ authorized[m_state] \in Accounts
          /\ m_access_token = m_state /\ m_client_id
      BY <2>1, Zenon DEF AuthInv, Stage, Opened, HasTokens
    <2>3. m_client_id = TRUE
      BY <2>2, Zenon DEF AuthInv, TypeOK
    <2> QED BY <2>1, <2>2, <2>3 DEF Result
  <1> QED BY <1>1, <1>2

\* The configuration never mixes two accounts.
LEMMA OneAccountStep == AuthInv /\ [Next]_vars => OneAccount'
  <1> SUFFICES ASSUME AuthInv, [Next]_vars PROVE OneAccount'
    BY Zenon
  <1>1. CASE m_config' = m_config
    <2>1. CASE m_config = EmptyConfig
      BY <1>1, <2>1, Zenon DEF OneAccount, EmptyConfig
    <2>2. CASE Coherent /\ m_config.broadcaster_id \in Accounts
      <3>1. authorized'[m_config.access_token]
              = authorized[m_config.access_token]
        BY <2>2, AuthorizedStays, Zenon DEF Coherent, AuthInv
      <3> QED BY <1>1, <2>2, <3>1 DEF OneAccount, Coherent, Logins
    <2> QED BY <2>1, <2>2 DEF AuthInv, OneAccount
  <1>2. CASE /\ m_state \in Logins /\ authorized[m_state] \in Accounts
             /\ UNCHANGED <<tokens, authorized>>
             /\ m_config' = Result
    BY <1>2, Zenon DEF OneAccount, Coherent, Result, Logins
  <1> QED BY <1>1, <1>2, ConfigWritten

\* What fetchUserInfoAsync has written is still there when setState runs.
LEMMA WrittenStep == AuthInv /\ [Next]_vars => Written'
  <1> SUFFICES ASSUME AuthInv, [Next]_vars, pc' = "setState"
               PROVE  (m_current_user = authorized[m_state])'
                      /\ (m_config = Result)'
    BY Zenon DEF Written
  <1>1. CASE fetchUserInfoAsync
    <2>1. /\ UNCHANGED <<m_state, authorized>>
          /\ m_current_user' = authorized[m_state]
          /\ m_config' = [access_token |-> m_access_token,
                          broadcaster_id |-> authorized[m_state],
                          client_id |-> m_client_id]
      BY <1>1, Zenon DEF fetchUserInfoAsync, LoginFails, tokens, browser
    <2>2. m_access_token = m_state /\ m_client_id
      BY <1>1, Zenon DEF fetchUserInfoAsync, AuthInv, Stage, Opened, HasTokens
    <2>3. m_client_id = TRUE
      BY <2>2, Zenon DEF AuthInv, TypeOK
    <2> QED BY <2>1, <2>2, <2>3 DEF Result
  <1>2. CASE ~ fetchUserInfoAsync
    <2>1. pc = "setState" /\ UNCHANGED <<m_state, m_config, m_current_user>>
      <3>1. ~ disconnect
        BY Zenon DEF disconnect, AuthInv, Stage
      <3> QED
        BY <1>2, <3>1, Zenon
        DEF Next, LoginStep, vars, result, tokens, startLogin,
           fetchClientIdAsync, getAuthUrlAsync, Delay, requestTokenAsync,
           Backoff, LoginFails, setState, Authorize
    <2>2. m_state \in Logins /\ authorized[m_state] \in Accounts
      BY <2>1, Zenon DEF AuthInv, Stage, Opened, HasTokens
    <2>3. authorized'[m_state] = authorized[m_state]
      BY <2>2, AuthorizedStays, Zenon DEF AuthInv
    <2> QED BY <2>1, <2>3 DEF AuthInv, Written, Result
  <1> QED BY <1>1, <1>2

\* Being logged in begins with setState, and nothing touches the credentials
\* before it ends.
LEMMA CredentialsStep ==
    AuthInv /\ [Next]_vars => CredentialsAreOfThisLogin'
  <1> SUFFICES ASSUME AuthInv, [Next]_vars, service_state' = "LoggedIn"
               PROVE  CredentialsAreOfThisLogin'
    BY Zenon DEF CredentialsAreOfThisLogin
  <1> DEFINE Kept == UNCHANGED <<m_state, m_access_token, m_refresh_token,
                                 m_config, m_current_user, logins, pages>>
  <1>1. \/ setState
        \/ UNCHANGED <<service_state, pc>> /\ service_state = "LoggedIn" /\ Kept
    <2>1. service_state = "LoggedIn" => pc = "idle"
      BY Zenon DEF AuthInv, Stage
    <2>2. service_state \in {"LoggedIn", "LoggingIn"} \/ setState
          \/ service_state' # "LoggedIn"
      BY Zenon DEF Next, LoginStep, vars, startLogin, fetchClientIdAsync,
             getAuthUrlAsync, Delay, requestTokenAsync, Backoff, LoginFails,
             fetchUserInfoAsync, disconnect, Authorize
    <2>3. CASE service_state = "LoggedIn"
      BY <2>1, <2>3, Zenon
         DEF Next, LoginStep, vars, result, tokens, browser, startLogin,
             fetchClientIdAsync, getAuthUrlAsync, Delay, requestTokenAsync,
             Backoff, fetchUserInfoAsync, setState, disconnect, Authorize
    <2>4. CASE service_state = "LoggingIn"
      BY <2>4, Zenon
         DEF Next, LoginStep, vars, startLogin, fetchClientIdAsync,
             getAuthUrlAsync, Delay, requestTokenAsync, Backoff, LoginFails,
             fetchUserInfoAsync, disconnect, Authorize
    <2> QED BY <2>2, <2>3, <2>4
  <1>2. CASE setState
    <2>1. pc = "setState" /\ Kept /\ authorized' = authorized
      BY <1>2, Zenon DEF setState, result, tokens, browser
    <2>2. /\ m_state = logins /\ m_state \in pages
          /\ m_access_token = m_state /\ m_refresh_token = m_state
          /\ authorized[m_state] \in Accounts
      BY <2>1, Zenon DEF AuthInv, Stage, Opened, HasTokens
    <2>3. m_current_user = authorized[m_state] /\ m_config = Result
      BY <2>1, Zenon DEF AuthInv, Written
    <2> QED BY <2>1, <2>2, <2>3 DEF CredentialsAreOfThisLogin, Result
  <1>3. CASE service_state = "LoggedIn" /\ Kept
    <2>1. /\ m_state \in pages /\ pages \subseteq Logins
          /\ authorized[m_state] \in Accounts
      BY <1>3, Zenon DEF AuthInv, CredentialsAreOfThisLogin, TypeOK
    <2>2. authorized'[m_state] = authorized[m_state]
      BY <2>1, AuthorizedStays, Zenon DEF AuthInv
    <2> QED BY <1>3, <2>2 DEF AuthInv, CredentialsAreOfThisLogin
  <1> QED BY <1>1, <1>2, <1>3

(***************************************************************************)
(* AuthInv holds throughout every behaviour of the login coroutine.        *)
(***************************************************************************)
THEOREM AuthInvHolds == Spec => []AuthInv
  <1>1. AuthInv /\ [Next]_vars => AuthInv'
    BY Zenon, TypeStep, ScheduleStep, StageStep, WrittenStep, OneAccountStep,
       CredentialsStep DEF AuthInv
  <1> QED BY <1>1, AuthInit, PTL DEF Spec

(***************************************************************************)
(* The login coroutine's variables keep their types.                       *)
(***************************************************************************)
THEOREM AuthTypeCorrect == Spec => []TypeOK
  <1>1. AuthInv => TypeOK
    BY Zenon DEF AuthInv
  <1> QED BY <1>1, AuthInvHolds, PTL

(***************************************************************************)
(* Whoever is logged in has authorized this very login, however many       *)
(* logins came before and however their polls failed.                      *)
(***************************************************************************)
THEOREM LoginIsAuthorized == Spec => []CredentialsAreOfThisLogin
  <1>1. AuthInv => CredentialsAreOfThisLogin
    BY Zenon DEF AuthInv
  <1> QED BY <1>1, AuthInvHolds, PTL

(***************************************************************************)
(* loginAsync's poll loop leaves the user 52 delays and stops within 62.   *)
(***************************************************************************)
THEOREM PollingIsBounded == Spec => []PollSchedule
  <1>1. AuthInv => PollSchedule
    <2> SUFFICES ASSUME AuthInv PROVE PollSchedule
      BY Zenon
    <2>1. attempts \in Int /\ waited \in Int /\ waited <= 62
      BY AttemptsBounded, Zenon DEF AuthInv, OnSchedule
    <2>2. ASSUME pc = "/token", attempts = max_attempts - 1
          PROVE  waited >= 52
      BY <2>1, <2>2 DEF AuthInv, OnSchedule, Elapsed, max_attempts
    <2> QED BY <2>1, <2>2 DEF PollSchedule
  <1> QED BY <1>1, AuthInvHolds, PTL

-----------------------------------------------------------------------------
\* While AuthInv holds, the credentials are those of one account.
LEMMA OneAccountMapped == AuthInv => Credentials = m_config.broadcaster_id
  BY Zenon DEF AuthInv, OneAccount, Credentials

\* The steps that matter to the abstract login: it begins, it ends badly, it
\* ends well, the user logs out.
LEMMA LoginStepSimulated ==
    ASSUME AuthInv, AuthInv', [Next]_vars
    PROVE  [AbstractLogin!Next]_AbstractLogin!vars
  <1>1. /\ Credentials = m_config.broadcaster_id
        /\ Credentials' = m_config'.broadcaster_id
    <2>1. Credentials' = (m_config.broadcaster_id)'
      BY Zenon DEF AuthInv, OneAccount, Credentials
    <2> QED BY <2>1, OneAccountMapped
  <1>2. service_state = "LoggingIn" <=> pc # "idle"
    BY Zenon DEF AuthInv, Stage
  <1>3. m_config' = m_config => Credentials' = Credentials
    BY <1>1, Zenon
  <1> USE DEF AbstractLogin!Next, AbstractLogin!vars
  <1>4. CASE startLogin
    <2>1. ~ InFlight /\ InFlight' /\ UNCHANGED result
      BY <1>4, Zenon DEF startLogin, InFlight
    <2>2. AbstractLogin!Start
      <3>1. InFlight' = TRUE
        BY <1>4, Zenon DEF startLogin, InFlight
      <3> QED BY <1>3, <2>1, <3>1 DEF AbstractLogin!Start, result
    <2> QED BY <2>2
  <1>5. ASSUME LoginFails, pc \notin {"idle", "setState"}
        PROVE  AbstractLogin!Fail
    <2>1. InFlight /\ InFlight' = FALSE /\ UNCHANGED result
      BY <1>2, <1>5, Zenon DEF LoginFails, InFlight
    <2> QED BY <1>3, <2>1 DEF AbstractLogin!Fail, result
  <1>6. ASSUME UNCHANGED <<service_state, m_config, m_current_user>>,
               pc # "setState", pc' # "setState"
        PROVE  UNCHANGED AbstractLogin!vars
    <2>1. InFlight' = InFlight
      BY <1>6, Zenon DEF InFlight
    <2> QED BY <1>3, <1>6, <2>1
  <1>7. CASE fetchClientIdAsync
    <2>1. \/ LoginFails /\ pc = "/client_id"
          \/ /\ UNCHANGED <<service_state, m_config, m_current_user>>
             /\ pc = "/client_id" /\ pc' = "/auth_url"
      BY <1>7, Zenon DEF fetchClientIdAsync, result
    <2> QED BY <1>5, <1>6, <2>1
  <1>8. CASE getAuthUrlAsync
    <2>1. \/ LoginFails /\ pc = "/auth_url"
          \/ /\ UNCHANGED <<service_state, m_config, m_current_user>>
             /\ pc = "/auth_url" /\ pc' = "delay"
      BY <1>8, Zenon DEF getAuthUrlAsync, result
    <2> QED BY <1>5, <1>6, <2>1
  <1>9. CASE Delay \/ requestTokenAsync
    <2>1. /\ UNCHANGED <<service_state, m_config, m_current_user>>
          /\ pc \in {"delay", "/token"}
          /\ pc' \in {"/token", "/user_info", "backoff"}
      BY <1>9, Zenon DEF Delay, requestTokenAsync, result
    <2> QED BY <1>6, <2>1
  <1>10. CASE Backoff
    <2>1. \/ LoginFails /\ pc = "backoff"
          \/ /\ UNCHANGED <<service_state, m_config, m_current_user>>
             /\ pc = "backoff" /\ pc' = "delay"
      BY <1>10, Zenon DEF Backoff, result
    <2> QED BY <1>5, <1>6, <2>1
  <1>11. CASE fetchUserInfoAsync
    <2>1. CASE LoginFails
      BY <1>5, <1>11, <2>1, Zenon DEF fetchUserInfoAsync
    <2>2. CASE ~ LoginFails
      <3>1. /\ pc = "/user_info" /\ pc' = "setState"
            /\ m_current_user' = authorized[m_state]
            /\ m_config' = [access_token |-> m_access_token,
                            broadcaster_id |-> authorized[m_state],
                            client_id |-> m_client_id]
        BY <1>11, <2>2, Zenon DEF fetchUserInfoAsync
      <3>2. authorized[m_state] \in Accounts
        BY <3>1, Zenon DEF AuthInv, Stage, HasTokens
      <3>3. InFlight /\ InFlight' = FALSE
        BY <1>2, <3>1, Zenon DEF InFlight
      <3>4. Credentials' = authorized[m_state]
        BY <1>1, <3>1, Zenon
      <3>5. AbstractLogin!Succeed(authorized[m_state])
        BY <3>1, <3>3, <3>4, Zenon DEF AbstractLogin!Succeed
      <3> QED BY <3>2, <3>5
    <2> QED BY <2>1, <2>2
  <1>12. CASE setState
    <2>1. InFlight = FALSE /\ InFlight' = FALSE /\ UNCHANGED result
      BY <1>12, Zenon DEF setState, InFlight
    <2> QED BY <1>3, <2>1 DEF result
  <1>13. CASE disconnect
    <2>1. /\ InFlight = FALSE /\ InFlight' = FALSE
          /\ m_config' = m_config /\ m_current_user' = NoAccount
      BY <1>13, Zenon DEF disconnect, InFlight
    <2> QED BY <1>3, <2>1 DEF AbstractLogin!Logout
  <1>14. CASE (\E s \in Logins, a \in Accounts : Authorize(s, a))
              \/ UNCHANGED vars
    <2>1. UNCHANGED <<service_state, pc, m_config, m_current_user>>
      BY <1>14, Zenon DEF Authorize, vars, result
    <2>2. InFlight' = InFlight
      BY <2>1, Zenon DEF InFlight
    <2> QED BY <1>3, <2>1, <2>2
  <1> QED
    BY <1>4, <1>7, <1>8, <1>9, <1>10, <1>11, <1>12, <1>13, <1>14, Zenon
       DEF Next, LoginStep

(***************************************************************************)
(* Auth and startLogin implement Login: for those who wait for setState, a *)
(* login is one step that installs one account or changes nothing.         *)
(***************************************************************************)
THEOREM AuthImplementsLogin == Spec => ImplementsLogin
  <1>1. Init => AbstractLogin!Init
    BY DEF Init, AbstractLogin!Init, InFlight, Credentials, EmptyConfig
  <1>2. AuthInv /\ AuthInv' /\ [Next]_vars
          => [AbstractLogin!Next]_AbstractLogin!vars
    BY LoginStepSimulated, Zenon
  <1> QED
    BY <1>1, <1>2, AuthInvHolds, PTL
       DEF Spec, ImplementsLogin, AbstractLogin!Spec
=============================================================================
