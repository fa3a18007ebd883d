-------------------------------- MODULE Auth --------------------------------
(***************************************************************************)
(* Logging in: Auth (tw/auth.cpp) and TwitchService::startLogin, which     *)
(* runs it.  The bot asks an authorization server for the client id and    *)
(* for a page to open in the browser, polls the server for the tokens of   *)
(* that page's OAuth state, asks for the user, and hands the result to the *)
(* service.                                                                *)
(*                                                                         *)
(* A step is what the coroutine does between two suspensions; the writes   *)
(* of the result and the setState that announces it are two steps, since   *)
(* the UI thread looks on without a lock.  The OAuth state that the n-th   *)
(* login generates is called n, and so are the tokens issued for it.  The  *)
(* server binds a state to the first account that authorizes it.  Time is  *)
(* counted in `delay's of 300 ms, and only while polling.                  *)
(***************************************************************************)
EXTENDS Integers

CONSTANTS
    Accounts,   \* accounts the user can authorize the bot for
    NoAccount,  \* no user, or no authorization yet
    MaxLogins   \* bound on the number of logins

ASSUME AuthAssumption == NoAccount \notin Accounts /\ MaxLogins \in Nat

VARIABLES
    service_state,    \* TwitchService::m_state
    m_config,         \* TwitchService::m_config, the part a login sets
    m_current_user,   \* TwitchService::m_current_user
    m_client_id,      \* has the client id been fetched?
    m_state,          \* the OAuth state, 0 before the first
    m_access_token, m_refresh_token,  \* 0 when empty
    pc,               \* what the login coroutine waits for
    attempts,         \* of the poll loop
    waited,           \* history: delays spent in the poll loop
    logins,           \* logins so far
    pages,            \* OAuth states whose page was opened in the browser
    authorized        \* server: the account that authorized each OAuth state

result == <<m_config, m_current_user>>
tokens == <<m_client_id, m_state, m_access_token, m_refresh_token>>
loop == <<attempts, waited>>
browser == <<pages, authorized>>
vars == <<service_state, result, tokens, pc, loop, logins, browser>>

None == 0
Logins == 1..MaxLogins
max_attempts == 10
EmptyConfig == [access_token |-> None, broadcaster_id |-> NoAccount,
                client_id |-> FALSE]

Init ==
    /\ service_state = "Disconnected"
    /\ m_config = EmptyConfig /\ m_current_user = NoAccount
    /\ m_client_id = FALSE /\ m_state = None
    /\ m_access_token = None /\ m_refresh_token = None
    /\ pc = "idle" /\ attempts = 0 /\ waited = 0 /\ logins = 0
    /\ pages = {} /\ authorized = [s \in Logins |-> NoAccount]

-----------------------------------------------------------------------------
\* startLogin: the login button exists only in Disconnected.
startLogin ==
    /\ service_state = "Disconnected"
    /\ logins < MaxLogins
    /\ service_state' = "LoggingIn"
    /\ pc' = "/client_id"
    /\ logins' = logins + 1
    /\ UNCHANGED <<result, tokens, loop, browser>>

\* Faulty variant of LoginFails: the exception is logged and that is all.
LoginFailsSilently ==
    /\ pc' = "idle"
    /\ UNCHANGED <<service_state, result>>

\* An exception reaches startLogin's coroutine.
LoginFails ==
    /\ service_state' = "Error"
    /\ pc' = "idle"
    /\ UNCHANGED result

\* What a request that the server answers with one of the bodies can yield.
\* An error of the connection, a status other than 200 and 302, and a body
\* that cannot be parsed all end in an exception.
getHttpAsync(bodies) == {"exception"} \cup bodies

\* 16 random characters: a state that no earlier login had.
generateState == logins

\* The client id is stored, and getAuthUrlAsync generates an OAuth state.
fetchClientIdAsync ==
    /\ pc = "/client_id"
    /\ \E answer \in getHttpAsync({"client_id"}) :
          IF answer = "client_id"
          THEN /\ m_client_id' = TRUE
               /\ m_state' = generateState
               /\ pc' = "/auth_url"
               /\ UNCHANGED <<service_state, result>>
          ELSE LoginFails /\ UNCHANGED <<m_client_id, m_state>>
    /\ UNCHANGED <<m_access_token, m_refresh_token, loop, logins, browser>>

\* The page is opened in the browser, which may fail, and polling begins.
getAuthUrlAsync ==
    /\ pc = "/auth_url"
    /\ \E answer \in getHttpAsync({"redirect"}) :
          IF answer = "redirect"
          THEN /\ pc' = "delay"
               /\ attempts' = 0
               /\ waited' = 0
               /\ pages' = pages \cup {m_state}
               /\ UNCHANGED <<service_state, result>>
          ELSE LoginFails /\ UNCHANGED <<loop, pages>>
    /\ UNCHANGED <<tokens, logins, authorized>>

\* The delay before each request for the tokens.
Delay ==
    /\ pc = "delay"
    /\ pc' = "/token"
    /\ waited' = waited + 1
    /\ UNCHANGED <<service_state, result, tokens, attempts, logins,
                   browser>>

\* The server has tokens for a state once an account has authorized it.
TokenBodies ==
    IF authorized[m_state] = NoAccount THEN {"pending"}
    ELSE {"both", "access_token only"}

\* Faulty variant of requestTokenAsync: an access token alone will do.
requestTokenAsyncEither ==
    /\ pc = "/token"
    /\ \E answer \in getHttpAsync(TokenBodies) :
          LET stored == answer \in {"both", "access_token only"} IN
          /\ m_access_token' = IF stored THEN m_state ELSE m_access_token
          /\ m_refresh_token' = IF answer = "both" THEN m_state
                                ELSE m_refresh_token
          /\ attempts' = IF stored THEN attempts ELSE attempts + 1
          /\ pc' = IF stored THEN "/user_info" ELSE "backoff"
    /\ UNCHANGED <<service_state, result, m_client_id, m_state, waited,
                   logins, browser>>

\* The access token is stored before the refresh token is looked for, whose
\* absence makes the attempt a failed one.
requestTokenAsync ==
    /\ pc = "/token"
    /\ \E answer \in getHttpAsync(TokenBodies) :
          /\ m_access_token' = IF answer \in {"both", "access_token only"}
                               THEN m_state ELSE m_access_token
          /\ m_refresh_token' = IF answer = "both" THEN m_state
                                ELSE m_refresh_token
          /\ attempts' = IF answer = "both" THEN attempts ELSE attempts + 1
          /\ pc' = IF answer = "both" THEN "/user_info" ELSE "backoff"
    /\ UNCHANGED <<service_state, result, m_client_id, m_state, waited,
                   logins, browser>>

\* Faulty variant of Backoff: one attempt too many.
BackoffInclusive ==
    /\ pc = "backoff"
    /\ waited' = waited + (IF attempts >= 4 THEN attempts ELSE 1)
    /\ IF attempts <= max_attempts
       THEN pc' = "delay" /\ UNCHANGED <<service_state, result>>
       ELSE LoginFails
    /\ UNCHANGED <<tokens, attempts, logins, browser>>

\* The delay after a failed attempt, longer from the fourth on; after the
\* last one the login times out.
Backoff ==
    /\ pc = "backoff"
    /\ waited' = waited + (IF attempts >= 4 THEN attempts ELSE 1)
    /\ IF attempts < max_attempts
       THEN pc' = "delay" /\ UNCHANGED <<service_state, result>>
       ELSE LoginFails
    /\ UNCHANGED <<tokens, attempts, logins, browser>>

\* The user in the server's answer for a state: the id and the display name
\* of the account, here one value.
parseTwitchUser(s) == authorized[s]

\* Faulty variant of fetchUserInfoAsync: the token is copied once only.
fetchUserInfoAsyncOnce ==
    /\ pc = "/user_info"
    /\ \E answer \in getHttpAsync({"user"}) :
          IF answer = "user"
          THEN /\ m_current_user' = parseTwitchUser(m_state)
               /\ m_config' =
                     [access_token |-> IF m_config = EmptyConfig
                                       THEN m_access_token
                                       ELSE m_config.access_token,
                      broadcaster_id |-> parseTwitchUser(m_state),
                      client_id |-> m_client_id]
               /\ pc' = "setState"
               /\ UNCHANGED service_state
          ELSE LoginFails
    /\ UNCHANGED <<tokens, loop, logins, browser>>

\* The user of the OAuth state, parsed, and what startLogin makes of it.
fetchUserInfoAsync ==
    /\ pc = "/user_info"
    /\ \E answer \in getHttpAsync({"user"}) :
          IF answer = "user"
          THEN /\ m_current_user' = parseTwitchUser(m_state)
               /\ m_config' = [access_token |-> m_access_token,
                               broadcaster_id |-> parseTwitchUser(m_state),
                               client_id |-> m_client_id]
               /\ pc' = "setState"
               /\ UNCHANGED service_state
          ELSE LoginFails
    /\ UNCHANGED <<tokens, loop, logins, browser>>

setState ==
    /\ pc = "setState"
    /\ service_state' = "LoggedIn"
    /\ pc' = "idle"
    /\ UNCHANGED <<result, tokens, loop, logins, browser>>

\* Logout or Reset.  Auth keeps its tokens and m_config its credentials.
disconnect ==
    /\ service_state \in {"LoggedIn", "Error"}
    /\ service_state' = "Disconnected"
    /\ m_current_user' = NoAccount
    /\ UNCHANGED <<m_config, tokens, pc, loop, logins, browser>>

\* The user authorizes the bot on a page that was opened, maybe long ago.
Authorize(s, a) ==
    /\ s \in pages
    /\ authorized[s] = NoAccount
    /\ authorized' = [authorized EXCEPT ![s] = a]
    /\ UNCHANGED <<service_state, result, tokens, pc, loop, logins, pages>>

LoginStep ==
    \/ fetchClientIdAsync \/ getAuthUrlAsync \/ Delay \/ requestTokenAsync
    \/ Backoff \/ fetchUserInfoAsync \/ setState

Next ==
    \/ startLogin \/ LoginStep \/ disconnect
    \/ \E s \in Logins, a \in Accounts : Authorize(s, a)

(***************************************************************************)
(* The io_context fires its timers and runs what is ready.  The server and *)
(* the user owe nothing.                                                   *)
(***************************************************************************)
Fairness == WF_vars(Delay \/ Backoff \/ setState)

Spec == Init /\ [][Next]_vars /\ Fairness

-----------------------------------------------------------------------------
Stages == {"idle", "/client_id", "/auth_url", "delay", "/token", "backoff",
           "/user_info", "setState"}

TypeOK ==
    /\ service_state \in {"Disconnected", "LoggingIn", "LoggedIn", "Error"}
    /\ m_config \in [access_token : Nat,
                     broadcaster_id : Accounts \cup {NoAccount},
                     client_id : BOOLEAN]
    /\ m_current_user \in Accounts \cup {NoAccount}
    /\ m_client_id \in BOOLEAN
    /\ m_state \in 0..logins
    /\ m_access_token \in 0..logins /\ m_refresh_token \in 0..logins
    /\ pc \in Stages
    /\ attempts \in 0..max_attempts /\ waited \in Nat
    /\ logins \in 0..MaxLogins
    /\ pages \subseteq Logins
    /\ authorized \in [Logins -> Accounts \cup {NoAccount}]

(***************************************************************************)
(* Whoever is logged in has authorized this very login: both tokens, the   *)
(* configuration and the user shown are those of the last OAuth state, in  *)
(* spite of tokens left by earlier logins, of polls that failed with half  *)
(* of an answer stored, and of pages authorized after their login gave up. *)
(***************************************************************************)
CredentialsAreOfThisLogin ==
    service_state = "LoggedIn" =>
        /\ m_state = logins /\ m_state \in pages
        /\ m_access_token = m_state /\ m_refresh_token = m_state
        /\ authorized[m_state] \in Accounts
        /\ m_current_user = authorized[m_state]
        /\ m_config = [access_token |-> m_state,
                       broadcaster_id |-> authorized[m_state],
                       client_id |-> TRUE]

(***************************************************************************)
(* The poll loop is patient and finite: its last request leaves the user   *)
(* 52 delays (15.6 s) to authorize the bot, and it has given up after 62   *)
(* (18.6 s), not counting the time the requests themselves take.           *)
(***************************************************************************)
PollSchedule ==
    /\ waited <= 62
    /\ pc = "/token" /\ attempts = max_attempts - 1 => waited >= 52

(***************************************************************************)
(* A login ends, well or badly, if each of its requests does.              *)
(***************************************************************************)
ServerAnswers ==
    WF_vars(\/ fetchClientIdAsync \/ getAuthUrlAsync \/ requestTokenAsync
            \/ fetchUserInfoAsync)

LoginEnds ==
    ServerAnswers =>
        (service_state = "LoggingIn" ~> service_state # "LoggingIn")

(***************************************************************************)
(* The exchanges of a login amount to one step for everyone who waits for  *)
(* setState: it takes effect when its result is written.  Credentials put  *)
(* together from two accounts are those of no account.                     *)
(***************************************************************************)
Coherent ==
    /\ m_config.access_token \in Logins
    /\ m_config.broadcaster_id = authorized[m_config.access_token]
    /\ m_config.client_id

InFlight == service_state = "LoggingIn" /\ pc # "setState"
Credentials == IF m_config = EmptyConfig \/ Coherent
               THEN m_config.broadcaster_id ELSE "mixed"

AbstractLogin == INSTANCE Login WITH
    in_flight <- InFlight, credentials <- Credentials, user <- m_current_user

ImplementsLogin == AbstractLogin!Spec
=============================================================================
