--------------------------- MODULE Notifications ---------------------------
(***************************************************************************)
(* discord::Notifications::sendMessage (notifications.cpp), DiscordVM and  *)
(* the part of the HTTP helpers (config.cpp) that concerns lifetimes.  A   *)
(* click on "Test" spawns a coroutine that asks Twitch for the stream,     *)
(* then for the game, and posts to the webhook, going on with placeholders *)
(* when a request fails.  The webhook's URL is read last, on a thread of   *)
(* the pool, while a click on "Apply" may be writing it.                   *)
(*                                                                         *)
(* An HTTP request is one wait; its frame owns the manager.                *)
(***************************************************************************)
EXTENDS ConnectionManager

CONSTANTS
    Sends,       \* clicks on "Test"; operations of the pool
    Urls,        \* what the user types
    NoUrl,       \* the empty string
    Torn         \* neither: read while it is being written

VARIABLES
    m_webhook_url,
    applying,    \* the URL setWebhookUrl is in the middle of writing
    send,        \* where each sendMessage is
    posted,      \* the URLs each one has posted to
    expected     \* history: what m_webhook_url has held from click to post

notifications == <<m_webhook_url, applying, send, posted, expected>>

NotificationsInit ==
    /\ m_webhook_url = NoUrl /\ applying = NoUrl
    /\ send = [s \in Sends |-> "unused"]
    /\ posted = [s \in Sends |-> << >>]
    /\ expected = [s \in Sends |-> {}]

\* The message of a click is still to be posted.
Unposted(s) == send[s] \in {"spawned", "streams", "games"}

\* "Apply": an assignment of strings, which takes two steps.
BeginApply(u) ==
    /\ applying = NoUrl
    /\ applying' = u
    /\ expected' = [s \in Sends |-> IF Unposted(s)
                                    THEN expected[s] \cup {u, Torn}
                                    ELSE {}]
    /\ UNCHANGED <<m_webhook_url, send, posted, managerVars>>

EndApply ==
    /\ applying # NoUrl
    /\ m_webhook_url' = applying
    /\ applying' = NoUrl
    /\ UNCHANGED <<send, posted, expected, managerVars>>

\* "Test", in a frame of the UI, so not during "Apply".
testMessage(s) ==
    /\ applying = NoUrl
    /\ send[s] = "unused"
    /\ send' = [send EXCEPT ![s] = "spawned"]
    /\ expected' = [expected EXCEPT ![s] = {m_webhook_url}]
    /\ Spawn(s)
    /\ UNCHANGED <<m_webhook_url, applying, posted, lifetime, threads, crash>>

\* Faulty variant of ResumeSend: the frame of the request stays behind.
ResumeSendLeaks(t, s) ==
    /\ Take(t, s)
    /\ UNCHANGED <<lifetime, m_work_guard, stopped, crash, notifications>>

\* A thread resumes the coroutine.  If it waited for a request, the frame of
\* the request is destroyed, and the reference in it.
ResumeSend(t, s) ==
    /\ Take(t, s)
    /\ Release(s, t)
    /\ UNCHANGED <<crash, notifications>>

\* Faulty variant of WebhookUrls: a copy made by the constructor.
WebhookUrlsCopied == {NoUrl}

\* The URL as a thread of the pool sees it.
WebhookUrls ==
    IF applying = NoUrl THEN {m_webhook_url}
    ELSE {m_webhook_url, applying, Torn}

Request(s, next) ==
    /\ send' = [send EXCEPT ![s] = next]
    /\ Acquire(s)
    /\ UNCHANGED <<posted, expected, outstanding>>

Post(s) ==
    /\ send' = [send EXCEPT ![s] = "post"]
    /\ \E u \in WebhookUrls :
          posted' = [posted EXCEPT ![s] = Append(@, u)]
    /\ expected' = [expected EXCEPT ![s] = {}]
    /\ Acquire(s)
    /\ UNCHANGED outstanding

EndSend(s) ==
    /\ send' = [send EXCEPT ![s] = "done"]
    /\ outstanding' = outstanding \ {s}
    /\ UNCHANGED <<posted, expected, lifetime>>

\* Faulty variant of AfterGet: what a request throws leaves sendMessage.
AfterGetThrows(s) ==
    \/ send[s] = "streams" /\ Request(s, "games")
    \/ Post(s)
    \/ EndSend(s)

\* After the answer about the stream or the game, or a failure to get it.
\* The game is asked for only if the stream is live and has one.  A stream
\* that is offline ({"data": []} has no element to read a title from, which
\* throws), an answer without "data" and a failed request lead to the post.
AfterGet(s) ==
    \/ send[s] = "streams" /\ Request(s, "games")
    \/ Post(s)

\* sendMessage from one co_await to the next.  It reads m_cfg, m_connection
\* and m_webhook_url of `self', which owns the manager while it lives.
ContinueSend(t, s, self) ==
    /\ Runs(t, s)
    /\ IF self \in owners \/ send[s] = "post"
       THEN /\ \/ send[s] = "spawned" /\ Request(s, "streams")
               \/ send[s] \in {"streams", "games"} /\ AfterGet(s)
               \/ send[s] = "post" /\ EndSend(s)
            /\ UNCHANGED crash
       ELSE /\ crash' = "destroyed object"
            /\ UNCHANGED <<send, posted, expected, outstanding, lifetime>>
    /\ Yield(t)
    /\ UNCHANGED <<m_webhook_url, applying, m_work_guard, stopped, ready>>

-----------------------------------------------------------------------------
(***************************************************************************)
(* A test message is posted at most once, whatever fails before, and never *)
(* to a URL that was replaced before "Test" was clicked: it goes to the    *)
(* one in force at the click or to one applied after it.  Only in the      *)
(* second case can it also go to a torn one, since nothing locks the       *)
(* string; a test that no "Apply" follows meets no race, however long its  *)
(* requests take and whatever other tests are under way.                   *)
(***************************************************************************)
PostedToCurrentUrl ==
    [][\A s \in Sends :
          posted'[s] # posted[s] =>
              \E u \in expected[s] : posted[s] = << >> /\ posted'[s] = <<u>>
      ]_notifications
=============================================================================
