------------------------------- MODULE Session -------------------------------
(***************************************************************************)
(* The session of one browser tab with one account.  The access token is   *)
(* in the tab's memory, and is lost on a reload; the refresh token is in a *)
(* cookie.  A page's call that is refused with 401 awaits a refresh and is *)
(* sent once more, and all that await a refresh share one promise.         *)
(*                                                                         *)
(* Requests and answers are delivered in any order, and fetch may reject.  *)
(* What runs in the tab between two awaits is one step: settling a promise *)
(* resumes all that await it before the next answer is looked at.          *)
(*                                                                         *)
(* Abstractions: the tasks (effects, calls, clicks on log in and out) are  *)
(* each done once in a page load; a token's subject is the account; the    *)
(* cookie outlives the behaviour; the answer of a route that the session   *)
(* does not decide is 200.                                                 *)
(***************************************************************************)
EXTENDS Naturals, FiniteSets

CONSTANTS
    Boots,          \* runs of AuthProvider's effect (StrictMode runs it twice)
    Calls,          \* calls of apiFetch by the pages
    Logins,
    Logouts,
    Refreshes,      \* requests to /auth/refresh that can be in flight (bound)
    MaxReloads,     \* bound on page reloads
    None

ASSUME SessionAssumption ==
    /\ Boots \cap (Calls \cup Logins \cup Logouts) = {}
    /\ Calls \cap (Logins \cup Logouts) = {}
    /\ Logins \cap Logouts = {}
    /\ None \notin Refreshes
    /\ MaxReloads \in Nat

Tasks == Boots \cup Calls \cup Logins \cup Logouts

VARIABLES
    active,         \* User.is_active
    cookie,         \* the browser holds a refresh token
    issued,         \* access tokens issued; a token is its number
    expired,        \* the access tokens that expired
    token,          \* accessToken, 0 for null
    refreshPromise, \* the refresh that is awaited, or None
    refresh,        \* refresh requests: phase, cookie sent, token granted
    task,           \* tasks: where they are, and the request they wait for
    user,           \* the tab shows a signed-in user
    loading,        \* AuthContext's loading
    reloads,
    disturbed       \* a fetch was rejected, or the account was deactivated

vars == <<active, cookie, issued, expired, token, refreshPromise, refresh,
          task, user, loading, reloads, disturbed>>

Unused == [phase |-> "unused", cookie |-> FALSE, token |-> 0]

Answers == {"none", "200", "204", "401", "403", "rejected"}

\* A task's pc: "refreshing" awaits refreshAccessToken; "sent", "retried" and
\* "me" await the answer of a fetch; "done", "failed" and "gone" are the ends.
Task(pc, on, t) ==
    [pc |-> pc, on |-> on, token |-> t, refused |-> 0, answer |-> "none"]

\* The call is over, or its page is.
Settled(t) == task[t].pc \in {"done", "failed", "gone"}

\* Types of the tab's and the account's state.
TypeOK ==
    /\ {active, cookie, user, loading, disturbed} \subseteq BOOLEAN
    /\ issued \in Nat
    /\ expired \subseteq 1..issued
    /\ token \in 0..issued
    /\ refreshPromise \in Refreshes \cup {None}
    /\ refresh \in [Refreshes -> [phase : {"unused", "sent", "answered"},
                                  cookie : BOOLEAN, token : 0..issued]]
    /\ task \in [Tasks ->
         [pc : {"idle", "refreshing", "sent", "retried", "me", "done",
                "failed", "gone"},
          on : Refreshes \cup {None}, token : 0..issued, refused : 0..issued,
          answer : Answers]]
    /\ reloads \in 0..MaxReloads

Init ==
    /\ active = TRUE
    /\ cookie \in BOOLEAN
    /\ issued = 0
    /\ expired = {}
    /\ token = 0
    /\ refreshPromise = None
    /\ refresh = [i \in Refreshes |-> Unused]
    /\ task = [t \in Tasks |-> Task("idle", None, 0)]
    /\ user = FALSE
    /\ loading = TRUE
    /\ reloads = 0
    /\ disturbed = FALSE

serverVars == <<active, issued, expired>>
pageVars   == <<user, loading, reloads>>

-----------------------------------------------------------------------------
(* What the tab sends.                                                     *)

\* t awaits the promise of the request i, which it sends when it is the first.
Await(t, i, first) ==
    /\ first => refresh[i] = Unused
    /\ refresh' = IF first
                     THEN [refresh EXCEPT ![i] = [phase |-> "sent",
                                                  cookie |-> cookie, token |-> 0]]
                     ELSE refresh
    /\ refreshPromise' = i
    /\ task' = [task EXCEPT ![t] =
                   [pc |-> "refreshing", on |-> i, token |-> task[t].token,
                    refused |-> task[t].token, answer |-> "none"]]

\* Faulty variant: every caller sends a request of its own.
AwaitOwnRefresh(t) == \E i \in Refreshes : Await(t, i, TRUE)

\* await refreshAccessToken()
AwaitRefresh(t) ==
    \/ /\ refreshPromise = None
       /\ \E i \in Refreshes : Await(t, i, TRUE)
    \/ /\ refreshPromise # None
       /\ Await(t, refreshPromise, FALSE)

\* AuthProvider's effect.
Boot(b) ==
    /\ task[b].pc = "idle"
    /\ AwaitRefresh(b)
    /\ UNCHANGED <<serverVars, cookie, token, pageVars, disturbed>>

\* A page's call, or a click on "Log in" or "Log out", of which the navbar has
\* the one that user calls for.
Send(t) ==
    /\ task[t].pc = "idle"
    /\ t \in Logouts => user
    /\ t \in Logins => ~user
    /\ task' = [task EXCEPT ![t] = Task("sent", None, token)]
    /\ UNCHANGED <<serverVars, cookie, token, refreshPromise, refresh,
                   pageVars, disturbed>>

-----------------------------------------------------------------------------
(* The server, and the network.                                            *)

\* Faulty variant: an unusable token is answered like a missing permission.
AuthorizeForbids(t) ==
    IF t = 0 \/ t \in expired THEN "403" ELSE IF active THEN "200" ELSE "403"

\* Faulty variant: a deactivated account is answered like an unknown one.
AuthorizeNotFound(t) ==
    IF t = 0 \/ t \in expired THEN "401" ELSE IF active THEN "200" ELSE "404"

\* get_current_user, for the token that came with the request.
Authorize(t) ==
    IF t = 0 \/ t \in expired THEN "401" ELSE IF active THEN "200" ELSE "403"

AwaitsAnswer(t) ==
    task[t].pc \in {"sent", "retried", "me"} /\ task[t].answer = "none"

\* The account's password is right: a login fails for a deactivated account.
Serve(t) ==
    /\ AwaitsAnswer(t)
    /\ IF t \in Logins /\ task[t].pc = "sent" /\ active
          THEN /\ issued' = issued + 1
               /\ task' = [task EXCEPT ![t] =
                              [@ EXCEPT !.answer = "200", !.token = issued + 1]]
          ELSE /\ task' = [task EXCEPT ![t].answer =
                     IF task[t].pc = "sent" /\ t \in Logins THEN "403"
                     ELSE IF t \in Logouts THEN "204"
                     ELSE Authorize(task[t].token)]
               /\ UNCHANGED issued
    /\ UNCHANGED <<active, expired, cookie, token, refreshPromise, refresh,
                   pageVars, disturbed>>

\* POST /auth/refresh: a token for the account the cookie names.
ServeRefresh(i) ==
    /\ refresh[i].phase = "sent"
    /\ IF refresh[i].cookie /\ active
          THEN /\ issued' = issued + 1
               /\ refresh' = [refresh EXCEPT ![i] =
                     [@ EXCEPT !.phase = "answered", !.token = issued + 1]]
          ELSE /\ refresh' = [refresh EXCEPT ![i].phase = "answered"]
               /\ UNCHANGED issued
    /\ UNCHANGED <<active, expired, cookie, token, refreshPromise, task,
                   pageVars, disturbed>>

\* One disturbance in a behaviour (bound).
Disturb == ~disturbed /\ disturbed' = TRUE

\* fetch rejects, before or after the server handled the request, or the
\* answer is one that no caller looks into: 429 of the rate limiter, 5xx.
Reject(t) ==
    /\ task[t].pc \in {"sent", "retried", "me"}
    /\ task' = [task EXCEPT ![t].answer = "rejected"]
    /\ Disturb
    /\ UNCHANGED <<serverVars, cookie, token, refreshPromise, refresh, pageVars>>

\* .catch(() => false)
RejectRefresh(i) ==
    /\ refresh[i].phase # "unused"
    /\ refresh' = [refresh EXCEPT ![i] =
                      [phase |-> "answered", cookie |-> FALSE, token |-> 0]]
    /\ Disturb
    /\ UNCHANGED <<serverVars, cookie, token, refreshPromise, task, pageVars>>

\* An access token lasts for minutes: it does not expire on the way to the
\* tab, nor with the request it was issued for.
Expire(t) ==
    /\ t \notin expired
    /\ t = token \/ \E k \in Tasks : task[k].token = t
    /\ \A i \in Refreshes : refresh[i].token # t
    /\ \A k \in Tasks :
          task[k].token = t => task[k].pc \notin {"retried", "me"}
                                /\ ~(k \in Logins /\ task[k].pc = "sent")
    /\ expired' = expired \cup {t}
    /\ UNCHANGED <<active, issued, cookie, token, refreshPromise, refresh,
                   task, pageVars, disturbed>>

\* An administrator deactivates the account (bound: not back again).
Deactivate ==
    /\ active
    /\ active' = FALSE
    /\ Disturb
    /\ UNCHANGED <<issued, expired, cookie, token, refreshPromise, refresh,
                   task, pageVars>>

-----------------------------------------------------------------------------
(* What the tab does with an answer.                                       *)

Waiting(i) == {t \in Tasks : task[t].pc = "refreshing" /\ task[t].on = i}

Granted(i) == refresh[i].token # 0

\* accessToken once the answer is looked at
Held(i) == IF Granted(i) THEN refresh[i].token ELSE token

\* The callers in resumed go on, with accessToken as it is in carried: the
\* effect to refreshUser, a call to be sent again or to fail as it did.
Settle(i, resumed, carried, endsLoading) ==
    /\ refresh[i].phase = "answered"
    /\ token' = Held(i)
    /\ cookie' = (cookie \/ Granted(i))
    /\ task' = [t \in Tasks |->
                  IF t \notin resumed THEN task[t]
                  ELSE IF ~Granted(i) THEN Task("failed", None, 0)
                  ELSE [task[t] EXCEPT !.pc = IF t \in Boots THEN "me"
                                                             ELSE "retried",
                                       !.on = None,
                                       !.token = carried]]
    /\ loading' = (loading /\ ~endsLoading)
    /\ refreshPromise' = None
    /\ refresh' = [refresh EXCEPT ![i] = Unused]
    /\ UNCHANGED <<serverVars, user, reloads, disturbed>>

\* Faulty variant: one of the callers is resumed.
SettleForOne(i) ==
    \E t \in Waiting(i) : Settle(i, {t}, Held(i), ~Granted(i) /\ t \in Boots)

\* Faulty variant: the callers go on before setAccessToken.
SettleBeforeToken(i) ==
    Settle(i, Waiting(i), token, ~Granted(i) /\ Waiting(i) \cap Boots # {})

\* Faulty variant: the effect does not await refreshUser.
SettleEndsLoading(i) ==
    Settle(i, Waiting(i), Held(i), Waiting(i) \cap Boots # {})

\* The request's then, catch and finally, and all that await it.
SettleRefresh(i) ==
    Settle(i, Waiting(i), Held(i), ~Granted(i) /\ Waiting(i) \cap Boots # {})

End(t, pc) == task' = [task EXCEPT ![t] = Task(pc, None, 0)]

\* apiFetch has the first answer to a page's call.
Answered(c) ==
    /\ c \in Calls
    /\ task[c].pc = "sent"
    /\ task[c].answer # "none"
    /\ IF task[c].answer = "401"
          THEN AwaitRefresh(c)
          ELSE /\ End(c, IF task[c].answer = "200" THEN "done" ELSE "failed")
               /\ UNCHANGED <<refreshPromise, refresh>>
    /\ UNCHANGED <<serverVars, cookie, token, pageVars, disturbed>>

\* And the second, which is final.
AnsweredAgain(c) ==
    /\ task[c].pc = "retried"
    /\ task[c].answer # "none"
    /\ End(c, IF task[c].answer = "200" THEN "done" ELSE "failed")
    /\ UNCHANGED <<serverVars, cookie, token, refreshPromise, refresh,
                   pageVars, disturbed>>

\* login of auth.ts, then refreshUser's /auth/me.
LoggedIn(l) ==
    /\ l \in Logins
    /\ task[l].pc = "sent"
    /\ task[l].answer # "none"
    /\ IF task[l].answer = "200"
          THEN /\ cookie' = TRUE
               /\ token' = task[l].token
               /\ task' = [task EXCEPT ![l] =
                              [@ EXCEPT !.pc = "me", !.answer = "none"]]
          ELSE /\ End(l, "failed")
               /\ UNCHANGED <<cookie, token>>
    /\ UNCHANGED <<serverVars, refreshPromise, refresh, pageVars, disturbed>>

\* logout of auth.ts, then setUser(null).  When fetch rejects, neither.
LoggedOut(x) ==
    /\ x \in Logouts
    /\ task[x].pc = "sent"
    /\ task[x].answer # "none"
    /\ IF task[x].answer = "204"
          THEN /\ cookie' = FALSE
               /\ token' = 0
               /\ user' = FALSE
               /\ End(x, "done")
          ELSE /\ End(x, "failed")
               /\ UNCHANGED <<cookie, token, user>>
    /\ UNCHANGED <<serverVars, refreshPromise, refresh, loading, reloads,
                   disturbed>>

\* refreshUser has the answer of /auth/me, which apiFetch does not retry.
GotMe(t) ==
    /\ task[t].pc = "me"
    /\ task[t].answer # "none"
    /\ user' = (task[t].answer = "200")
    /\ loading' = (loading /\ t \notin Boots)
    /\ End(t, "done")
    /\ UNCHANGED <<serverVars, cookie, token, refreshPromise, refresh, reloads,
                   disturbed>>

\* The page is left and loaded anew.  A cookie that comes with an answer on
\* its way may still be set or deleted.
Reload ==
    LET inFlight(T) == \E t \in T : task[t].pc = "sent"
    IN  /\ reloads < MaxReloads
        /\ reloads' = reloads + 1
        /\ cookie' \in {cookie} \cup (IF inFlight(Logins) THEN {TRUE} ELSE {})
                              \cup (IF inFlight(Logouts) THEN {FALSE} ELSE {})
                              \cup {TRUE : i \in {j \in Refreshes : Granted(j)}}
        /\ token' = 0
        /\ refreshPromise' = None
        /\ refresh' = [i \in Refreshes |-> Unused]
        /\ task' = [t \in Tasks |->
                      IF t \in Boots THEN Task("idle", None, 0)
                      ELSE IF task[t].pc = "idle" \/ Settled(t) THEN task[t]
                      ELSE Task("gone", None, 0)]
        /\ user' = FALSE
        /\ loading' = TRUE
        /\ UNCHANGED <<serverVars, disturbed>>

-----------------------------------------------------------------------------

Deliver(t) ==
    Answered(t) \/ AnsweredAgain(t) \/ LoggedIn(t) \/ LoggedOut(t) \/ GotMe(t)

Next ==
    \/ \E b \in Boots : Boot(b)
    \/ \E t \in Tasks \ Boots : Send(t)
    \/ \E t \in Tasks : Serve(t) \/ Reject(t) \/ Deliver(t)
    \/ \E i \in Refreshes : ServeRefresh(i) \/ RejectRefresh(i) \/ SettleRefresh(i)
    \/ \E t \in 1..issued : Expire(t)
    \/ Deactivate
    \/ Reload

\* The effect runs, requests are handled and answers are delivered; nobody
\* has to click, and nothing has to fail.
Fairness ==
    /\ \A b \in Boots : WF_vars(Boot(b))
    /\ \A t \in Tasks : WF_vars(Serve(t) \/ Deliver(t))
    /\ WF_vars(\E i \in Refreshes : ServeRefresh(i) \/ SettleRefresh(i))

Spec == Init /\ [][Next]_vars /\ Fairness

-----------------------------------------------------------------------------
(* Properties.                                                             *)

\* However many callers need one, one refresh is in flight, and it is the one
\* that refreshPromise stands for.
OneRefreshAtATime ==
    \A i \in Refreshes : refresh[i].phase # "unused" => i = refreshPromise

\* A call that is sent again carries another token than the one it was
\* refused with.
RetriesCarryANewToken ==
    \A c \in Calls : task[c].pc = "retried" => task[c].token # task[c].refused

\* While the account is active, the cookie is there and the network works, no
\* call fails for an expired or a missing access token.
RefreshIsSilent ==
    (cookie /\ ~disturbed /\ \A t \in Logins \cup Logouts : task[t].pc = "idle")
        => \A c \in Calls : task[c].pc # "failed"

\* A reload does not log out: when loading ends, a visitor with the cookie of
\* an active account is shown as signed in.
SessionSurvivesReload ==
    (cookie /\ ~disturbed /\ \A t \in Logins \cup Logouts : task[t].pc = "idle")
        => loading \/ user

\* Every call that was sent is settled, also those that await a refresh, and
\* "Loading..." gives way to the page: the tab comes to rest again and again.
EveryCallSettles ==
    []<>(~loading /\ \A t \in Tasks : task[t].pc = "idle" \/ Settled(t))
=============================================================================
