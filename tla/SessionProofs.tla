---------------------------- MODULE SessionProofs ----------------------------
(***************************************************************************)
(* Proofs about Session, for any sets of tasks and of refresh requests and *)
(* any number of reloads.  Fairness plays no part in them.                 *)
(***************************************************************************)
EXTENDS Session, TLAPS

-----------------------------------------------------------------------------
(* What the steps do to the tasks and to the refresh requests.             *)

TaskStates ==
    [pc : {"idle", "refreshing", "sent", "retried", "me", "done", "failed",
           "gone"},
     on : Refreshes \cup {None}, token : 0..issued, refused : 0..issued,
     answer : Answers]

RefreshStates ==
    [phase : {"unused", "sent", "answered"}, cookie : BOOLEAN,
     token : 0..issued]

LEMMA TaskType ==
    ASSUME TypeOK
    PROVE  /\ task \in [Tasks -> TaskStates]
           /\ refresh \in [Refreshes -> RefreshStates]
           /\ \A t \in Tasks :
                 task[t] = [pc |-> task[t].pc, on |-> task[t].on,
                            token |-> task[t].token, refused |-> task[t].refused,
                            answer |-> task[t].answer]
           /\ \A i \in Refreshes :
                 refresh[i] = [phase |-> refresh[i].phase,
                               cookie |-> refresh[i].cookie,
                               token |-> refresh[i].token]
BY DEF TypeOK, TaskStates, RefreshStates

LEMMA AnswerOf ==
    ASSUME NEW r \in TaskStates, NEW a
    PROVE  [r EXCEPT !.answer = a] =
              [pc |-> r.pc, on |-> r.on, token |-> r.token,
               refused |-> r.refused, answer |-> a]
BY DEF TaskStates

LEMMA GrantOf ==
    ASSUME NEW r \in RefreshStates, NEW n
    PROVE  /\ [r EXCEPT !.phase = "answered"] =
                 [phase |-> "answered", cookie |-> r.cookie, token |-> r.token]
           /\ [r EXCEPT !.phase = "answered", !.token = n] =
                 [phase |-> "answered", cookie |-> r.cookie, token |-> n]
<1>1. [r EXCEPT !.phase = "answered"] =
         [phase |-> "answered", cookie |-> r.cookie, token |-> r.token]
  BY DEF RefreshStates
<1>2. ASSUME NEW c, NEW k
      PROVE  [[phase |-> "answered", cookie |-> c, token |-> k]
                 EXCEPT !.token = n] =
              [phase |-> "answered", cookie |-> c, token |-> n]
  OBVIOUS
<1> QED BY <1>1, <1>2

LEMMA ResumedAs ==
    ASSUME NEW r \in TaskStates, NEW pc, NEW on, NEW k
    PROVE  [r EXCEPT !.pc = pc, !.on = on, !.token = k] =
              [pc |-> pc, on |-> on, token |-> k, refused |-> r.refused,
               answer |-> r.answer]
<1>1. [r EXCEPT !.pc = pc] =
         [pc |-> pc, on |-> r.on, token |-> r.token, refused |-> r.refused,
          answer |-> r.answer]
  BY DEF TaskStates
<1>2. [[pc |-> pc, on |-> r.on, token |-> r.token, refused |-> r.refused,
        answer |-> r.answer] EXCEPT !.on = on] =
         [pc |-> pc, on |-> on, token |-> r.token, refused |-> r.refused,
          answer |-> r.answer]
  OBVIOUS
<1>3. [[pc |-> pc, on |-> on, token |-> r.token, refused |-> r.refused,
        answer |-> r.answer] EXCEPT !.token = k] =
         [pc |-> pc, on |-> on, token |-> k, refused |-> r.refused,
          answer |-> r.answer]
  OBVIOUS
<1> QED BY <1>1, <1>2, <1>3

\* What await refreshAccessToken() does, with its request or the one in flight.
LEMMA AwaitStep ==
    ASSUME TypeOK, NEW t \in Tasks, AwaitRefresh(t)
    PROVE  \E i \in Refreshes :
             /\ task' = [task EXCEPT ![t] =
                           [pc |-> "refreshing", on |-> i,
                            token |-> task[t].token, refused |-> task[t].token,
                            answer |-> "none"]]
             /\ refreshPromise' = i
             /\ \/ /\ refreshPromise = None
                   /\ refresh[i] = Unused
                   /\ refresh' = [refresh EXCEPT ![i] =
                                    [phase |-> "sent", cookie |-> cookie,
                                     token |-> 0]]
                \/ refreshPromise = i /\ refresh' = refresh
<1>1. task[t] = [pc |-> task[t].pc, on |-> task[t].on,
                 token |-> task[t].token, refused |-> task[t].refused,
                 answer |-> task[t].answer]
  BY TaskType
<1>2. ASSUME NEW i, NEW first \in BOOLEAN, Await(t, i, first)
      PROVE  /\ task' = [task EXCEPT ![t] =
                           [pc |-> "refreshing", on |-> i,
                            token |-> task[t].token, refused |-> task[t].token,
                            answer |-> "none"]]
             /\ refreshPromise' = i
  BY <1>1, <1>2 DEF Await, TypeOK
<1>3. CASE refreshPromise = None
  <2>1. PICK i \in Refreshes : Await(t, i, TRUE)
    BY <1>3 DEF AwaitRefresh
  <2> QED BY <1>2, <1>3, <2>1 DEF Await
<1>4. CASE refreshPromise # None
  <2>1. Await(t, refreshPromise, FALSE) /\ refreshPromise \in Refreshes
    BY <1>4 DEF AwaitRefresh, TypeOK
  <2> QED BY <1>2, <2>1 DEF Await
<1> QED BY <1>3, <1>4
-----------------------------------------------------------------------------
(* The inductive invariant.                                                *)

UnusedAreEmpty ==
    \A i \in Refreshes : refresh[i].phase = "unused" => refresh[i] = Unused

\* Until its answer is looked at, nobody has the token a refresh granted.
GrantsAreUnseen ==
    \A i \in Refreshes : refresh[i].token # 0 =>
        /\ refresh[i].phase = "answered"
        /\ refresh[i].token \notin expired
        /\ refresh[i].token # token
        /\ \A t \in Tasks : /\ task[t].token # refresh[i].token
                            /\ task[t].refused # refresh[i].token

\* Only the effect and the pages' calls await a refresh.
WhoWaits ==
    \A t \in Tasks : /\ task[t].pc = "refreshing" => t \in Boots \cup Calls
                     /\ task[t].pc = "me" => t \in Boots \cup Logins

BaseInv == /\ TypeOK /\ OneRefreshAtATime /\ UnusedAreEmpty /\ GrantsAreUnseen
           /\ WhoWaits /\ RetriesCarryANewToken

\* Nothing has failed, and nobody has clicked on log in or log out.
Quiet == ~disturbed /\ \A t \in Logins \cup Logouts : task[t].pc = "idle"

\* What the refreshes sent and got.
GoodRefreshes ==
    /\ active
    /\ \A i \in Refreshes :
          /\ refresh[i].phase # "unused" => refresh[i].cookie = cookie
          /\ refresh[i].phase = "answered" => (refresh[i].token # 0 <=> cookie)

\* A call or an effect that can no longer be refused: it has a good token.
GoodTask(t) ==
    /\ task[t].pc \in {"refreshing", "retried", "me"} =>
          task[t].answer \in {"none", "200"}
    /\ task[t].pc \in {"retried", "me"} =>
          task[t].token # 0 /\ task[t].token \notin expired

GoodCall(c) == /\ task[c].pc # "failed"
               /\ task[c].answer \in {"none", "200", "401"}

\* What the calls and the effect were answered.
GoodAnswers ==
    /\ \A t \in Boots \cup Calls : GoodTask(t)
    /\ \A c \in Calls : GoodCall(c)
    /\ loading \/ user

QuietInv == Quiet => /\ GoodRefreshes
                     /\ cookie => GoodAnswers

\* A task goes on, and no refresh does.
LEMMA TaskStep ==
    ASSUME BaseInv, NEW t \in Tasks, NEW s \in TaskStates',
           task' = [task EXCEPT ![t] = s],
           UNCHANGED <<expired, refresh, refreshPromise, reloads>>,
           issued' \in {issued, issued + 1},
           {active', cookie', user', loading', disturbed'} \subseteq BOOLEAN,
           token' \in {token, 0, s.token},
           s.token \in {0, token, task[t].token, issued + 1},
           s.refused \in {0, task[t].refused},
           s.pc # "refreshing",
           s.pc = "me" => t \in Boots \cup Logins,
           s.pc = "retried" => /\ task[t].pc = "retried"
                               /\ s.token = task[t].token
                               /\ s.refused = task[t].refused
    PROVE  BaseInv'
<1>1. TypeOK /\ issued \in Nat /\ issued' \in Nat /\ issued <= issued'
  BY DEF BaseInv, TypeOK
<1>2. /\ task'[t] = s
      /\ \A u \in Tasks : u # t => task'[u] = task[u]
  BY <1>1 DEF TypeOK
<1>3. TypeOK'
  <2>1. 0..issued \subseteq 0..issued' /\ 1..issued \subseteq 1..issued'
    BY <1>1
  <2>2. task' \in [Tasks -> TaskStates']
    <3>1. TaskStates \subseteq TaskStates'
      BY <2>1 DEF TaskStates
    <3> QED BY <1>1, <3>1, TaskType
  <2>3. refresh' \in [Refreshes -> RefreshStates']
    <3>1. RefreshStates \subseteq RefreshStates'
      BY <2>1 DEF RefreshStates
    <3> QED BY <1>1, <3>1, TaskType
  <2>4. token' \in 0..issued'
    BY <1>1, <2>1 DEF TypeOK, TaskStates
  <2> QED BY <1>1, <2>1, <2>2, <2>3, <2>4 DEF TypeOK, TaskStates, RefreshStates
<1>4. OneRefreshAtATime' /\ UnusedAreEmpty'
  BY DEF BaseInv, OneRefreshAtATime, UnusedAreEmpty
<1>5. GrantsAreUnseen'
  <2> SUFFICES ASSUME NEW i \in Refreshes, refresh[i].token # 0
               PROVE  /\ refresh[i].phase = "answered"
                      /\ refresh[i].token \notin expired
                      /\ refresh[i].token # token'
                      /\ \A u \in Tasks : /\ task'[u].token # refresh[i].token
                                          /\ task'[u].refused # refresh[i].token
    BY DEF GrantsAreUnseen
  <2>1. /\ refresh[i].phase = "answered"
        /\ refresh[i].token \notin expired
        /\ refresh[i].token # token
        /\ \A u \in Tasks : /\ task[u].token # refresh[i].token
                            /\ task[u].refused # refresh[i].token
    BY DEF BaseInv, GrantsAreUnseen
  <2>2. refresh[i].token \in 0..issued
    BY <1>1 DEF TypeOK
  <2>3. s.token # refresh[i].token /\ s.refused # refresh[i].token
    BY <1>1, <2>1, <2>2
  <2> QED BY <1>2, <2>1, <2>3
<1>6. WhoWaits'
  BY <1>2 DEF BaseInv, WhoWaits
<1>7. RetriesCarryANewToken'
  BY <1>2 DEF BaseInv, RetriesCarryANewToken, Tasks
<1> QED BY <1>3, <1>4, <1>5, <1>6, <1>7 DEF BaseInv

\* A task joins the refresh in flight, or sends one.
LEMMA AwaitBase ==
    ASSUME BaseInv, NEW t \in Boots \cup Calls, AwaitRefresh(t),
           UNCHANGED <<serverVars, cookie, token, pageVars, disturbed>>
    PROVE  BaseInv'
<1>1. TypeOK /\ t \in Tasks
  BY DEF BaseInv, Tasks
<1>2. PICK i \in Refreshes :
             /\ task' = [task EXCEPT ![t] =
                           [pc |-> "refreshing", on |-> i,
                            token |-> task[t].token, refused |-> task[t].token,
                            answer |-> "none"]]
             /\ refreshPromise' = i
             /\ \/ /\ refreshPromise = None
                   /\ refresh[i] = Unused
                   /\ refresh' = [refresh EXCEPT ![i] =
                                    [phase |-> "sent", cookie |-> cookie,
                                     token |-> 0]]
                \/ refreshPromise = i /\ refresh' = refresh
  BY <1>1, AwaitStep
<1>3. task'[t] = [pc |-> "refreshing", on |-> i, token |-> task[t].token,
                  refused |-> task[t].token, answer |-> "none"]
      /\ \A u \in Tasks : u # t => task'[u] = task[u]
  BY <1>1, <1>2 DEF TypeOK
<1>4. /\ \A j \in Refreshes : j # i => refresh'[j] = refresh[j]
      /\ \/ refresh'[i] = refresh[i]
         \/ refresh'[i] = [phase |-> "sent", cookie |-> cookie, token |-> 0]
  BY <1>1, <1>2 DEF TypeOK
<1>5. TypeOK'
  <2>1. task' \in [Tasks -> TaskStates]
    <3>1. [pc |-> "refreshing", on |-> i, token |-> task[t].token,
           refused |-> task[t].token, answer |-> "none"] \in TaskStates
      BY <1>1 DEF TypeOK, TaskStates, Answers
    <3> QED BY <1>1, <1>2, <3>1, TaskType
  <2>2. refresh' \in [Refreshes -> RefreshStates]
    <3>1. [phase |-> "sent", cookie |-> cookie, token |-> 0] \in RefreshStates
      BY <1>1 DEF TypeOK, RefreshStates
    <3> QED BY <1>1, <1>2, <3>1, TaskType
  <2> QED BY <1>1, <1>2, <2>1, <2>2
          DEF TypeOK, TaskStates, RefreshStates, serverVars, pageVars
<1>6. OneRefreshAtATime'
  <2>1. SUFFICES ASSUME NEW j \in Refreshes, refresh'[j].phase # "unused"
                 PROVE  j = i
    BY <1>2 DEF OneRefreshAtATime
  <2>2. CASE j # i
    <3>1. j = refreshPromise
      BY <1>4, <2>1, <2>2 DEF BaseInv, OneRefreshAtATime
    <3> QED BY <1>2, <2>2, <3>1, SessionAssumption
  <2> QED BY <2>2
<1>7. UnusedAreEmpty'
  BY <1>4 DEF BaseInv, UnusedAreEmpty
<1>8. GrantsAreUnseen'
  <2> SUFFICES ASSUME NEW j \in Refreshes, refresh'[j].token # 0
               PROVE  /\ refresh'[j].phase = "answered"
                      /\ refresh'[j].token \notin expired
                      /\ refresh'[j].token # token
                      /\ \A u \in Tasks : /\ task'[u].token # refresh'[j].token
                                          /\ task'[u].refused # refresh'[j].token
    BY DEF GrantsAreUnseen, serverVars
  <2>1. refresh'[j] = refresh[j]
    BY <1>4
  <2> QED BY <1>1, <1>3, <2>1 DEF BaseInv, GrantsAreUnseen
<1>9. WhoWaits' /\ RetriesCarryANewToken'
  BY <1>3 DEF BaseInv, WhoWaits, RetriesCarryANewToken, Tasks
<1> QED BY <1>5, <1>6, <1>7, <1>8, <1>9 DEF BaseInv

LEMMA EndBase ==
    ASSUME BaseInv, NEW t \in Tasks, NEW pc \in {"done", "failed"}, End(t, pc),
           UNCHANGED <<expired, issued, refresh, refreshPromise, reloads>>,
           {active', cookie', user', loading', disturbed'} \subseteq BOOLEAN,
           token' \in {token, 0}
    PROVE  BaseInv'
<1> DEFINE s == Task(pc, None, 0)
<1>1. s \in TaskStates'
  BY DEF BaseInv, TypeOK, Task, TaskStates, Answers
<1>2. s.pc = pc /\ s.token = 0 /\ s.refused = 0
  BY DEF Task
<1>3. task' = [task EXCEPT ![t] = s]
  BY DEF End
<1> HIDE DEF s
<1> QED BY <1>1, <1>2, <1>3, TaskStep

\* Whatever the tab sends or is answered, and whatever the server answers to
\* a task, the invariant holds.
LEMMA DeliverBase ==
    ASSUME BaseInv, NEW t \in Tasks,
           Send(t) \/ Serve(t) \/ Reject(t) \/ Deliver(t)
    PROVE  BaseInv'
<1>1. TypeOK /\ task[t] \in TaskStates
      /\ task[t] = [pc |-> task[t].pc, on |-> task[t].on,
                    token |-> task[t].token, refused |-> task[t].refused,
                    answer |-> task[t].answer]
  BY TaskType DEF BaseInv
<1>2. CASE Send(t)
  <2> DEFINE s == Task("sent", None, token)
  <2>1. s \in TaskStates' /\ s.pc = "sent" /\ s.token = token /\ s.refused = 0
    BY <1>1, <1>2 DEF Send, TypeOK, Task, TaskStates, Answers, serverVars
  <2>2. task' = [task EXCEPT ![t] = s]
    BY <1>2 DEF Send
  <2> HIDE DEF s
  <2> QED BY <1>1, <1>2, <2>1, <2>2, TaskStep DEF Send, TypeOK, serverVars, pageVars
<1>3. CASE Serve(t)
  <2>1. CASE t \in Logins /\ task[t].pc = "sent" /\ active
    <3> DEFINE s == [pc |-> task[t].pc, on |-> task[t].on,
                     token |-> issued + 1, refused |-> task[t].refused,
                     answer |-> "200"]
    <3>1. issued' = issued + 1
          /\ task' = [task EXCEPT ![t] =
                         [@ EXCEPT !.answer = "200", !.token = issued + 1]]
      BY <1>3, <2>1 DEF Serve
    <3>2. task' = [task EXCEPT ![t] = s]
      <4> DEFINE r == [pc |-> task[t].pc, on |-> task[t].on,
                       token |-> task[t].token, refused |-> task[t].refused,
                       answer |-> "200"]
      <4>1. [task[t] EXCEPT !.answer = "200"] = r
        BY <1>1, AnswerOf
      <4>2. [r EXCEPT !.token = issued + 1] = s
        OBVIOUS
      <4> QED BY <3>1, <4>1, <4>2
    <3>3. /\ s \in TaskStates' /\ s.pc = "sent" /\ s.token = issued + 1
          /\ s.refused = task[t].refused
      BY <1>1, <2>1, <3>1 DEF TaskStates, Answers, TypeOK
    <3> HIDE DEF s
    <3> QED BY <1>1, <1>3, <3>1, <3>2, <3>3, TaskStep DEF Serve, TypeOK, pageVars
  <2>2. CASE ~(t \in Logins /\ task[t].pc = "sent" /\ active)
    <3>1. PICK a \in Answers : task' = [task EXCEPT ![t].answer = a]
      BY <1>3, <2>2 DEF Serve, Answers, Authorize
    <3> DEFINE s == [pc |-> task[t].pc, on |-> task[t].on,
                     token |-> task[t].token, refused |-> task[t].refused,
                     answer |-> a]
    <3>2. task' = [task EXCEPT ![t] = s]
      BY <1>1, <3>1, AnswerOf
    <3>3. issued' = issued
      BY <1>3, <2>2 DEF Serve
    <3>4. /\ s \in TaskStates' /\ s.pc = task[t].pc /\ s.token = task[t].token
          /\ s.refused = task[t].refused
      BY <1>1, <3>3 DEF TaskStates
    <3>5. s.pc \in {"sent", "retried", "me"}
      BY <1>3, <3>4 DEF Serve, AwaitsAnswer
    <3> HIDE DEF s
    <3> QED BY <1>1, <1>3, <3>2, <3>3, <3>4, <3>5, TaskStep
            DEF Serve, TypeOK, BaseInv, WhoWaits, pageVars
  <2> QED BY <2>1, <2>2
<1>4. CASE Reject(t)
  <2> DEFINE s == [pc |-> task[t].pc, on |-> task[t].on,
                   token |-> task[t].token, refused |-> task[t].refused,
                   answer |-> "rejected"]
  <2>1. task' = [task EXCEPT ![t] = s]
    BY <1>1, <1>4, AnswerOf DEF Reject
  <2>2. UNCHANGED <<active, issued, expired>>
    BY <1>4 DEF Reject, serverVars
  <2>3. /\ s \in TaskStates' /\ s.pc = task[t].pc /\ s.token = task[t].token
        /\ s.refused = task[t].refused
    BY <1>1, <2>2 DEF TaskStates, Answers
  <2>4. s.pc \in {"sent", "retried", "me"}
    BY <1>4, <2>3 DEF Reject
  <2> HIDE DEF s
  <2> QED BY <1>1, <1>4, <2>1, <2>2, <2>3, <2>4, TaskStep
          DEF Reject, Disturb, TypeOK, BaseInv, WhoWaits, pageVars
<1>5. CASE Answered(t)
  <2>1. CASE task[t].answer = "401"
    BY <1>5, <2>1, AwaitBase DEF Answered
  <2>2. CASE task[t].answer # "401"
    <3>1. \E pc \in {"done", "failed"} : End(t, pc)
      BY <1>5, <2>2 DEF Answered
    <3>2. UNCHANGED <<refreshPromise, refresh>>
      BY <1>5, <2>2 DEF Answered
    <3> QED BY <1>1, <1>5, <3>1, <3>2, EndBase
            DEF Answered, TypeOK, serverVars, pageVars
  <2> QED BY <2>1, <2>2
<1>6. CASE AnsweredAgain(t)
  <2>1. \E pc \in {"done", "failed"} : End(t, pc)
    BY <1>6 DEF AnsweredAgain
  <2> QED BY <1>1, <1>6, <2>1, EndBase
          DEF AnsweredAgain, TypeOK, serverVars, pageVars
<1>7. CASE LoggedIn(t)
  <2>1. CASE task[t].answer = "200"
    <3> DEFINE s == [pc |-> "me", on |-> task[t].on,
                     token |-> task[t].token, refused |-> task[t].refused,
                     answer |-> "none"]
    <3>1. task' = [task EXCEPT ![t] = s]
      BY <1>1, <1>7, <2>1 DEF LoggedIn
    <3>2. UNCHANGED <<active, issued, expired>> /\ cookie' = TRUE
          /\ token' = task[t].token
      BY <1>7, <2>1 DEF LoggedIn, serverVars
    <3>3. /\ s \in TaskStates' /\ s.pc = "me" /\ s.token = task[t].token
          /\ s.refused = task[t].refused
      BY <1>1, <3>2 DEF TaskStates, Answers
    <3> HIDE DEF s
    <3> QED BY <1>1, <1>7, <3>1, <3>2, <3>3, TaskStep
            DEF LoggedIn, TypeOK, pageVars
  <2>2. CASE task[t].answer # "200"
    <3>1. End(t, "failed") /\ UNCHANGED <<cookie, token>>
      BY <1>7, <2>2 DEF LoggedIn
    <3> QED BY <1>1, <1>7, <3>1, EndBase DEF LoggedIn, TypeOK, serverVars, pageVars
  <2> QED BY <2>1, <2>2
<1>8. CASE LoggedOut(t)
  <2>1. \E pc \in {"done", "failed"} : End(t, pc)
    BY <1>8 DEF LoggedOut
  <2>2. /\ cookie' \in {cookie, FALSE} /\ token' \in {token, 0}
        /\ user' \in {user, FALSE}
    BY <1>8 DEF LoggedOut
  <2> QED BY <1>1, <1>8, <2>1, <2>2, EndBase DEF LoggedOut, TypeOK, serverVars
<1>9. CASE GotMe(t)
  <2>1. user' \in BOOLEAN /\ loading' \in BOOLEAN
    BY <1>9 DEF GotMe
  <2> QED BY <1>1, <1>9, <2>1, EndBase DEF GotMe, TypeOK, serverVars
<1> QED BY <1>2, <1>3, <1>4, <1>5, <1>6, <1>7, <1>8, <1>9 DEF Deliver

\* The server grants a token that nobody has, or none, or the fetch fails.
LEMMA RefreshBase ==
    ASSUME BaseInv, NEW i \in Refreshes, ServeRefresh(i) \/ RejectRefresh(i)
    PROVE  BaseInv'
<1>1. TypeOK /\ issued \in Nat /\ refresh \in [Refreshes -> RefreshStates]
      /\ refresh[i] = [phase |-> refresh[i].phase, cookie |-> refresh[i].cookie,
                       token |-> refresh[i].token]
      /\ task \in [Tasks -> TaskStates]
  BY TaskType DEF BaseInv, TypeOK
<1>2. /\ refresh[i].phase # "unused"
      /\ UNCHANGED <<active, expired, cookie, token, refreshPromise, task,
                     pageVars>>
      /\ disturbed' \in BOOLEAN
  BY <1>1 DEF ServeRefresh, RejectRefresh, Disturb, serverVars, TypeOK
<1>3. /\ \A j \in Refreshes : j # i => refresh'[j] = refresh[j]
      /\ refresh'[i] \in RefreshStates' /\ refresh'[i].phase = "answered"
      /\ DOMAIN refresh' = Refreshes
      /\ refresh' = [j \in Refreshes |-> refresh'[j]]
      /\ issued' \in {issued, issued + 1}
      /\ refresh'[i].token \in {0, refresh[i].token, issued + 1}
  <2>1. CASE ServeRefresh(i) /\ refresh[i].cookie /\ active
    <3> DEFINE s == [phase |-> "answered", cookie |-> refresh[i].cookie,
                     token |-> issued + 1]
    <3>1. issued' = issued + 1
          /\ refresh' = [refresh EXCEPT ![i] =
                [@ EXCEPT !.phase = "answered", !.token = issued + 1]]
      BY <2>1 DEF ServeRefresh
    <3>2. refresh' = [refresh EXCEPT ![i] = s]
      BY <1>1, <3>1, GrantOf
    <3>3. s \in RefreshStates' /\ s.phase = "answered" /\ s.token = issued + 1
      BY <1>1, <3>1 DEF RefreshStates
    <3> HIDE DEF s
    <3> QED BY <1>1, <3>1, <3>2, <3>3
  <2>2. CASE ServeRefresh(i) /\ ~(refresh[i].cookie /\ active)
    <3> DEFINE s == [phase |-> "answered", cookie |-> refresh[i].cookie,
                     token |-> refresh[i].token]
    <3>1. issued' = issued
          /\ refresh' = [refresh EXCEPT ![i].phase = "answered"]
      BY <2>2 DEF ServeRefresh
    <3>2. refresh' = [refresh EXCEPT ![i] = s]
      BY <1>1, <3>1, GrantOf
    <3>3. /\ s \in RefreshStates' /\ s.phase = "answered"
          /\ s.token = refresh[i].token
      BY <1>1, <3>1 DEF RefreshStates
    <3> HIDE DEF s
    <3> QED BY <1>1, <3>1, <3>2, <3>3
  <2>3. CASE RejectRefresh(i)
    <3> DEFINE s == [phase |-> "answered", cookie |-> FALSE, token |-> 0]
    <3>1. issued' = issued /\ refresh' = [refresh EXCEPT ![i] = s]
      BY <2>3 DEF RejectRefresh, serverVars
    <3>2. s \in RefreshStates' /\ s.phase = "answered" /\ s.token = 0
      BY <1>1, <3>1 DEF RefreshStates
    <3> HIDE DEF s
    <3> QED BY <1>1, <3>1, <3>2
  <2> QED BY <2>1, <2>2, <2>3
<1>6. TypeOK'
  <2>1. 0..issued \subseteq 0..issued' /\ 1..issued \subseteq 1..issued'
        /\ issued' \in Nat
    BY <1>1, <1>3
  <2>2. task' \in [Tasks -> TaskStates']
    <3>1. TaskStates \subseteq TaskStates'
      BY <2>1 DEF TaskStates
    <3> QED BY <1>1, <1>2, <3>1
  <2>3. refresh' \in [Refreshes -> RefreshStates']
    <3>1. RefreshStates \subseteq RefreshStates'
      BY <2>1 DEF RefreshStates
    <3> QED BY <1>1, <1>3, <3>1
  <2> QED BY <1>1, <1>2, <2>1, <2>2, <2>3
          DEF TypeOK, TaskStates, RefreshStates, pageVars
<1>7. OneRefreshAtATime' /\ UnusedAreEmpty'
  BY <1>2, <1>3 DEF BaseInv, OneRefreshAtATime, UnusedAreEmpty
<1>8. GrantsAreUnseen'
  <2> SUFFICES ASSUME NEW j \in Refreshes, refresh'[j].token # 0
               PROVE  /\ refresh'[j].phase = "answered"
                      /\ refresh'[j].token \notin expired
                      /\ refresh'[j].token # token
                      /\ \A u \in Tasks : /\ task[u].token # refresh'[j].token
                                          /\ task[u].refused # refresh'[j].token
    BY <1>2 DEF GrantsAreUnseen
  <2>1. CASE refresh'[j].token = refresh[j].token
    BY <1>3, <2>1 DEF BaseInv, GrantsAreUnseen
  <2>2. CASE refresh'[j].token = issued + 1
    <3>1. refresh'[j].phase = "answered"
      <4>1. refresh[j].token # issued + 1
        BY <1>1 DEF RefreshStates
      <4> QED BY <1>3, <2>2, <4>1
    <3>2. \A k \in 0..issued : k # issued + 1
      BY <1>1
    <3> QED BY <1>1, <2>2, <3>1, <3>2 DEF TypeOK
  <2> QED BY <1>3, <2>1, <2>2
<1>9. WhoWaits' /\ RetriesCarryANewToken'
  BY <1>2 DEF BaseInv, WhoWaits, RetriesCarryANewToken
<1> QED BY <1>6, <1>7, <1>8, <1>9 DEF BaseInv

\* All that await the refresh go on with what it granted.
LEMMA SettleBase ==
    ASSUME BaseInv, NEW i \in Refreshes, SettleRefresh(i)
    PROVE  BaseInv'
<1>1. TypeOK /\ task \in [Tasks -> TaskStates]
      /\ refresh \in [Refreshes -> RefreshStates]
  BY TaskType DEF BaseInv, TypeOK
<1>2. /\ token' = Held(i) /\ refreshPromise' = None
      /\ refresh' = [refresh EXCEPT ![i] = Unused]
      /\ UNCHANGED <<active, issued, expired, user, reloads, disturbed>>
      /\ cookie' \in BOOLEAN /\ loading' \in BOOLEAN
      /\ refresh[i].phase = "answered"
  BY DEF SettleRefresh, Settle, serverVars
<1>3. \A t \in Tasks :
         \/ task'[t] = task[t] /\ t \notin Waiting(i)
         \/ t \in Waiting(i) /\ ~Granted(i) /\ task'[t] = Task("failed", None, 0)
         \/ /\ t \in Waiting(i) /\ Granted(i)
            /\ task'[t] = [pc |-> IF t \in Boots THEN "me" ELSE "retried",
                           on |-> None, token |-> refresh[i].token,
                           refused |-> task[t].refused, answer |-> task[t].answer]
  <2> SUFFICES ASSUME NEW t \in Tasks, t \in Waiting(i), Granted(i)
               PROVE  task'[t] =
                          [pc |-> IF t \in Boots THEN "me" ELSE "retried",
                           on |-> None, token |-> refresh[i].token,
                           refused |-> task[t].refused, answer |-> task[t].answer]
    BY DEF SettleRefresh, Settle
  <2> DEFINE pc == IF t \in Boots THEN "me" ELSE "retried"
  <2>1. task'[t] = [task[t] EXCEPT !.pc = pc, !.on = None,
                                   !.token = refresh[i].token]
    BY DEF SettleRefresh, Settle, Held
  <2> HIDE DEF pc
  <2>2. task[t] \in TaskStates
    BY <1>1
  <2>3. [task[t] EXCEPT !.pc = pc, !.on = None, !.token = refresh[i].token] =
           [pc |-> pc, on |-> None, token |-> refresh[i].token,
            refused |-> task[t].refused, answer |-> task[t].answer]
    BY <2>2, ResumedAs
  <2> QED BY <2>1, <2>3 DEF pc
<1>4. DOMAIN task' = Tasks /\ task' = [t \in Tasks |-> task'[t]]
  BY DEF SettleRefresh, Settle
<1>5. TypeOK'
  <2>1. ASSUME NEW t \in Tasks PROVE task'[t] \in TaskStates
    <3>1. CASE task'[t] = task[t]
      BY <1>1, <3>1
    <3>2. CASE task'[t] = Task("failed", None, 0)
      BY <1>1, <3>2 DEF TypeOK, Task, TaskStates, Answers
    <3>3. CASE task'[t] = [pc |-> IF t \in Boots THEN "me" ELSE "retried",
                           on |-> None, token |-> refresh[i].token,
                           refused |-> task[t].refused, answer |-> task[t].answer]
      BY <1>1, <3>3 DEF TaskStates, RefreshStates
    <3> QED BY <1>3, <3>1, <3>2, <3>3
  <2>2. task' \in [Tasks -> TaskStates]
    BY <1>4, <2>1
  <2>3. refresh' \in [Refreshes -> RefreshStates]
    <3>1. Unused \in RefreshStates
      BY <1>1 DEF TypeOK, Unused, RefreshStates
    <3> QED BY <1>1, <1>2, <3>1
  <2>4. token' \in 0..issued
    BY <1>1, <1>2 DEF Held, TypeOK
  <2> QED BY <1>1, <1>2, <2>2, <2>3, <2>4 DEF TypeOK, TaskStates, RefreshStates
<1>6. \A j \in Refreshes : refresh'[j] = Unused
  BY <1>1, <1>2 DEF BaseInv, OneRefreshAtATime, UnusedAreEmpty
<1>7. OneRefreshAtATime' /\ UnusedAreEmpty' /\ GrantsAreUnseen'
  BY <1>6 DEF OneRefreshAtATime, UnusedAreEmpty, GrantsAreUnseen, Unused
<1>8. WhoWaits'
  <2> SUFFICES ASSUME NEW t \in Tasks
               PROVE  /\ task'[t].pc = "refreshing" => t \in Boots \cup Calls
                      /\ task'[t].pc = "me" => t \in Boots \cup Logins
    BY DEF WhoWaits
  <2>1. CASE task'[t] = task[t]
    BY <2>1 DEF BaseInv, WhoWaits
  <2>2. CASE task'[t] = Task("failed", None, 0)
    BY <2>2 DEF Task
  <2>3. CASE /\ t \in Waiting(i)
             /\ task'[t] = [pc |-> IF t \in Boots THEN "me" ELSE "retried",
                            on |-> None, token |-> refresh[i].token,
                            refused |-> task[t].refused, answer |-> task[t].answer]
    BY <2>3 DEF BaseInv, WhoWaits, Waiting
  <2> QED BY <1>3, <2>1, <2>2, <2>3
<1>9. RetriesCarryANewToken'
  <2> SUFFICES ASSUME NEW c \in Calls, task'[c].pc = "retried"
               PROVE  task'[c].token # task'[c].refused
    BY DEF RetriesCarryANewToken
  <2>1. c \in Tasks
    BY DEF Tasks
  <2>2. Granted(i) => task[c].refused # refresh[i].token
    BY <2>1 DEF BaseInv, GrantsAreUnseen, Granted
  <2>3. CASE task'[c] = task[c]
    BY <2>3 DEF BaseInv, RetriesCarryANewToken
  <2>4. CASE task'[c] = Task("failed", None, 0)
    BY <2>4 DEF Task
  <2>5. CASE /\ Granted(i)
             /\ task'[c] = [pc |-> IF c \in Boots THEN "me" ELSE "retried",
                            on |-> None, token |-> refresh[i].token,
                            refused |-> task[c].refused, answer |-> task[c].answer]
    BY <2>2, <2>5
  <2> QED BY <1>3, <2>1, <2>3, <2>4, <2>5
<1> QED BY <1>5, <1>7, <1>8, <1>9 DEF BaseInv

\* A token that expires has been seen; a reload forgets everything.
LEMMA RestBase ==
    ASSUME BaseInv,
           (\E t \in 1..issued : Expire(t)) \/ Deactivate \/ Reload
             \/ UNCHANGED vars
    PROVE  BaseInv'
<1>1. TypeOK
  BY DEF BaseInv
<1>2. ASSUME NEW t \in 1..issued, Expire(t)
      PROVE  BaseInv'
  <2>1. UNCHANGED <<active, issued, cookie, token, refreshPromise, refresh, task,
                    pageVars, disturbed>> /\ expired' = expired \cup {t}
        /\ \A i \in Refreshes : refresh[i].token # t
    BY <1>2 DEF Expire
  <2>2. TypeOK'
    BY <1>1, <2>1 DEF TypeOK, pageVars
  <2>3. GrantsAreUnseen'
    BY <2>1 DEF BaseInv, GrantsAreUnseen
  <2> QED BY <2>1, <2>2, <2>3
          DEF BaseInv, OneRefreshAtATime, UnusedAreEmpty, WhoWaits,
              RetriesCarryANewToken
<1>3. CASE Deactivate
  BY <1>3 DEF Deactivate, Disturb, BaseInv, TypeOK, OneRefreshAtATime, pageVars,
     UnusedAreEmpty, GrantsAreUnseen, WhoWaits, RetriesCarryANewToken
<1>4. CASE Reload
  <2>1. /\ token' = 0 /\ refreshPromise' = None
        /\ refresh' = [i \in Refreshes |-> Unused]
        /\ UNCHANGED <<active, issued, expired, disturbed>>
        /\ user' = FALSE /\ loading' = TRUE
        /\ reloads' \in 0..MaxReloads
    BY <1>1, <1>4, SessionAssumption DEF Reload, serverVars, TypeOK
  <2>2. cookie' \in BOOLEAN
    BY <1>1, <1>4 DEF Reload, TypeOK
  <2>3. /\ task' = [t \in Tasks |-> task'[t]]
        /\ \A t \in Tasks :
              \/ task'[t] \in {Task("idle", None, 0), Task("gone", None, 0)}
              \/ /\ task'[t] = task[t]
                 /\ task[t].pc \in {"idle", "done", "failed", "gone"}
    BY <1>4 DEF Reload, Settled
  <2>4. task' \in [Tasks -> TaskStates]
    <3>1. Task("idle", None, 0) \in TaskStates /\ Task("gone", None, 0) \in TaskStates
      BY <1>1 DEF TypeOK, Task, TaskStates, Answers
    <3> QED BY <1>1, <2>3, <3>1, TaskType
  <2>5. TypeOK'
    <3>1. Unused \in RefreshStates
      BY <1>1 DEF TypeOK, Unused, RefreshStates
    <3>2. refresh' \in [Refreshes -> RefreshStates]
      BY <2>1, <3>1
    <3>3. {active', cookie', user', loading', disturbed'} \subseteq BOOLEAN
      BY <1>1, <2>1, <2>2 DEF TypeOK
    <3>4. UNCHANGED <<TaskStates, RefreshStates>>
      BY <2>1 DEF TaskStates, RefreshStates
    <3> QED BY <1>1, <2>1, <2>4, <3>2, <3>3, <3>4
            DEF TypeOK, TaskStates, RefreshStates
  <2>6. WhoWaits' /\ RetriesCarryANewToken'
    BY <2>3 DEF WhoWaits, RetriesCarryANewToken, Task, Tasks
  <2> QED BY <2>1, <2>5, <2>6
          DEF BaseInv, OneRefreshAtATime, UnusedAreEmpty, GrantsAreUnseen, Unused
<1>5. CASE UNCHANGED vars
  BY <1>5 DEF vars, BaseInv, TypeOK, OneRefreshAtATime, UnusedAreEmpty,
     GrantsAreUnseen, WhoWaits, RetriesCarryANewToken
<1> QED BY <1>2, <1>3, <1>4, <1>5

\* The inductive invariant that the theorems below share.
THEOREM BaseInvariance == Spec => []BaseInv
<1>1. Init => BaseInv
  <2> SUFFICES ASSUME Init PROVE BaseInv
    OBVIOUS
  <2>1. TypeOK
    <3>1. Unused \in RefreshStates /\ Task("idle", None, 0) \in TaskStates
      BY DEF Init, Unused, RefreshStates, Task, TaskStates, Answers
    <3>2. /\ refresh \in [Refreshes -> RefreshStates]
          /\ task \in [Tasks -> TaskStates]
      BY <3>1 DEF Init
    <3>3. {active, cookie, user, loading, disturbed} \subseteq BOOLEAN
      BY DEF Init
    <3>4. 0 \in 0..MaxReloads /\ 0 \in 0..issued
      BY SessionAssumption DEF Init
    <3> QED BY <3>2, <3>3, <3>4
            DEF Init, TypeOK, RefreshStates, TaskStates
  <2> QED BY <2>1 DEF Init, BaseInv, OneRefreshAtATime, UnusedAreEmpty,
          GrantsAreUnseen, WhoWaits, RetriesCarryANewToken, Unused, Task, Tasks
<1>2. BaseInv /\ [Next]_vars => BaseInv'
  <2> SUFFICES ASSUME BaseInv, [Next]_vars PROVE BaseInv'
    OBVIOUS
  <2>1. ASSUME NEW b \in Boots, Boot(b) PROVE BaseInv'
    BY <2>1, AwaitBase DEF Boot
  <2> QED BY <2>1, DeliverBase, RefreshBase, SettleBase, RestBase DEF Next
<1> QED BY <1>1, <1>2, PTL DEF Spec

\* Types, for any tasks and refreshes: the tokens are issued ones.
THEOREM TypeCorrectness == Spec => []TypeOK
<1>1. BaseInv => TypeOK
  BY DEF BaseInv
<1> QED BY <1>1, BaseInvariance, PTL

\* However many callers need a refresh at the same time, one is in flight.
THEOREM RefreshesAreShared == Spec => []OneRefreshAtATime
<1>1. BaseInv => OneRefreshAtATime
  BY DEF BaseInv
<1> QED BY <1>1, BaseInvariance, PTL

\* A call is not sent again with the token it was refused with, whichever
\* refresh it joined and however late.
THEOREM RetriesAreNotVain == Spec => []RetriesCarryANewToken
<1>1. BaseInv => RetriesCarryANewToken
  BY DEF BaseInv
<1> QED BY <1>1, BaseInvariance, PTL

-----------------------------------------------------------------------------
(* As long as nothing fails and nobody logs in or out.                     *)

\* A step of one task that was not idle, or is a page's.
LEMMA OneTaskStep ==
    ASSUME BaseInv, NEW t \in Tasks, Send(t) \/ Serve(t) \/ Reject(t) \/ Deliver(t)
    PROVE  /\ \A u \in Tasks : u # t => task'[u] = task[u]
           /\ task'[t].pc # "idle"
<1>1. TypeOK /\ task \in [Tasks -> TaskStates]
  BY TaskType DEF BaseInv
<1>2. CASE Send(t)
  BY <1>1, <1>2 DEF Send, Task
<1>3. CASE Serve(t) \/ Reject(t)
  BY <1>1, <1>3 DEF Serve, AwaitsAnswer, Reject, TaskStates
<1>4. ASSUME NEW pc \in {"done", "failed"}, End(t, pc)
      PROVE  /\ \A u \in Tasks : u # t => task'[u] = task[u]
             /\ task'[t].pc # "idle"
  BY <1>1, <1>4 DEF End, Task
<1>5. CASE Answered(t) /\ AwaitRefresh(t)
  BY <1>1, <1>5, AwaitStep
<1>6. CASE LoggedIn(t) /\ task[t].answer = "200"
  BY <1>1, <1>6 DEF LoggedIn, TaskStates
<1> QED BY <1>2, <1>3, <1>4, <1>5, <1>6
        DEF Deliver, Answered, AnsweredAgain, LoggedIn, LoggedOut, GotMe

LEMMA QuietBefore ==
    ASSUME BaseInv, [Next]_vars, Quiet'
    PROVE  Quiet
<1>1. TypeOK /\ task \in [Tasks -> TaskStates]
  BY TaskType DEF BaseInv
<1>2. ~disturbed
  BY DEF Quiet, Next, vars, Boot, Send, Serve, Reject, Deliver, Answered,
     AnsweredAgain, LoggedIn, LoggedOut, GotMe, ServeRefresh, RejectRefresh,
     SettleRefresh, Settle, Expire, Deactivate, Reload, Disturb
<1> SUFFICES ASSUME NEW x \in Logins \cup Logouts
             PROVE  task[x].pc = "idle"
  BY <1>2 DEF Quiet
<1>3. task'[x].pc = "idle" /\ x \in Tasks /\ x \notin Boots
  BY SessionAssumption DEF Quiet, Tasks
<1>4. task[x].pc = "idle"
  <2>1. ASSUME NEW t \in Tasks, Send(t) \/ Serve(t) \/ Reject(t) \/ Deliver(t)
        PROVE  task[x].pc = "idle"
    BY <1>3, <2>1, OneTaskStep
  <2>2. ASSUME NEW b \in Boots, Boot(b)
        PROVE  task[x].pc = "idle"
    <3>1. b \in Tasks /\ b # x
      BY <1>3 DEF Tasks
    <3> QED BY <1>1, <1>3, <2>2, <3>1, AwaitStep DEF Boot
  <2>3. ASSUME NEW i \in Refreshes, SettleRefresh(i)
        PROVE  task[x].pc = "idle"
    <3>1. x \notin Waiting(i)
      BY <1>3, SessionAssumption DEF BaseInv, WhoWaits, Waiting
    <3> QED BY <1>3, <2>3, <3>1 DEF SettleRefresh, Settle
  <2>4. CASE Reload
    <3>1. task'[x] = task[x] \/ task'[x] = Task("gone", None, 0)
      BY <1>3, <2>4 DEF Reload
    <3> QED BY <1>3, <3>1 DEF Task
  <2>5. CASE UNCHANGED task
    BY <1>3, <2>5
  <2> QED BY <2>1, <2>2, <2>3, <2>4, <2>5
          DEF Next, vars, ServeRefresh, RejectRefresh, Expire, Deactivate
<1> QED BY <1>4

\* A task that awaits a refresh is in good order.
LEMMA AwaitQuiet ==
    ASSUME BaseInv, Quiet, QuietInv, NEW t \in Boots \cup Calls, AwaitRefresh(t),
           UNCHANGED <<serverVars, cookie, token, pageVars, disturbed>>
    PROVE  QuietInv'
<1>1. TypeOK /\ t \in Tasks /\ refresh \in [Refreshes -> RefreshStates]
      /\ task \in [Tasks -> TaskStates]
  BY TaskType DEF BaseInv, Tasks
<1>2. PICK i \in Refreshes :
             /\ task' = [task EXCEPT ![t] =
                           [pc |-> "refreshing", on |-> i,
                            token |-> task[t].token, refused |-> task[t].token,
                            answer |-> "none"]]
             /\ \/ refresh' = [refresh EXCEPT ![i] =
                                 [phase |-> "sent", cookie |-> cookie,
                                  token |-> 0]]
                \/ refresh' = refresh
  BY <1>1, AwaitStep
<1>3. task'[t].pc = "refreshing" /\ task'[t].answer = "none"
      /\ \A u \in Tasks : u # t => task'[u] = task[u]
  BY <1>1, <1>2
<1>4. GoodRefreshes'
  <2>1. \A j \in Refreshes : \/ refresh'[j] = refresh[j]
                             \/ refresh'[j].phase = "sent" /\ refresh'[j].cookie = cookie
    BY <1>1, <1>2
  <2> QED BY <2>1 DEF QuietInv, GoodRefreshes, serverVars
<1>5. cookie => GoodAnswers'
  <2>1. UNCHANGED <<expired, loading, user>>
    BY DEF serverVars, pageVars
  <2> QED BY <1>3, <2>1 DEF QuietInv, GoodAnswers, GoodTask, GoodCall, Tasks
<1> QED BY <1>4, <1>5 DEF QuietInv

\* So is one that goes on by itself.
LEMMA TaskQuiet ==
    ASSUME BaseInv, Quiet, QuietInv, NEW t \in Tasks,
           UNCHANGED <<active, expired, cookie, refresh>>,
           \A u \in Tasks : u # t => task'[u] = task[u],
           cookie => /\ t \in Boots \cup Calls => GoodTask(t)'
                     /\ t \in Calls => GoodCall(t)'
                     /\ loading' \/ user'
    PROVE  QuietInv'
<1>1. GoodRefreshes'
  BY DEF QuietInv, GoodRefreshes
<1>2. cookie => GoodAnswers'
  BY DEF QuietInv, GoodAnswers, GoodTask, GoodCall, Tasks
<1> QED BY <1>1, <1>2 DEF QuietInv

\* The tab and the server, while it stays quiet.
LEMMA DeliverQuiet ==
    ASSUME BaseInv, Quiet, Quiet', QuietInv, NEW t \in Tasks,
           Send(t) \/ Serve(t) \/ Reject(t) \/ Deliver(t)
    PROVE  QuietInv'
<1>1. /\ TypeOK /\ task \in [Tasks -> TaskStates]
      /\ \A u \in Tasks : u # t => task'[u] = task[u]
      /\ t \notin Logins \cup Logouts
      /\ t \in Boots \cup Calls
  BY TaskType, OneTaskStep DEF BaseInv, Quiet, Tasks
<1>2. /\ active
      /\ cookie => /\ GoodTask(t)
                   /\ t \in Calls => GoodCall(t)
                   /\ loading \/ user
  BY <1>1 DEF QuietInv, GoodRefreshes, GoodAnswers
<1>3. CASE Send(t)
  <2>1. task'[t].pc = "sent" /\ task'[t].answer = "none"
    BY <1>1, <1>3 DEF Send, Task
  <2> QED BY <1>1, <1>2, <1>3, <2>1, TaskQuiet
          DEF Send, serverVars, pageVars, GoodTask, GoodCall
<1>4. CASE Serve(t)
  <2>1. /\ task' = [task EXCEPT ![t].answer =
                       IF t \in Logouts THEN "204" ELSE Authorize(task[t].token)]
        /\ UNCHANGED <<active, expired, cookie, refresh, loading, user>>
    BY <1>1, <1>4 DEF Serve, pageVars
  <2>2. /\ task'[t].pc = task[t].pc /\ task'[t].token = task[t].token
        /\ task'[t].answer = Authorize(task[t].token)
        /\ task[t].pc # "refreshing"
    BY <1>1, <1>4, <2>1 DEF TaskStates, Serve, AwaitsAnswer
  <2>3. /\ Authorize(task[t].token) \in {"200", "401"}
        /\ task[t].token # 0 /\ task[t].token \notin expired =>
              Authorize(task[t].token) = "200"
    BY <1>2 DEF Authorize
  <2>4. cookie => /\ GoodTask(t)'
                  /\ t \in Calls => GoodCall(t)'
                  /\ loading' \/ user'
    BY <1>2, <2>1, <2>2, <2>3 DEF GoodTask, GoodCall
  <2> QED BY <1>1, <2>1, <2>4, TaskQuiet
<1>5. CASE Reject(t)
  BY <1>5 DEF Reject, Disturb, Quiet
<1>6. ASSUME NEW pc \in {"done", "failed"}, End(t, pc),
             UNCHANGED <<active, expired, cookie, refresh>>,
             cookie => (t \in Calls => pc = "done") /\ (loading' \/ user')
      PROVE  QuietInv'
  <2>1. task'[t].pc = pc /\ task'[t].answer = "none"
    BY <1>1, <1>6 DEF End, Task
  <2> QED BY <1>1, <1>6, <2>1, TaskQuiet DEF GoodTask, GoodCall
<1>7. CASE Answered(t)
  <2>1. CASE task[t].answer = "401"
    BY <1>7, <2>1, AwaitQuiet DEF Answered
  <2>2. CASE task[t].answer # "401"
    <3>1. \E pc \in {"done", "failed"} :
             End(t, pc) /\ (task[t].answer = "200" => pc = "done")
      BY <1>7, <2>2 DEF Answered
    <3>2. cookie => task[t].answer = "200"
      BY <1>2, <1>7, <2>2 DEF Answered, GoodCall
    <3>3. UNCHANGED <<active, expired, cookie, refresh, loading, user>>
      BY <1>7, <2>2 DEF Answered, serverVars, pageVars
    <3> QED BY <1>2, <1>6, <3>1, <3>2, <3>3
  <2> QED BY <2>1, <2>2
<1>8. CASE AnsweredAgain(t)
  <2>1. \E pc \in {"done", "failed"} :
           End(t, pc) /\ (task[t].answer = "200" => pc = "done")
    BY <1>8 DEF AnsweredAgain
  <2>2. cookie => task[t].answer = "200"
    BY <1>2, <1>8 DEF AnsweredAgain, GoodTask
  <2>3. UNCHANGED <<active, expired, cookie, refresh, loading, user>>
    BY <1>8 DEF AnsweredAgain, serverVars, pageVars
  <2> QED BY <1>2, <1>6, <2>1, <2>2, <2>3
<1>9. CASE GotMe(t)
  <2>1. cookie => task[t].answer = "200"
    BY <1>2, <1>9 DEF GotMe, GoodTask
  <2>2. cookie => user'
    BY <1>9, <2>1 DEF GotMe
  <2> QED BY <1>6, <1>9, <2>2 DEF GotMe, serverVars
<1> QED BY <1>1, <1>3, <1>4, <1>5, <1>7, <1>8, <1>9
        DEF Deliver, LoggedIn, LoggedOut

\* A refresh is granted when the cookie is there, and so are its callers.
LEMMA RefreshQuiet ==
    ASSUME BaseInv, Quiet, Quiet', QuietInv, NEW i \in Refreshes,
           ServeRefresh(i) \/ RejectRefresh(i) \/ SettleRefresh(i)
    PROVE  QuietInv'
<1>1. /\ TypeOK /\ task \in [Tasks -> TaskStates]
      /\ refresh \in [Refreshes -> RefreshStates]
      /\ issued \in Nat
      /\ GoodRefreshes /\ (cookie => GoodAnswers)
  BY TaskType DEF BaseInv, TypeOK, QuietInv
<1>2. CASE ServeRefresh(i)
  <2>1. /\ \A j \in Refreshes : j # i => refresh'[j] = refresh[j]
        /\ UNCHANGED <<active, expired, cookie, task, loading, user>>
    BY <1>1, <1>2 DEF ServeRefresh, pageVars
  <2>2. refresh[i].phase = "sent" /\ refresh[i].cookie = cookie
    BY <1>1, <1>2 DEF ServeRefresh, GoodRefreshes
  <2>3. /\ refresh'[i].cookie = cookie
        /\ refresh'[i].token # 0 <=> cookie
    <3>1. CASE cookie
      <4>1. refresh'[i] = [refresh[i] EXCEPT !.phase = "answered",
                                             !.token = issued + 1]
        BY <1>1, <1>2, <2>2, <3>1 DEF ServeRefresh, GoodRefreshes
      <4>2. refresh'[i] = [phase |-> "answered", cookie |-> refresh[i].cookie,
                           token |-> issued + 1]
        BY <1>1, <4>1, GrantOf
      <4> QED BY <1>1, <2>2, <3>1, <4>2
    <3>2. CASE ~cookie
      <4>1. refresh'[i] = [refresh[i] EXCEPT !.phase = "answered"]
        BY <1>1, <1>2, <2>2, <3>2 DEF ServeRefresh
      <4>2. refresh[i].token = 0
        BY <2>2 DEF BaseInv, GrantsAreUnseen
      <4> QED BY <1>1, <2>2, <3>2, <4>1, <4>2 DEF RefreshStates
    <3> QED BY <3>1, <3>2
  <2>4. GoodRefreshes'
    BY <1>1, <2>1, <2>3 DEF GoodRefreshes
  <2>5. cookie => GoodAnswers'
    BY <1>1, <2>1 DEF GoodAnswers, GoodTask, GoodCall
  <2> QED BY <2>1, <2>4, <2>5 DEF QuietInv
<1>3. CASE RejectRefresh(i)
  BY <1>3 DEF RejectRefresh, Disturb, Quiet
<1>4. CASE SettleRefresh(i)
  <2>1. /\ refresh[i].phase = "answered"
        /\ refresh' = [refresh EXCEPT ![i] = Unused]
        /\ cookie' = (cookie \/ Granted(i))
        /\ UNCHANGED <<active, expired, user>>
        /\ Granted(i) => loading' = loading
    BY <1>1, <1>4 DEF SettleRefresh, Settle, serverVars, TypeOK
  <2>2. Granted(i) <=> cookie
    BY <1>1, <2>1 DEF GoodRefreshes, Granted
  <2>3. GoodRefreshes'
    <3>1. \A j \in Refreshes : refresh'[j] = Unused
      BY <1>1, <2>1 DEF BaseInv, OneRefreshAtATime, UnusedAreEmpty
    <3> QED BY <1>1, <2>1, <3>1 DEF GoodRefreshes, Unused
  <2>4. ASSUME cookie
        PROVE  GoodAnswers'
    <3>1. Granted(i) /\ refresh[i].token # 0 /\ refresh[i].token \notin expired
      BY <2>2, <2>4 DEF Granted, BaseInv, GrantsAreUnseen
    <3>2. ASSUME NEW t \in Tasks
          PROVE  \/ task'[t] = task[t]
                 \/ /\ task[t].pc = "refreshing"
                    /\ task'[t].pc \in {"me", "retried"}
                    /\ task'[t].token = refresh[i].token
                    /\ task'[t].answer = task[t].answer
      <4> DEFINE pc == IF t \in Boots THEN "me" ELSE "retried"
      <4>1. pc \in {"me", "retried"}
        OBVIOUS
      <4>2. CASE t \in Waiting(i)
        <5>1. task'[t] = [task[t] EXCEPT !.pc = pc, !.on = None,
                                         !.token = refresh[i].token]
          BY <1>4, <3>1, <4>2 DEF SettleRefresh, Settle, Held
        <5> HIDE DEF pc
        <5>2. task'[t] = [pc |-> pc, on |-> None, token |-> refresh[i].token,
                          refused |-> task[t].refused, answer |-> task[t].answer]
          <6>1. task[t] \in TaskStates
            BY <1>1
          <6>2. [task[t] EXCEPT !.pc = pc, !.on = None, !.token = refresh[i].token]
                 = [pc |-> pc, on |-> None, token |-> refresh[i].token,
                    refused |-> task[t].refused, answer |-> task[t].answer]
            BY <6>1, ResumedAs
          <6> QED BY <5>1, <6>2
        <5> QED BY <4>1, <4>2, <5>2 DEF Waiting
      <4>3. CASE t \notin Waiting(i)
        BY <1>4, <4>3 DEF SettleRefresh, Settle
      <4> QED BY <4>2, <4>3
    <3>3. ASSUME NEW t \in Boots \cup Calls PROVE GoodTask(t)'
      BY <1>1, <2>1, <2>4, <3>1, <3>2 DEF GoodAnswers, GoodTask, Tasks
    <3>4. ASSUME NEW c \in Calls PROVE GoodCall(c)'
      BY <1>1, <2>4, <3>2 DEF GoodAnswers, GoodCall, Tasks
    <3> QED BY <1>1, <2>1, <2>4, <3>1, <3>3, <3>4 DEF GoodAnswers
  <2> QED BY <2>1, <2>2, <2>3, <2>4 DEF QuietInv
<1> QED BY <1>2, <1>3, <1>4

\* A reload starts over, and a token that a call is sent again with does not
\* expire on the way.
LEMMA RestQuiet ==
    ASSUME BaseInv, Quiet, Quiet', QuietInv,
           (\E t \in 1..issued : Expire(t)) \/ Deactivate \/ Reload
             \/ UNCHANGED vars
    PROVE  QuietInv'
<1>1. /\ TypeOK /\ GoodRefreshes /\ (cookie => GoodAnswers)
  BY DEF BaseInv, QuietInv
<1>2. ASSUME NEW t \in 1..issued, Expire(t)
      PROVE  QuietInv'
  <2>1. /\ UNCHANGED <<active, cookie, refresh, task, loading, user>>
        /\ expired' = expired \cup {t}
        /\ \A k \in Tasks :
              task[k].token = t => task[k].pc \notin {"retried", "me"}
    BY <1>2 DEF Expire, pageVars
  <2>2. cookie => \A k \in Boots \cup Calls : GoodTask(k)'
    BY <1>1, <2>1 DEF GoodAnswers, GoodTask, Tasks
  <2> QED BY <1>1, <2>1, <2>2 DEF QuietInv, GoodRefreshes, GoodAnswers, GoodCall
<1>3. CASE Deactivate
  BY <1>3 DEF Deactivate, Disturb, Quiet
<1>4. CASE Reload
  <2>1. \A t \in Logins \cup Logouts : task[t].pc # "sent"
    BY DEF Quiet
  <2>2. \A j \in Refreshes : Granted(j) => cookie
    BY <1>1 DEF BaseInv, GrantsAreUnseen, GoodRefreshes, Granted
  <2>3. cookie' = cookie
    BY <1>1, <1>4, <2>1, <2>2 DEF Reload, TypeOK
  <2>4. GoodRefreshes'
    BY <1>1, <1>4 DEF Reload, serverVars, GoodRefreshes, Unused
  <2>5. ASSUME cookie
        PROVE  GoodAnswers'
    <3>1. \A t \in Tasks :
             \/ task'[t] \in {Task("idle", None, 0), Task("gone", None, 0)}
             \/ /\ task'[t] = task[t]
                /\ task[t].pc \in {"idle", "done", "failed", "gone"}
      BY <1>4 DEF Reload, Settled
    <3>2. \A t \in Boots \cup Calls : GoodTask(t)'
      BY <3>1 DEF GoodTask, Task, Tasks
    <3>3. \A c \in Calls : GoodCall(c)'
      BY <1>1, <2>5, <3>1 DEF GoodAnswers, GoodCall, Task, Tasks
    <3> QED BY <1>4, <3>2, <3>3 DEF Reload, GoodAnswers
  <2> QED BY <2>3, <2>4, <2>5 DEF QuietInv
<1>5. CASE UNCHANGED vars
  BY <1>1, <1>5 DEF vars, QuietInv, GoodRefreshes, GoodAnswers, GoodTask, GoodCall
<1> QED BY <1>2, <1>3, <1>4, <1>5

\* The inductive invariant of the next two theorems.
THEOREM QuietInvariance == Spec => []QuietInv
<1>1. Init => QuietInv
  BY DEF Init, QuietInv, GoodRefreshes, GoodAnswers, GoodTask, GoodCall, Tasks,
     Unused, Task
<1>2. BaseInv /\ QuietInv /\ [Next]_vars => QuietInv'
  <2> SUFFICES ASSUME BaseInv, QuietInv, [Next]_vars, Quiet' PROVE QuietInv'
    BY DEF QuietInv
  <2>1. Quiet
    BY QuietBefore
  <2>2. ASSUME NEW b \in Boots, Boot(b) PROVE QuietInv'
    BY <2>1, <2>2, AwaitQuiet DEF Boot
  <2> QED BY <2>1, <2>2, DeliverQuiet, RefreshQuiet, RestQuiet DEF Next, Tasks
<1> QED BY <1>1, <1>2, BaseInvariance, PTL DEF Spec

\* An access token that is missing or that expired is replaced without the
\* visitor noticing, as long as the cookie is there and nothing else fails.
THEOREM ExpiryIsInvisible == Spec => []RefreshIsSilent
<1>1. QuietInv => RefreshIsSilent
  BY DEF QuietInv, Quiet, GoodAnswers, GoodCall, RefreshIsSilent
<1> QED BY <1>1, QuietInvariance, PTL

\* Nor does a reload, in which the access token is lost, log the visitor out.
THEOREM ReloadsKeepTheSession == Spec => []SessionSurvivesReload
<1>1. QuietInv => SessionSurvivesReload
  BY DEF QuietInv, Quiet, GoodAnswers, SessionSurvivesReload
<1> QED BY <1>1, QuietInvariance, PTL
===============================================================================
