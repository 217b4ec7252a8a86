--------------------------- MODULE LoadGenProofs ---------------------------
(***************************************************************************)
(* The load generator for any number of threads, pollers and uploads, and  *)
(* every rate, poll timeout and poll interval.                             *)
(***************************************************************************)
EXTENDS LoadGen, FiniteSetTheorems, TLAPS

(* A thread at work has something to work on.                              *)
AtWork ==
    /\ \A u \in Uploaders : upc[u] \in {"wait", "post"} => task[u] \in Tasks
    /\ \A p \in Pollers : ppc[p] # "idle" => job[p] \in Tasks

TypeInv == LoadTypeOK /\ AtWork

(* The constants in the form the steps below use.                          *)
LEMMA ConstantTypes ==
    /\ Cardinality(Uploaders) \in Nat /\ Total \in Nat
    /\ Period \in Nat /\ RequestMax \in Nat /\ PollTimeout \in Nat
    /\ PollInterval \in Nat /\ PollInterval > 0
BY LoadAssumption, FS_CardinalityType

LEMMA Ranges ==
    /\ Tasks \subseteq 1..Never /\ Never \in 1..Never
    /\ \A n \in Nat : n < Total => n + 1 \in Tasks
BY ConstantTypes DEF Tasks, Never

(* What the service answers is what the life cycle of a job allows.        *)
LEMMA ServiceType ==
    ASSUME TypeInv, NEW i \in Tasks,
           \/ Service!Submit(i) \/ Service!Start(i)
           \/ \E s \in Terminal : Service!Settle(i, s)
    PROVE  /\ status' \in [Tasks -> Statuses]
           /\ settled' \in SUBSET Tasks
<1>1. {"PENDING", "PROCESSING"} \cup Terminal \subseteq Statuses
  BY DEF Statuses
<1>2. settled' \in SUBSET Tasks
  BY DEF TypeInv, LoadTypeOK, Service!Submit, Service!Start, Service!Settle
<1>3. \E s \in Statuses : status' = [status EXCEPT ![i] = s]
  BY <1>1 DEF Service!Submit, Service!Start, Service!Settle
<1> QED BY <1>2, <1>3 DEF TypeInv, LoadTypeOK

(* A step of an upload thread.                                             *)
LEMMA UploadType ==
    ASSUME TypeInv, NEW u \in Uploaders, Upload(u)
    PROVE  TypeInv'
<1> USE ConstantTypes, Ranges
    DEF TypeInv, LoadTypeOK, AtWork, pollVars, followVars, serviceVars
<1>1. CASE GetTask(u)
  <2>1. taken' \in 0..(Total + Cardinality(Uploaders))
    BY <1>1 DEF GetTask, QueueLength
  <2>2. CASE taken < Total
    <3>1. task' = [task EXCEPT ![u] = taken + 1] /\ taken + 1 \in Tasks
      BY <1>1, <2>2 DEF GetTask
    <3> QED BY <1>1, <2>1, <2>2, <3>1 DEF GetTask
  <2>3. CASE ~(taken < Total)
    BY <1>1, <2>1, <2>3 DEF GetTask
  <2> QED BY <2>2, <2>3
<1>2. CASE Send(u)
  BY <1>2 DEF Send
<1>3. ASSUME upc[u] = "post", EndUpload(u, "get") \/ EndUpload(u, "raised"),
             counts' = counts \/ \E c \in DOMAIN counts : Tally(c),
             died' = died \/ died' = died \cup {u}, 
             backlog' \in Seq(Tasks), UNCHANGED followVars,
             Service!Submit(task[u]) \/ UNCHANGED <<status, settled>>
      PROVE  TypeInv'
  <2>1. /\ status' \in [Tasks -> Statuses]
        /\ settled' \in SUBSET Tasks
    BY <1>3, ServiceType
  <2>2. counts' \in [{"202", "other", "error"} -> Nat]
    BY <1>3 DEF Tally
  <2>3. /\ upc' \in [Uploaders -> {"get", "wait", "post", "returned", "raised"}]
        /\ task' \in [Uploaders -> 1..Never] /\ since' \in [Uploaders -> Nat]
        /\ UNCHANGED <<now, taken, mpc>>
    <3>1. PICK q \in {"get", "raised"} : EndUpload(u, q)
      BY <1>3
    <3>2. upc' \in [Uploaders -> {"get", "wait", "post", "returned", "raised"}]
      BY <3>1 DEF EndUpload
    <3>3. task' \in [Uploaders -> 1..Never]
      BY <3>1 DEF EndUpload
    <3>4. since' \in [Uploaders -> Nat]
      BY <3>1 DEF EndUpload
    <3> QED BY <3>1, <3>2, <3>3, <3>4 DEF EndUpload
  <2>4. AtWork'
    <3>1. upc'[u] \notin {"wait", "post"}
      BY <1>3 DEF EndUpload
    <3>2. \A v \in Uploaders \ {u} : upc'[v] = upc[v] /\ task'[v] = task[v]
      BY <1>3 DEF EndUpload
    <3> QED BY <1>3, <3>1, <3>2
  <2> QED BY <1>3, <2>1, <2>2, <2>3, <2>4
<1>4. CASE PostAccepted(u)
  <2>1. backlog' \in Seq(Tasks)
    BY <1>4 DEF PostAccepted
  <2> QED BY <1>3, <1>4, <2>1 DEF PostAccepted
<1>5. CASE PostRefused(u)
  BY <1>3, <1>5 DEF PostRefused
<1>6. CASE PostFailed(u)
  BY <1>3, <1>6 DEF PostFailed
<1>7. CASE PostRaised(u)
  BY <1>3, <1>7 DEF PostRaised
<1> QED BY <1>1, <1>2, <1>4, <1>5, <1>6, <1>7 DEF Upload

(* A step of a poller.                                                     *)
LEMMA PollType ==
    ASSUME TypeInv, NEW p \in Pollers, Poll(p)
    PROVE  TypeInv'
<1> USE ConstantTypes, Ranges
    DEF TypeInv, LoadTypeOK, AtWork, PollUnchanged, clientVars, serviceVars
<1>1. CASE Follow(p)
  <2>1. Head(backlog) \in Tasks /\ backlog' \in Seq(Tasks)
    BY <1>1 DEF Follow
  <2>2. /\ ppc' \in [Pollers -> {"idle", "check", "request", "sleep"}]
        /\ job' \in [Pollers -> 1..Never] /\ deadline' \in [Pollers -> Nat]
    <3>1. ppc' \in [Pollers -> {"idle", "check", "request", "sleep"}]
      BY <1>1 DEF Follow
    <3>2. job' \in [Pollers -> 1..Never]
      BY <1>1, <2>1 DEF Follow
    <3>3. deadline' \in [Pollers -> Nat]
      <4>1. now + PollTimeout \in Nat
        OBVIOUS
      <4> QED BY <1>1, <4>1 DEF Follow
    <3> QED BY <3>1, <3>2, <3>3
  <2>3. AtWork'
    BY <1>1, <2>1 DEF Follow
  <2> QED BY <1>1, <2>1, <2>2, <2>3 DEF Follow
<1>2. ASSUME ppc[p] # "idle", NEW f \in Finals \cup {"BROKEN"}, EndFollow(p, f), PollUnchanged
      PROVE  TypeInv'
  BY <1>2 DEF EndFollow, Statuses
<1>3. CASE Check(p)
  <2>1. ASSUME Ask(p)  PROVE TypeInv'
    <3>1. job[p] \in Tasks /\ {status[job[p]]} \in SUBSET Statuses /\ polls[p] + 1 \in Nat
      BY <1>3 DEF Check
    <3>2. during' \in [Pollers -> SUBSET Statuses] /\ polls' \in [Pollers -> Nat]
      BY <2>1, <3>1 DEF Ask
    <3>3. mark' \in [Pollers -> Nat] /\ ppc' \in [Pollers -> {"idle", "check", "request", "sleep"}]
      BY <2>1 DEF Ask
    <3>4. AtWork'
      BY <2>1, <1>3, <3>1 DEF Ask, Check
    <3> QED BY <1>3, <2>1, <3>2, <3>3, <3>4 DEF Check, Ask
  <2> QED BY <1>2, <1>3, <2>1 DEF Check, Finals
<1>4. CASE Answer(p)
  <2>1. ASSUME Sleep(p)  PROVE TypeInv'
    <3>1. mark' \in [Pollers -> Nat] /\ ppc' \in [Pollers -> {"idle", "check", "request", "sleep"}]
      BY <2>1 DEF Sleep
    <3>2. AtWork'
      BY <1>4, <2>1 DEF Answer, Sleep
    <3>3. seen' \in [Pollers -> Statuses \cup {"none"}] /\ during' \in [Pollers -> SUBSET Statuses]
      BY <2>1 DEF Sleep
    <3> QED BY <1>4, <2>1, <3>1, <3>2, <3>3 DEF Answer, Sleep
  <2>2. ASSUME NEW f \in Finals \cup {"BROKEN"}, EndFollow(p, f)  PROVE TypeInv'
    BY <1>2, <1>4, <2>2 DEF Answer
  <2> QED BY <1>4, <2>1, <2>2 DEF Answer, Finals
<1>5. CASE Wake(p)
  BY <1>5 DEF Wake
<1> QED BY <1>1, <1>3, <1>4, <1>5 DEF Poll

(* A step of run_load, of the clock or of the service.                     *)
LEMMA OtherType ==
    ASSUME TypeInv,
           \/ Join \/ Drain \/ LoadTick \/ \E p \in Pollers : Respond(p)
           \/ \E i \in Tasks : Serve(i)
    PROVE  TypeInv'
<1> USE ConstantTypes, Ranges
    DEF TypeInv, LoadTypeOK, AtWork, clientVars, pollVars, followVars, serviceVars
<1>1. CASE Join
  BY <1>1 DEF Join
<1>2. CASE Drain
  BY <1>2 DEF Drain
<1>3. CASE LoadTick
  <2>1. now' \in Nat
    BY <1>3 DEF LoadTick
  <2>2. UNCHANGED <<taken, upc, task, since, counts, died, backlog, ppc, job, deadline, mark,
                    polls, seen, during, finals, mpc, status, settled>>
    BY <1>3 DEF LoadTick
  <2> QED BY <2>1, <2>2
<1>4. ASSUME NEW i \in Tasks, Serve(i)  PROVE TypeInv'
  <2>1. status' \in [Tasks -> Statuses] /\ settled' \in SUBSET Tasks
    BY <1>4, ServiceType DEF Serve
  <2>2. during' \in [Pollers -> SUBSET Statuses]
    BY <1>4, <2>1 DEF Serve
  <2> QED BY <1>4, <2>1, <2>2 DEF Serve
<1>5. ASSUME NEW p \in Pollers, Respond(p)  PROVE TypeInv'
  <2>1. status[job[p]] \in Statuses
    BY <1>5 DEF Respond
  <2> QED BY <1>5, <2>1 DEF Respond
<1> QED BY <1>1, <1>2, <1>3, <1>4, <1>5

(* The type invariant needs AtWork: a step on a task or a job needs one.   *)
LEMMA TypesKept == LoadSpec => []TypeInv
<1>1. LoadInit => TypeInv
  BY ConstantTypes, Ranges DEF LoadInit, TypeInv, LoadTypeOK, AtWork, Statuses, Service!Init
<1>2. TypeInv /\ [LoadNext]_loadVars => TypeInv'
  <2>1. TypeInv /\ UNCHANGED loadVars => TypeInv'
    BY DEF loadVars, clientVars, pollVars, followVars, serviceVars, TypeInv, LoadTypeOK, AtWork
  <2> QED BY <2>1, UploadType, PollType, OtherType DEF LoadNext
<1> QED BY <1>1, <1>2, PTL DEF LoadSpec

(* Every variable of the load generator stays in its domain; in particular *)
(* no more is taken off task_queue than run_load has put there.            *)
THEOREM TypeCorrect == LoadSpec => []LoadTypeOK
<1>1. TypeInv => LoadTypeOK
  BY DEF TypeInv
<1> QED BY <1>1, TypesKept, PTL

-----------------------------------------------------------------------------
(* The asking that is due by now: each request of a follow is followed by  *)
(* a sleep, the last one may still be to come.                             *)
PaceInv ==
    \A p \in Pollers :
        LET asked == polls[p] * PollInterval IN
        /\ ppc[p] = "idle" => polls[p] = 0
        /\ ppc[p] = "check" => deadline[p] + asked <= now + PollTimeout
        /\ ppc[p] = "request" =>
             /\ mark[p] <= now /\ mark[p] < deadline[p]
             /\ deadline[p] + asked <= mark[p] + PollTimeout + PollInterval
        /\ ppc[p] = "sleep" => deadline[p] + asked <= mark[p] + PollTimeout
        /\ asked < PollTimeout + PollInterval

(* A request more is a sleep more.                                         *)
LEMMA OneMore ==
    ASSUME NEW n \in Nat
    PROVE  /\ n * PollInterval \in Nat /\ (n + 1) * PollInterval = n * PollInterval + PollInterval
           /\ 0 * PollInterval = 0
BY ConstantTypes

(* A request is begun before the deadline only, and so is not one too many.*)
LEMMA PaceStep ==
    ASSUME TypeInv, PaceInv, [LoadNext]_loadVars
    PROVE  PaceInv'
<1> USE ConstantTypes DEF TypeInv, LoadTypeOK, AtWork, clientVars, pollVars, followVars, serviceVars
<1>1. ASSUME UNCHANGED <<now, ppc, deadline, mark, polls>>  PROVE PaceInv'
  BY <1>1 DEF PaceInv
<1>2. ASSUME NEW u \in Uploaders, Upload(u)  PROVE PaceInv'
  BY <1>1, <1>2 DEF Upload, GetTask, Send, PostAccepted, PostRefused, PostFailed, PostRaised, EndUpload
<1>3. ASSUME \/ Join \/ Drain \/ UNCHANGED loadVars
             \/ (\E i \in Tasks : Serve(i)) \/ \E p \in Pollers : Respond(p)
      PROVE  PaceInv'
  BY <1>1, <1>3 DEF Join, Drain, Serve, Respond, loadVars
<1>4. CASE LoadTick
  <2>1. now' = now + 1 /\ UNCHANGED <<ppc, deadline, mark, polls>>
    BY <1>4 DEF LoadTick
  <2> SUFFICES ASSUME NEW p \in Pollers
               PROVE  /\ ppc[p] = "check" =>
                           deadline[p] + polls[p] * PollInterval <= now' + PollTimeout
                      /\ ppc[p] = "request" => mark[p] <= now'
    BY <2>1 DEF PaceInv
  <2>2. /\ now \in Nat /\ mark[p] \in Nat /\ deadline[p] \in Nat
        /\ polls[p] * PollInterval \in Nat
    BY OneMore
  <2>3. /\ ppc[p] = "check" => deadline[p] + polls[p] * PollInterval <= now + PollTimeout
        /\ ppc[p] = "request" => mark[p] <= now
    BY DEF PaceInv
  <2> HIDE DEF TypeInv, LoadTypeOK, AtWork, clientVars, pollVars, followVars, serviceVars
  <2> QED BY <2>1, <2>2, <2>3
<1>5. ASSUME NEW p \in Pollers, Poll(p)  PROVE PaceInv'
  <2>0. now' = now /\ \A q \in Pollers \ {p} :
             /\ ppc'[q] = ppc[q] /\ deadline'[q] = deadline[q]
             /\ mark'[q] = mark[q] /\ polls'[q] = polls[q]
    BY <1>5 DEF Poll, Follow, Check, Ask, Answer, Wake, Sleep, EndFollow, PollUnchanged
  <2>1. SUFFICES
          /\ ppc'[p] = "idle" => polls'[p] = 0
          /\ ppc'[p] = "check" => deadline'[p] + polls'[p] * PollInterval <= now + PollTimeout
          /\ ppc'[p] = "request" =>
               /\ mark'[p] <= now /\ mark'[p] < deadline'[p]
               /\ deadline'[p] + polls'[p] * PollInterval <= mark'[p] + PollTimeout + PollInterval
          /\ ppc'[p] = "sleep" => deadline'[p] + polls'[p] * PollInterval <= mark'[p] + PollTimeout
          /\ polls'[p] * PollInterval < PollTimeout + PollInterval
    BY <2>0 DEF PaceInv
  <2>2. /\ now \in Nat /\ mark[p] \in Nat /\ deadline[p] \in Nat /\ polls[p] \in Nat
        /\ polls[p] * PollInterval \in Nat /\ (polls[p] + 1) * PollInterval = polls[p] * PollInterval + PollInterval
        /\ 0 * PollInterval = 0
    BY OneMore
  <2>3. polls[p] * PollInterval < PollTimeout + PollInterval
    BY DEF PaceInv
  <2>4. CASE Follow(p)
    <3>1. /\ polls'[p] = 0 /\ ppc'[p] = "check" /\ deadline'[p] = now + PollTimeout
      BY <2>4 DEF Follow, PaceInv
    <3> HIDE DEF TypeInv, LoadTypeOK, AtWork, clientVars, pollVars, followVars, serviceVars
    <3> QED BY <2>2, <3>1
  <2>5. ASSUME NEW f, EndFollow(p, f)  PROVE ppc'[p] = "idle" /\ polls'[p] = 0
    BY <2>5 DEF EndFollow
  <2>6. CASE Check(p)
    <3>1. deadline[p] + polls[p] * PollInterval <= now + PollTimeout
      BY <2>6 DEF Check, PaceInv
    <3>2. \/ ppc'[p] = "idle" /\ polls'[p] = 0
          \/ /\ now < deadline[p] /\ ppc'[p] = "request" /\ mark'[p] = now
             /\ polls'[p] = polls[p] + 1 /\ deadline'[p] = deadline[p]
      BY <2>5, <2>6 DEF Check, Ask
    <3> HIDE DEF TypeInv, LoadTypeOK, AtWork, clientVars, pollVars, followVars, serviceVars
    <3> QED BY <2>2, <3>1, <3>2
  <2>7. CASE Answer(p)
    <3>1. /\ mark[p] <= now
          /\ deadline[p] + polls[p] * PollInterval <= mark[p] + PollTimeout + PollInterval
      BY <2>7 DEF Answer, PaceInv
    <3>2. \/ ppc'[p] = "idle" /\ polls'[p] = 0
          \/ /\ ppc'[p] = "sleep" /\ mark'[p] = now + PollInterval
             /\ polls'[p] = polls[p] /\ deadline'[p] = deadline[p]
      BY <2>5, <2>7 DEF Answer, Sleep
    <3> HIDE DEF TypeInv, LoadTypeOK, AtWork, clientVars, pollVars, followVars, serviceVars
    <3> QED BY <2>2, <2>3, <3>1, <3>2
  <2>8. CASE Wake(p)
    <3>1. deadline[p] + polls[p] * PollInterval <= mark[p] + PollTimeout /\ mark[p] <= now
      BY <2>8 DEF Wake, PaceInv
    <3>2. ppc'[p] = "check" /\ polls'[p] = polls[p] /\ deadline'[p] = deadline[p]
      BY <2>8 DEF Wake
    <3> HIDE DEF TypeInv, LoadTypeOK, AtWork, clientVars, pollVars, followVars, serviceVars
    <3> QED BY <2>2, <2>3, <3>1, <3>2
  <2> QED BY <1>5, <2>4, <2>6, <2>7, <2>8 DEF Poll
<1> QED BY <1>2, <1>3, <1>4, <1>5 DEF LoadNext

(* However long requests take, a follow begins none at or after its        *)
(* deadline, and no more than fit before it an interval apart.             *)
THEOREM FollowsBounded == LoadSpec => []FollowIsBounded
<1>1. LoadInit => PaceInv
  BY ConstantTypes, OneMore DEF LoadInit, PaceInv
<1>2. PaceInv => FollowIsBounded
  BY DEF PaceInv, FollowIsBounded, Following
<1> QED BY <1>1, <1>2, PaceStep, TypesKept, PTL DEF LoadSpec

-----------------------------------------------------------------------------
(* A job that is followed, or is to be, has a record; a request under way  *)
(* has noted each status of its job since it was sent, with the one that   *)
(* the service read for it; and nothing is left over from an earlier one.  *)
ReportInv ==
    /\ \A k \in DOMAIN backlog : status[backlog[k]] # "ABSENT"
    /\ \A p \in Pollers :
         /\ ppc[p] # "idle" => status[job[p]] # "ABSENT"
         /\ ppc[p] = "request" => status[job[p]] \in during[p]
         /\ seen[p] # "none" => ppc[p] = "request" /\ seen[p] \in during[p]

(* A record that is made is not one that is followed.                      *)
LEMMA UploadReports ==
    ASSUME TypeInv, ReportInv, NEW u \in Uploaders, Upload(u)
    PROVE  ReportInv'
<1> USE DEF TypeInv, LoadTypeOK, AtWork, ReportInv, followVars, pollVars, serviceVars
<1>1. UNCHANGED <<ppc, job, seen, during>>
  BY DEF Upload, GetTask, Send, PostAccepted, PostRefused, PostFailed, PostRaised
<1>2. CASE GetTask(u) \/ Send(u) \/ PostRefused(u)
  BY <1>1, <1>2 DEF GetTask, Send, PostRefused
<1>3. ASSUME task[u] \in Tasks, Service!Submit(task[u]) \/ UNCHANGED <<status, settled>>
      PROVE  \A i \in Tasks : status[i] # "ABSENT" => status'[i] = status[i]
  BY <1>3 DEF Service!Submit
<1>4. ASSUME task[u] \in Tasks, Service!Submit(task[u])
      PROVE  status'[task[u]] = "PENDING"
  BY <1>4 DEF Service!Submit
<1>5. CASE PostFailed(u) \/ PostRaised(u)
  <2>1. UNCHANGED backlog /\ \A i \in Tasks : status[i] # "ABSENT" => status'[i] = status[i]
    BY <1>3, <1>5 DEF PostFailed, PostRaised
  <2> QED BY <1>1, <2>1
<1>6. CASE PostAccepted(u)
  <2>1. /\ \A i \in Tasks : status[i] # "ABSENT" => status'[i] = status[i]
        /\ status'[task[u]] = "PENDING" /\ task[u] \in Tasks
    BY <1>3, <1>4, <1>6 DEF PostAccepted
  <2>2. \A k \in DOMAIN backlog' : status'[backlog'[k]] # "ABSENT"
    <3>1. CASE Pollers = {}
      BY <1>6, <2>1, <3>1 DEF PostAccepted
    <3>2. CASE Pollers # {}
      <4>1. backlog' = Append(backlog, task[u])
        BY <1>6, <3>2 DEF PostAccepted
      <4>2. \A k \in DOMAIN backlog' :
                \/ k \in DOMAIN backlog /\ backlog'[k] = backlog[k]
                \/ backlog'[k] = task[u]
        BY <4>1
      <4>3. \A k \in DOMAIN backlog : backlog[k] \in Tasks /\ status[backlog[k]] # "ABSENT"
        OBVIOUS
      <4>4. \A k \in DOMAIN backlog : status'[backlog[k]] # "ABSENT"
        BY <2>1, <4>3
      <4> HIDE DEF TypeInv, LoadTypeOK, AtWork, ReportInv, followVars, pollVars, serviceVars
      <4> QED BY <2>1, <4>2, <4>4
    <3> HIDE DEF TypeInv, LoadTypeOK, AtWork, ReportInv, followVars, pollVars, serviceVars
    <3> QED BY <3>1, <3>2
  <2>3. \A p \in Pollers : ppc[p] # "idle" => status'[job[p]] = status[job[p]]
    BY <2>1
  <2> QED BY <1>1, <2>1, <2>2, <2>3
<1> QED BY <1>2, <1>5, <1>6 DEF Upload

(* A follow starts with the status at its request and ends with the one    *)
(* that was read.                                                          *)
LEMMA PollReports ==
    ASSUME TypeInv, ReportInv, NEW p \in Pollers, Poll(p) \/ Respond(p)
    PROVE  ReportInv'
<1> USE DEF TypeInv, LoadTypeOK, AtWork, ReportInv, followVars, PollUnchanged, clientVars, serviceVars
<1>1. UNCHANGED status
  BY DEF Poll, Follow, Check, Answer, Wake, Respond
<1>2. CASE Follow(p)
  <2>1. /\ backlog \in Seq(Tasks) /\ backlog # <<>> /\ backlog' = Tail(backlog)
        /\ job'[p] = Head(backlog) /\ UNCHANGED <<seen, during>>
        /\ \A q \in Pollers \ {p} : ppc'[q] = ppc[q] /\ job'[q] = job[q]
        /\ ppc[p] = "idle" /\ ppc'[p] = "check"
    BY <1>2 DEF Follow
  <2>2. /\ 1 \in DOMAIN backlog /\ Head(backlog) = backlog[1]
        /\ \A k \in DOMAIN backlog' : k + 1 \in DOMAIN backlog /\ backlog'[k] = backlog[k + 1]
    BY <2>1
  <2> QED BY <1>1, <2>1, <2>2
<1>3. ASSUME NEW f, EndFollow(p, f)  PROVE ReportInv'
  BY <1>1, <1>3 DEF EndFollow
<1>4. ASSUME ppc[p] = "check", Ask(p)  PROVE ReportInv'
  BY <1>1, <1>4 DEF Ask
<1>5. ASSUME ppc[p] = "request", Sleep(p)  PROVE ReportInv'
  BY <1>1, <1>5 DEF Sleep
<1>6. CASE Check(p)
  BY <1>3, <1>4, <1>6 DEF Check
<1>7. CASE Answer(p)
  BY <1>3, <1>5, <1>7 DEF Answer
<1>8. CASE Wake(p)
  BY <1>1, <1>8 DEF Wake
<1>9. CASE Respond(p)
  BY <1>1, <1>9 DEF Respond
<1> QED BY <1>2, <1>6, <1>7, <1>8, <1>9 DEF Poll

(* A status that a job moves to is noted by the requests that ask for it.  *)
LEMMA ServeReports ==
    ASSUME TypeInv, ReportInv, NEW i \in Tasks, Serve(i)
    PROVE  ReportInv'
<1> USE DEF TypeInv, LoadTypeOK, AtWork, ReportInv
<1>1. /\ status' = [status EXCEPT ![i] = status'[i]] /\ status'[i] # "ABSENT"
  BY DEF Serve, Service!Start, Service!Settle, Terminal
<1>2. UNCHANGED <<backlog, ppc, job, seen>>
  BY DEF Serve
<1>3. \A p \in Pollers :
        /\ during'[p] = IF ppc[p] = "request" /\ job[p] = i THEN during[p] \cup {status'[i]}
                                                            ELSE during[p]
  BY DEF Serve
<1>4. \A j \in Tasks : status'[j] = IF j = i THEN status'[i] ELSE status[j]
  BY <1>1
<1>5. \A k \in DOMAIN backlog : backlog[k] \in Tasks
  OBVIOUS
<1>6. \A k \in DOMAIN backlog' : status'[backlog'[k]] # "ABSENT"
  BY <1>1, <1>2, <1>4, <1>5
<1>7. ASSUME NEW p \in Pollers
      PROVE  /\ ppc'[p] # "idle" => status'[job'[p]] # "ABSENT"
             /\ ppc'[p] = "request" => status'[job'[p]] \in during'[p]
             /\ seen'[p] # "none" => ppc'[p] = "request" /\ seen'[p] \in during'[p]
  <2>1. /\ ppc'[p] = ppc[p] /\ job'[p] = job[p] /\ seen'[p] = seen[p]
        /\ ppc[p] # "idle" => job[p] \in Tasks
    BY <1>2
  <2>2. /\ ppc[p] # "idle" => status[job[p]] # "ABSENT"
        /\ ppc[p] = "request" => status[job[p]] \in during[p]
        /\ seen[p] # "none" => ppc[p] = "request" /\ seen[p] \in during[p]
    OBVIOUS
  <2>3. /\ during[p] \subseteq during'[p]
        /\ ppc[p] = "request" /\ job[p] = i => status'[i] \in during'[p]
    BY <1>3
  <2> HIDE DEF TypeInv, LoadTypeOK, AtWork, ReportInv
  <2>4. ppc[p] # "idle" => status'[job[p]] # "ABSENT"
    BY <1>1, <1>4, <2>1, <2>2
  <2>5. ppc[p] = "request" => status'[job[p]] \in during'[p]
    BY <1>4, <2>1, <2>2, <2>3
  <2> QED BY <2>1, <2>2, <2>3, <2>4, <2>5
<1> QED BY <1>6, <1>7

(* COMPLETE or FAILED is reported of a job only if its record said so at   *)
(* some time during the request that ended the follow.                     *)
THEOREM ReportsAreCurrent == LoadSpec => ReportedWasCurrent
<1> DEFINE Current(p) ==
        ppc[p] = "request" /\ ppc'[p] = "idle" /\ finals'[job[p]] \in Terminal =>
            finals'[job[p]] \in during[p]
<1>1. LoadInit => ReportInv
  BY DEF LoadInit, ReportInv
<1>2. TypeInv /\ ReportInv /\ [LoadNext]_loadVars => ReportInv'
  <2> SUFFICES ASSUME TypeInv, ReportInv, [LoadNext]_loadVars  PROVE ReportInv'
    OBVIOUS
  <2>1. ASSUME Join \/ Drain \/ LoadTick \/ UNCHANGED loadVars  PROVE ReportInv'
    BY <2>1 DEF Join, Drain, LoadTick, loadVars, pollVars, followVars, serviceVars, ReportInv
  <2> QED BY <2>1, UploadReports, PollReports, ServeReports DEF LoadNext
<1>3. TypeInv /\ ReportInv /\ [LoadNext]_loadVars => [\A p \in Pollers : Current(p)]_loadVars
  <2> SUFFICES ASSUME TypeInv, ReportInv, LoadNext, NEW p \in Pollers,
                      ppc[p] = "request", ppc'[p] = "idle", finals'[job[p]] \in Terminal
               PROVE  finals'[job[p]] \in during[p]
    OBVIOUS
  <2> USE DEF TypeInv, LoadTypeOK, AtWork, ReportInv
  <2>1. Answer(p)
    <3>1. ASSUME NEW q \in Pollers, q # p, Poll(q) \/ Respond(q)  PROVE ppc'[p] = ppc[p]
      BY <3>1 DEF Poll, Follow, Check, Ask, Answer, Sleep, EndFollow, Wake, Respond
    <3>2. ASSUME NEW u \in Uploaders, Upload(u)  PROVE ppc' = ppc
      BY <3>2 DEF Upload, GetTask, Send, PostAccepted, PostRefused, PostFailed, PostRaised,
                  pollVars, followVars
    <3>3. ASSUME Join \/ Drain \/ LoadTick \/ \E i \in Tasks : Serve(i)  PROVE ppc' = ppc
      BY <3>3 DEF Join, Drain, LoadTick, Serve, pollVars, followVars
    <3>4. ASSUME Respond(p)  PROVE ppc' = ppc
      BY <3>4 DEF Respond
    <3> QED BY <3>1, <3>2, <3>3, <3>4 DEF LoadNext, Poll, Follow, Check, Wake
  <2>2. \E f \in {seen[p], "HTTP_ERROR", "BROKEN"} : EndFollow(p, f)
    BY <2>1 DEF Answer, Sleep
  <2>3. finals'[job[p]] \in {seen[p], "HTTP_ERROR", "BROKEN"}
    BY <2>2 DEF EndFollow
  <2>4. finals'[job[p]] = seen[p] /\ seen[p] # "none"
    BY <2>3 DEF Terminal
  <2> QED BY <2>4
<1> QED BY <1>1, <1>2, <1>3, TypesKept, PTL DEF LoadSpec, ReportedWasCurrent

-----------------------------------------------------------------------------
(* Where the uploads of the queue are: counted, under way or lost with     *)
(* their thread.  A thread returns only on a None, behind all uploads, and *)
(* run_load goes on only when all threads have ended.                      *)
CountInv ==
    /\ died = {u \in Uploaders : upc[u] = "raised"}
    /\ \A u \in Uploaders : upc[u] = "returned" => taken >= Total
    /\ mpc # "join" => \A u \in Uploaders : upc[u] \in {"returned", "raised"}
    /\ TotalRequests + Cardinality(died) + Cardinality(Busy) = Attempted

(* What is counted is finite.                                              *)
LEMMA FiniteThreads ==
    ASSUME TypeInv
    PROVE  /\ IsFiniteSet(Busy) /\ IsFiniteSet(died)
           /\ Cardinality(Busy) \in Nat /\ Cardinality(died) \in Nat
           /\ counts["202"] \in Nat /\ counts["other"] \in Nat /\ counts["error"] \in Nat
           /\ taken \in Nat
<1>1. Busy \subseteq Uploaders /\ died \subseteq Uploaders
  BY DEF Busy, TypeInv, LoadTypeOK
<1>2. IsFiniteSet(Busy) /\ IsFiniteSet(died)
  BY <1>1, LoadAssumption, FS_Subset
<1>3. taken \in Nat
  BY ConstantTypes DEF TypeInv, LoadTypeOK
<1> QED BY <1>2, <1>3, FS_CardinalityType DEF TypeInv, LoadTypeOK

(* A thread moves its upload from one column to the next.                  *)
LEMMA UploadCounts ==
    ASSUME TypeInv, CountInv, NEW u \in Uploaders, Upload(u)
    PROVE  CountInv'
<1>f. /\ IsFiniteSet(Busy) /\ IsFiniteSet(died)
      /\ Cardinality(Busy) \in Nat /\ Cardinality(died) \in Nat
      /\ TotalRequests \in Nat /\ taken \in Nat
  BY FiniteThreads DEF TotalRequests
<1> USE <1>f, ConstantTypes DEF TypeInv, LoadTypeOK, CountInv
<1>0. upc[u] \in {"get", "wait", "post"} /\ mpc = "join" /\ mpc' = mpc
  BY DEF Upload, GetTask, Send, PostAccepted, PostRefused, PostFailed, PostRaised, EndUpload
<1>1. CASE GetTask(u) /\ taken < Total
  <2>1. taken' = taken + 1 /\ UNCHANGED <<counts, died>>
        /\ upc' = [upc EXCEPT ![u] = "wait"] /\ upc[u] = "get"
    BY <1>1 DEF GetTask
  <2>2. Busy' = Busy \cup {u} /\ u \notin Busy
    BY <2>1 DEF Busy
  <2>3. Cardinality(Busy') = Cardinality(Busy) + 1
    <3>1. Cardinality(Busy \cup {u}) = Cardinality(Busy) + 1
      BY <2>2, FS_AddElement
    <3> QED BY <2>2, <3>1
  <2>4. TotalRequests' = TotalRequests
    BY <2>1 DEF TotalRequests
  <2>5. Attempted' = Attempted + 1 /\ Attempted \in Nat
    BY <1>1, <2>1 DEF Attempted
  <2>6. died' = {v \in Uploaders : upc'[v] = "raised"}
    BY <2>1
  <2>7. TotalRequests' + Cardinality(died') + Cardinality(Busy') = Attempted'
    <3>1. Cardinality(died') = Cardinality(died)
      BY <2>1
    <3>2. TotalRequests + Cardinality(died) + Cardinality(Busy) = Attempted
      OBVIOUS
    <3> HIDE DEF CountInv, TypeInv, LoadTypeOK
    <3> QED BY <2>3, <2>4, <2>5, <3>1, <3>2
  <2> QED BY <1>0, <1>1, <2>1, <2>6, <2>7
<1>2. CASE GetTask(u) /\ ~(taken < Total)
  <2>1. taken' = taken + 1 /\ UNCHANGED <<counts, died>>
        /\ upc' = [upc EXCEPT ![u] = "returned"] /\ upc[u] = "get"
    BY <1>2 DEF GetTask
  <2>2. Busy' = Busy
    BY <2>1 DEF Busy
  <2>3. TotalRequests' = TotalRequests /\ Attempted' = Attempted
    BY <1>2, <2>1 DEF TotalRequests, Attempted
  <2>4. died' = {v \in Uploaders : upc'[v] = "raised"}
    BY <2>1
  <2> QED BY <1>0, <1>2, <2>1, <2>2, <2>3, <2>4
<1>3. CASE Send(u)
  <2>1. UNCHANGED <<taken, counts, died>> /\ upc' = [upc EXCEPT ![u] = "post"] /\ upc[u] = "wait"
    BY <1>3 DEF Send
  <2>2. Busy' = Busy /\ TotalRequests' = TotalRequests /\ Attempted' = Attempted
    BY <2>1 DEF Busy, TotalRequests, Attempted
  <2>3. died' = {v \in Uploaders : upc'[v] = "raised"}
    BY <2>1
  <2> QED BY <1>0, <2>1, <2>2, <2>3
<1>4. ASSUME upc[u] = "post", NEW q \in {"get", "raised"}, EndUpload(u, q),
             \/ q = "get" /\ died' = died /\ \E c \in {"202", "other", "error"} : Tally(c)
             \/ q = "raised" /\ died' = died \cup {u} /\ counts' = counts
      PROVE  CountInv'
  <2>1. taken' = taken /\ upc' = [upc EXCEPT ![u] = q]
    BY <1>4 DEF EndUpload
  <2>2. Busy' = Busy \ {u} /\ u \in Busy
    BY <1>4, <2>1 DEF Busy
  <2>3. Cardinality(Busy') = Cardinality(Busy) - 1
    BY <2>2, FS_RemoveElement
  <2>4. Attempted' = Attempted
    BY <2>1 DEF Attempted
  <2>5. u \notin died
    BY <1>4
  <2>6. TotalRequests' + Cardinality(died') = TotalRequests + Cardinality(died) + 1
    <3>1. CASE q = "get"
      <4>1. PICK c \in {"202", "other", "error"} : counts' = [counts EXCEPT ![c] = @ + 1]
        BY <1>4, <3>1 DEF Tally
      <4>2. counts["202"] \in Nat /\ counts["other"] \in Nat /\ counts["error"] \in Nat
        OBVIOUS
      <4>3. TotalRequests' = TotalRequests + 1
        <5>1. CASE c = "202"
          <6>1. /\ counts'["202"] = counts["202"] + 1
                /\ counts'["other"] = counts["other"] /\ counts'["error"] = counts["error"]
            BY <4>1, <5>1
          <6> HIDE DEF TypeInv, LoadTypeOK, CountInv
          <6> QED BY <4>2, <6>1 DEF TotalRequests
        <5>2. CASE c = "other"
          <6>1. /\ counts'["other"] = counts["other"] + 1
                /\ counts'["202"] = counts["202"] /\ counts'["error"] = counts["error"]
            BY <4>1, <5>2
          <6> HIDE DEF TypeInv, LoadTypeOK, CountInv
          <6> QED BY <4>2, <6>1 DEF TotalRequests
        <5>3. CASE c = "error"
          <6>1. /\ counts'["error"] = counts["error"] + 1
                /\ counts'["202"] = counts["202"] /\ counts'["other"] = counts["other"]
            BY <4>1, <5>3
          <6> HIDE DEF TypeInv, LoadTypeOK, CountInv
          <6> QED BY <4>2, <6>1 DEF TotalRequests
        <5> QED BY <5>1, <5>2, <5>3
      <4>4. died' = died
        BY <1>4, <3>1
      <4> QED BY <4>3, <4>4
    <3>2. CASE q = "raised"
      <4>1. Cardinality(died \cup {u}) = Cardinality(died) + 1
        BY <2>5, FS_AddElement
      <4>2. TotalRequests' = TotalRequests /\ died' = died \cup {u}
        BY <1>4, <3>2 DEF TotalRequests
      <4> QED BY <4>1, <4>2
    <3> QED BY <3>1, <3>2
  <2>7. died' = {v \in Uploaders : upc'[v] = "raised"}
    BY <1>4, <2>1
  <2>9. TotalRequests' + Cardinality(died') + Cardinality(Busy') = Attempted'
    BY <2>3, <2>4, <2>6
  <2> QED BY <1>0, <2>1, <2>7, <2>9
<1>5. CASE PostAccepted(u) \/ PostRefused(u) \/ PostFailed(u) \/ PostRaised(u)
  BY <1>4, <1>5 DEF PostAccepted, PostRefused, PostFailed, PostRaised
<1> QED BY <1>1, <1>2, <1>3, <1>5 DEF Upload

(* Nobody else touches the counters.                                       *)
LEMMA CountsKept == LoadSpec => []CountInv
<1>1. LoadInit => CountInv
  <2> SUFFICES ASSUME LoadInit PROVE CountInv
    OBVIOUS
  <2>1. Busy = {} /\ died = {} /\ {u \in Uploaders : upc[u] = "raised"} = {}
    BY DEF LoadInit, Busy
  <2>2. TotalRequests = 0 /\ Attempted = 0
    BY ConstantTypes, LoadAssumption DEF LoadInit, TotalRequests, Attempted
  <2> QED BY <2>1, <2>2, FS_EmptySet DEF LoadInit, CountInv
<1>2. TypeInv /\ CountInv /\ [LoadNext]_loadVars => CountInv'
  <2> SUFFICES ASSUME TypeInv, CountInv, [LoadNext]_loadVars  PROVE CountInv'
    OBVIOUS
  <2>1. ASSUME UNCHANGED clientVars,
               mpc' # "join" => \A u \in Uploaders : upc[u] \in {"returned", "raised"}
        PROVE  CountInv'
    BY <2>1 DEF clientVars, CountInv, TotalRequests, Busy, Attempted
  <2>2. CASE Join
    BY <2>1, <2>2 DEF Join
  <2>3. ASSUME UNCHANGED <<clientVars, mpc>>  PROVE CountInv'
    BY <2>1, <2>3 DEF CountInv
  <2>4. CASE Drain
    BY <2>1, <2>4 DEF Drain, CountInv
  <2>5. CASE LoadTick \/ UNCHANGED loadVars \/ (\E i \in Tasks : Serve(i))
             \/ \E p \in Pollers : Respond(p)
    BY <2>3, <2>5 DEF LoadTick, loadVars, Serve, Respond
  <2>6. ASSUME NEW p \in Pollers, Poll(p)  PROVE CountInv'
    BY <2>3, <2>6 DEF Poll, Follow, Check, Answer, Wake, PollUnchanged
  <2> QED BY <2>2, <2>4, <2>5, <2>6, UploadCounts DEF LoadNext
<1> QED BY <1>1, <1>2, TypesKept, PTL DEF LoadSpec

(* Every upload taken off the queue is counted once, under way or lost     *)
(* with its thread, and none is left when run_load goes on.                *)
THEOREM AttemptsAreAccounted == LoadSpec => []AttemptsAccounted
<1>1. TypeInv /\ CountInv => AttemptsAccounted
  <2> SUFFICES ASSUME TypeInv, CountInv  PROVE AttemptsAccounted
    OBVIOUS
  <2>1. ASSUME mpc # "join", died # Uploaders  PROVE Attempted = Total
    <3>1. PICK u \in Uploaders : upc[u] = "returned"
      BY <2>1 DEF CountInv
    <3> QED BY <3>1, FiniteThreads, ConstantTypes DEF CountInv, Attempted
  <2> QED BY <2>1 DEF AttemptsAccounted, CountInv
<1> QED BY <1>1, CountsKept, TypesKept, PTL

-----------------------------------------------------------------------------
(* Each upload is in one place: with a thread, waiting for a poller, with  *)
(* a poller, or followed to the end.                                       *)
Waiting == {backlog[k] : k \in DOMAIN backlog}

PlaceInv ==
    /\ \A u \in Busy : task[u] <= taken /\ task[u] \notin Waiting \cup Recorded
    /\ \A u, v \in Busy : task[u] = task[v] => u = v
    /\ \A i \in Waiting \cup Recorded : i <= taken
    /\ Waiting \cap Recorded = {}
    /\ \A k, l \in DOMAIN backlog : backlog[k] = backlog[l] => k = l
    /\ \A p \in Following :
         /\ job[p] <= taken /\ job[p] \notin Waiting \cup Recorded
         /\ \A u \in Busy : task[u] # job[p]
         /\ \A q \in Following : job[p] = job[q] => p = q

(* The pool has all accepted jobs, and run_load returns when it is empty.  *)
PoolInv ==
    /\ Pollers # {} =>
         counts["202"] = Cardinality(Recorded) + Len(backlog) + Cardinality(Following)
    /\ Pollers = {} => backlog = <<>>
    /\ mpc = "returned" => backlog = <<>> /\ Following = {}

(* An upload is new when it is taken, and given up when it is handed over. *)
LEMMA UploadPlaces ==
    ASSUME TypeInv, PlaceInv, NEW u \in Uploaders, Upload(u)
    PROVE  PlaceInv'
<1>a. taken \in Nat /\ \A v \in Busy : task[v] \in Tasks /\ task[v] \in Nat
  BY ConstantTypes DEF TypeInv, LoadTypeOK, AtWork, Busy, Tasks
<1>b. /\ \A i \in Waiting \cup Recorded : i \in Nat
      /\ \A p \in Following : job[p] \in Nat
  BY ConstantTypes DEF TypeInv, LoadTypeOK, AtWork, Waiting, Recorded, Following, Tasks
<1>1. ASSUME UNCHANGED <<backlog, ppc, job, finals>>
      PROVE  UNCHANGED <<backlog, Waiting, Recorded, Following, job>>
  BY <1>1 DEF Waiting, Recorded, Following
<1>2. ASSUME UNCHANGED <<backlog, Waiting, Recorded, Following, job>>,
             taken' \in Nat, taken <= taken',
             Busy' \subseteq Busy, \A v \in Busy' : task'[v] = task[v]
      PROVE  PlaceInv'
  BY <1>a, <1>b, <1>2 DEF PlaceInv
<1>3. CASE GetTask(u)
  <2>1. taken' = taken + 1 /\ UNCHANGED <<backlog, Waiting, Recorded, Following, job>>
    BY <1>1, <1>3 DEF GetTask, pollVars, followVars
  <2>2. CASE taken < Total
    <3>1. Busy' = Busy \cup {u} /\ task'[u] = taken + 1
          /\ \A v \in Busy : task'[v] = task[v] /\ v # u
      BY <1>3, <2>2 DEF GetTask, Busy, TypeInv, LoadTypeOK
    <3>2. taken + 1 \notin Waiting \cup Recorded /\ \A p \in Following : job[p] # taken + 1
      BY <1>a, <1>b DEF PlaceInv
    <3>3. \A v \in Busy : task[v] # taken + 1
      BY <1>a DEF PlaceInv
    <3> QED BY <1>a, <1>b, <2>1, <3>1, <3>2, <3>3 DEF PlaceInv
  <2>3. CASE ~(taken < Total)
    <3>1. Busy' = Busy /\ task' = task
      BY <1>3, <2>3 DEF GetTask, Busy, TypeInv, LoadTypeOK
    <3> QED BY <1>2, <1>a, <2>1, <3>1
  <2> QED BY <2>2, <2>3
<1>4. CASE Send(u)
  <2>1. Busy' = Busy /\ UNCHANGED <<taken, task>>
    BY <1>4 DEF Send, Busy, TypeInv, LoadTypeOK
  <2> QED BY <1>1, <1>2, <1>4, <1>a, <2>1 DEF Send, pollVars, followVars
<1>5. ASSUME upc[u] = "post", EndUpload(u, "get") \/ EndUpload(u, "raised")
      PROVE  /\ u \in Busy /\ Busy' = Busy \ {u} /\ taken' = taken
             /\ \A v \in Busy' : task'[v] = task[v]
  BY <1>5 DEF EndUpload, Busy, TypeInv, LoadTypeOK
<1>6. ASSUME upc[u] = "post", EndUpload(u, "get") \/ EndUpload(u, "raised"),
             UNCHANGED <<backlog, ppc, job, finals>>
      PROVE  PlaceInv'
  BY <1>1, <1>2, <1>5, <1>6, <1>a
<1>7. CASE PostRefused(u) \/ PostFailed(u) \/ PostRaised(u)
  BY <1>6, <1>7 DEF PostRefused, PostFailed, PostRaised, pollVars, followVars
<1>8. CASE PostAccepted(u)
  <2>1. CASE Pollers = {}
    BY <1>6, <1>8, <2>1 DEF PostAccepted, followVars
  <2>2. CASE Pollers # {}
    <3>1. /\ UNCHANGED <<job, Following, Recorded>> /\ backlog' = Append(backlog, task[u])
      BY <1>8, <2>2 DEF PostAccepted, followVars, Following, Recorded
    <3>2. /\ u \in Busy /\ Busy' = Busy \ {u} /\ taken' = taken
          /\ \A v \in Busy' : task'[v] = task[v]
      BY <1>5, <1>8 DEF PostAccepted
    <3>3. backlog \in Seq(Tasks) /\ task[u] \in Tasks
      BY <1>a, <3>2 DEF TypeInv, LoadTypeOK
    <3>4. Waiting' = Waiting \cup {task[u]}
      BY <3>1, <3>3 DEF Waiting
    <3>5. \A k \in DOMAIN backlog : backlog[k] # task[u]
      BY <3>2 DEF Waiting, PlaceInv
    <3>6. \A k, l \in DOMAIN backlog' : backlog'[k] = backlog'[l] => k = l
      BY <3>1, <3>3, <3>5 DEF PlaceInv
    <3> QED BY <3>1, <3>2, <3>4, <3>6 DEF PlaceInv
  <2> QED BY <2>1, <2>2
<1> QED BY <1>3, <1>4, <1>7, <1>8 DEF Upload

(* A poller takes the first job that waits and records it at the end.      *)
LEMMA PollPlaces ==
    ASSUME TypeInv, PlaceInv, NEW p \in Pollers, Poll(p)
    PROVE  PlaceInv'
<1>0. UNCHANGED <<taken, task, Busy>>
  BY DEF Poll, Follow, Check, Answer, Wake, Busy, PollUnchanged, clientVars
<1>1. CASE Follow(p)
  <2>1. /\ backlog \in Seq(Tasks) /\ backlog # <<>> /\ backlog' = Tail(backlog)
        /\ Recorded' = Recorded
    BY <1>1 DEF Follow, Recorded, TypeInv, LoadTypeOK
  <2>2. p \notin Following /\ Following' = Following \cup {p} /\ job'[p] = Head(backlog)
        /\ \A q \in Following : job'[q] = job[q]
    BY <1>1 DEF Follow, Following, TypeInv, LoadTypeOK
  <2>3. /\ 1 \in DOMAIN backlog /\ Head(backlog) = backlog[1]
        /\ \A k \in DOMAIN backlog' : k + 1 \in DOMAIN backlog /\ backlog'[k] = backlog[k + 1]
                                     /\ k \in Nat /\ k + 1 # 1
    BY <2>1
  <2>4. Waiting' \subseteq Waiting /\ Head(backlog) \in Waiting
    BY <2>3 DEF Waiting
  <2>5. Head(backlog) \notin Waiting'
    BY <2>3 DEF Waiting, PlaceInv
  <2>6. \A k, l \in DOMAIN backlog' : backlog'[k] = backlog'[l] => k = l
    BY <2>3 DEF PlaceInv
  <2> QED BY <1>0, <2>1, <2>2, <2>4, <2>5, <2>6 DEF PlaceInv
<1>2. ASSUME ppc[p] # "idle", NEW f \in Finals \cup {"BROKEN"}, EndFollow(p, f)
      PROVE  PlaceInv'
  <2>1. UNCHANGED <<backlog, Waiting>>
    BY <1>2 DEF EndFollow, Waiting
  <2>2. p \in Following /\ Following' = Following \ {p}
        /\ \A q \in Following' : job'[q] = job[q]
    BY <1>2 DEF EndFollow, Following, TypeInv, LoadTypeOK
  <2>3. Recorded' = Recorded \cup {job[p]}
    BY <1>2 DEF EndFollow, Recorded, Finals, Terminal, TypeInv, LoadTypeOK, AtWork
  <2> QED BY <1>0, <2>1, <2>2, <2>3 DEF PlaceInv
<1>3. ASSUME ppc[p] # "idle", NEW c \in {"check", "request", "sleep"},
             ppc' = [ppc EXCEPT ![p] = c], UNCHANGED <<backlog, job, finals>>
      PROVE  PlaceInv'
  <2>1. UNCHANGED <<backlog, Waiting, Recorded, Following, job>>
    BY <1>3 DEF Following, Waiting, Recorded, TypeInv, LoadTypeOK
  <2> QED BY <1>0, <2>1 DEF PlaceInv
<1>4. CASE Check(p)
  BY <1>2, <1>3, <1>4 DEF Check, Ask, Finals
<1>5. CASE Answer(p)
  BY <1>2, <1>3, <1>5 DEF Answer, Sleep, Finals
<1>6. CASE Wake(p)
  BY <1>3, <1>6 DEF Wake
<1> QED BY <1>1, <1>4, <1>5, <1>6 DEF Poll

(* What the pool holds is finite.                                          *)
LEMMA FinitePool ==
    ASSUME TypeInv
    PROVE  /\ IsFiniteSet(Recorded) /\ IsFiniteSet(Following)
           /\ Cardinality(Recorded) \in Nat /\ Cardinality(Following) \in Nat
           /\ Len(backlog) \in Nat /\ counts["202"] \in Nat
<1>1. IsFiniteSet(Recorded)
  <2>1. Recorded \in SUBSET Nat /\ \A i \in Recorded : i <= Total
    BY ConstantTypes DEF Recorded, Tasks
  <2> QED BY ConstantTypes, <2>1, FS_BoundedSetOfNaturals
<1>2. IsFiniteSet(Following)
  BY LoadAssumption, FS_Subset DEF Following
<1> QED BY <1>1, <1>2, FS_CardinalityType DEF TypeInv, LoadTypeOK

(* An accepted job joins the backlog, while run_load still waits.          *)
LEMMA UploadPool ==
    ASSUME TypeInv, CountInv, PoolInv, NEW u \in Uploaders, Upload(u)
    PROVE  PoolInv'
<1>1. mpc = "join" /\ mpc' = mpc
  BY DEF CountInv, Upload, GetTask, Send, PostAccepted, PostRefused, PostFailed, PostRaised, EndUpload
<1>2. ASSUME UNCHANGED pollVars, counts'["202"] = counts["202"]  PROVE PoolInv'
  BY <1>1, <1>2 DEF PoolInv, pollVars, followVars, Recorded, Following
<1>3. CASE GetTask(u) \/ Send(u) \/ PostRefused(u) \/ PostFailed(u) \/ PostRaised(u)
  BY <1>2, <1>3 DEF GetTask, Send, PostRefused, PostFailed, PostRaised, Tally, TypeInv, LoadTypeOK
<1>4. CASE PostAccepted(u)
  <2>1. UNCHANGED <<Recorded, Following>> /\ counts'["202"] = counts["202"] + 1
    BY <1>4 DEF PostAccepted, followVars, Tally, Recorded, Following, TypeInv, LoadTypeOK
  <2>2. CASE Pollers = {}
    BY <1>1, <1>4, <2>2 DEF PostAccepted, PoolInv
  <2>3. CASE Pollers # {}
    <3>1. backlog \in Seq(Tasks) /\ task[u] \in Tasks /\ backlog' = Append(backlog, task[u])
      BY <1>4, <2>3 DEF PostAccepted, TypeInv, LoadTypeOK, AtWork
    <3>2. Len(backlog') = Len(backlog) + 1
      BY <3>1
    <3> QED BY <1>1, <2>1, <2>3, <3>2, FinitePool DEF PoolInv
  <2> QED BY <2>2, <2>3
<1> QED BY <1>3, <1>4 DEF Upload

(* A follow moves from the backlog to a poller to the record.              *)
LEMMA PollPool ==
    ASSUME TypeInv, PlaceInv, PoolInv, NEW p \in Pollers, Poll(p)
    PROVE  PoolInv'
<1>0. UNCHANGED <<counts, mpc>> /\ mpc # "returned"
  BY DEF Poll, Follow, Check, Answer, Wake, PollUnchanged, clientVars, PoolInv, Following
<1>1. CASE Follow(p)
  <2>1. /\ backlog \in Seq(Tasks) /\ backlog # <<>> /\ backlog' = Tail(backlog)
        /\ Recorded' = Recorded
    BY <1>1 DEF Follow, Recorded, TypeInv, LoadTypeOK
  <2>2. p \notin Following /\ Following' = Following \cup {p}
    BY <1>1 DEF Follow, Following, TypeInv, LoadTypeOK
  <2>3. Cardinality(Following \cup {p}) = Cardinality(Following) + 1
    BY <2>2, FinitePool, FS_AddElement
  <2>4. Len(backlog') = Len(backlog) - 1
    BY <2>1
  <2>5. counts["202"] = Cardinality(Recorded) + Len(backlog) + Cardinality(Following)
    BY DEF PoolInv
  <2>6. counts'["202"] = Cardinality(Recorded') + Len(backlog') + Cardinality(Following')
    BY <1>0, <2>1, <2>2, <2>3, <2>4, <2>5, FinitePool
  <2> QED BY <1>0, <2>6 DEF PoolInv
<1>2. ASSUME ppc[p] # "idle", NEW f \in Finals \cup {"BROKEN"}, EndFollow(p, f)
      PROVE  PoolInv'
  <2>1. p \in Following /\ Following' = Following \ {p} /\ backlog' = backlog
    BY <1>2 DEF EndFollow, Following, TypeInv, LoadTypeOK
  <2>2. Recorded' = Recorded \cup {job[p]} /\ job[p] \notin Recorded
    BY <1>2, <2>1 DEF EndFollow, Recorded, Finals, Terminal, TypeInv, LoadTypeOK, AtWork, PlaceInv
  <2>3. Cardinality(Following \ {p}) = Cardinality(Following) - 1
    BY <2>1, FinitePool, FS_RemoveElement
  <2>4. Cardinality(Recorded \cup {job[p]}) = Cardinality(Recorded) + 1
    BY <2>2, FinitePool, FS_AddElement
  <2> QED BY <1>0, <2>1, <2>2, <2>3, <2>4, FinitePool DEF PoolInv
<1>3. ASSUME ppc[p] # "idle", NEW c \in {"check", "request", "sleep"},
             ppc' = [ppc EXCEPT ![p] = c], UNCHANGED <<backlog, finals>>
      PROVE  PoolInv'
  <2>1. UNCHANGED <<backlog, Recorded, Following>>
    BY <1>3 DEF Following, Recorded, TypeInv, LoadTypeOK
  <2> QED BY <1>0, <2>1 DEF PoolInv
<1>4. CASE Check(p)
  BY <1>2, <1>3, <1>4 DEF Check, Ask, Finals
<1>5. CASE Answer(p)
  BY <1>2, <1>3, <1>5 DEF Answer, Sleep, Finals
<1>6. CASE Wake(p)
  BY <1>3, <1>6 DEF Wake
<1> QED BY <1>1, <1>4, <1>5, <1>6 DEF Poll

(* Each accepted job waits for a poller, has one or has been followed to   *)
(* the end, once; when run_load returns all of them have.                  *)
THEOREM FollowsAreAccounted == LoadSpec => []FollowsAccounted
<1>1. LoadInit => PlaceInv /\ PoolInv
  <2> SUFFICES ASSUME LoadInit PROVE PlaceInv /\ PoolInv
    OBVIOUS
  <2>1. Busy = {} /\ Waiting = {} /\ Recorded = {} /\ Following = {} /\ backlog = <<>>
    BY DEF LoadInit, Busy, Waiting, Recorded, Following
  <2>2. PlaceInv
    BY <2>1 DEF PlaceInv
  <2>3. counts["202"] = 0 /\ Cardinality({}) = 0 /\ Len(<<>>) = 0
    BY FS_EmptySet DEF LoadInit
  <2> QED BY <2>1, <2>2, <2>3 DEF PoolInv
<1>2. TypeInv /\ CountInv /\ PlaceInv /\ PoolInv /\ [LoadNext]_loadVars => (PlaceInv /\ PoolInv)'
  <2> SUFFICES ASSUME TypeInv, CountInv, PlaceInv, PoolInv, [LoadNext]_loadVars
               PROVE  PlaceInv' /\ PoolInv'
    OBVIOUS
  <2>1. ASSUME UNCHANGED <<clientVars, backlog, ppc, job, finals>>
        PROVE  PlaceInv' /\ UNCHANGED <<backlog, Recorded, Following, counts>>
    BY <2>1 DEF clientVars, PlaceInv, Busy, Waiting, Recorded, Following
  <2>2. CASE Join
    <3>1. mpc' = "returned" => Pollers = {}
      BY <2>2 DEF Join
    <3>2. Pollers = {} => Following = {}
      BY DEF Following
    <3> QED BY <2>1, <2>2, <3>1, <3>2 DEF Join, pollVars, followVars, PoolInv
  <2>3. CASE Drain
    <3>1. backlog = <<>> /\ Following = {}
      BY <2>3 DEF Drain, Following
    <3> QED BY <2>1, <2>3, <3>1 DEF Drain, pollVars, followVars, PoolInv
  <2>4. CASE LoadTick \/ UNCHANGED loadVars \/ (\E i \in Tasks : Serve(i))
             \/ \E p \in Pollers : Respond(p)
    <3>1. UNCHANGED <<clientVars, backlog, ppc, job, finals, mpc>>
      BY <2>4 DEF LoadTick, loadVars, pollVars, followVars, Serve, Respond
    <3> QED BY <2>1, <3>1 DEF PoolInv
  <2> QED BY <2>2, <2>3, <2>4, UploadPlaces, UploadPool, PollPlaces, PollPool DEF LoadNext
<1>3. TypeInv /\ PlaceInv /\ PoolInv => FollowsAccounted
  <2> SUFFICES ASSUME TypeInv, PlaceInv, PoolInv, Pollers # {}
               PROVE  /\ counts["202"] =
                           Cardinality(Recorded) + Len(backlog) + Cardinality(Following)
                      /\ \A p \in Following : job[p] \notin Recorded
                      /\ mpc = "returned" => counts["202"] = Cardinality(Recorded)
    BY DEF FollowsAccounted
  <2>1. ASSUME mpc = "returned"  PROVE counts["202"] = Cardinality(Recorded)
    <3>1. backlog = <<>> /\ Following = {}
      BY <2>1 DEF PoolInv
    <3>2. Len(backlog) = 0 /\ Cardinality(Following) = 0
      BY <3>1, FS_EmptySet
    <3> QED BY <3>2, FinitePool DEF PoolInv
  <2> QED BY <2>1 DEF PlaceInv, PoolInv
<1> QED BY <1>1, <1>2, <1>3, TypesKept, CountsKept, PTL DEF LoadSpec

=============================================================================
