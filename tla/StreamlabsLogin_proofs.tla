----------------------- MODULE StreamlabsLogin_proofs -----------------------
(* Proofs about the Streamlabs logins, for any number of profiles, tokens and *)
(* requests under way: the types, that the token of a deleted profile stays   *)
(* deleted, and that an undisturbed profile keeps the token accepted last.    *)
EXTENDS StreamlabsLogin, TLAPS

\* A verification that is alone is the only one of its profile, and what it
\* verifies is what is stored.
AloneHolds ==
  \A j \in jobs : j.alone =>
    /\ \A i \in jobs : i.profile = j.profile => i = j
    /\ j.profile \in Present => token[j.profile] = j.token

\* An undisturbed profile has at most one verification under way: it is alone and
\* would put the accepted token back.
UndisturbedHolds ==
  \A p \in Present \ disturbed :
    /\ \A j \in jobs : j.profile = p => j.alone /\ j.previous = accepted[p]
    /\ (\A j \in jobs : j.profile # p) => token[p] = accepted[p]
    /\ provider[p] = "streamlabs" => username[p] \in {NoToken, accepted[p]}

\* A profile that is not there yet has nothing, and one that is deleted keeps nothing.
AbsentHolds ==
  \A p \in Profiles :
    /\ provider[p] = "none" =>
         /\ token[p] = NoToken /\ accepted[p] = NoToken /\ username[p] = NoToken
         /\ \A j \in jobs : j.profile # p
    /\ provider[p] = "deleted" => token[p] = NoToken

\* What holds between any two steps.
Inv == TypeOK /\ AloneHolds /\ UndisturbedHolds /\ AbsentHolds

-----------------------------------------------------------------------------
(* Types. *)

Job == [id : 1 .. MaxPending, profile : Profiles, token : Tokens,
        previous : Tokens \cup {NoToken}, provider : Providers, alone : BOOLEAN]

LEMMA JoinedType ==
  ASSUME NEW p, NEW queue, queue \subseteq Job
  PROVE  Joined(p, queue) \subseteq Job
  BY DEF Joined, Job

LEMMA RequestType ==
  ASSUME TypeOK, NEW p \in Profiles, NEW through \in Providers, NEW t \in Tokens,
         NEW previous \in Tokens \cup {NoToken}, NEW queue, queue \subseteq jobs,
         Request(p, through, t, previous, queue)
  PROVE  jobs' \subseteq Job /\ disturbed' \subseteq Profiles
<1> queue \subseteq Job
  BY DEF TypeOK, Job
<1>1. Joined(p, queue) \subseteq Job
  BY JoinedType
<1>2. PICK id \in Free(queue) :
        jobs' = Joined(p, queue) \cup {[id |-> id, profile |-> p, token |-> t,
                  previous |-> previous, provider |-> through, alone |-> Of(p, queue) = {}]}
  BY DEF Request
<1>3. id \in 1 .. MaxPending
  BY DEF Free
<1>4. [id |-> id, profile |-> p, token |-> t, previous |-> previous, provider |-> through,
       alone |-> Of(p, queue) = {}] \in Job
  BY <1>3 DEF Job
<1>5. jobs' \subseteq Job
  BY <1>1, <1>2, <1>4
<1>6. disturbed' \subseteq Profiles
  <2>1. disturbed' \subseteq disturbed \cup {j.profile : j \in jobs \ queue} \cup {p}
    BY DEF Request
  <2>2. {j.profile : j \in jobs \ queue} \subseteq Profiles
    BY DEF TypeOK
  <2> QED
    BY <2>1, <2>2 DEF TypeOK
<1> QED
  BY <1>5, <1>6
RowTypes ==
  /\ username \in [Profiles -> Tokens \cup {NoToken, Other}]
  /\ token \in [Profiles -> Tokens \cup {NoToken}]

LEMMA VerifyType ==
  ASSUME TypeOK, NEW p \in Profiles, NEW t \in Tokens, Verify(p, t)
  PROVE  RowTypes' /\ jobs' \subseteq Job /\ disturbed' \subseteq Profiles
<1> RowTypes /\ jobs \subseteq Job /\ disturbed \subseteq Profiles
  BY DEF TypeOK, RowTypes, Job
<1>1. CASE UNCHANGED <<username, token, jobs, disturbed>>
  BY <1>1 DEF RowTypes
<1>2. CASE /\ token' = [token EXCEPT ![p] = t] /\ username' = [username EXCEPT ![p] = Other]
           /\ disturbed' = disturbed \cup {p} /\ jobs' = Joined(p, jobs)
  BY <1>2, JoinedType DEF RowTypes
<1>3. CASE /\ p \in Present /\ token' = [token EXCEPT ![p] = t] /\ UNCHANGED username
           /\ Request(p, provider[p], t, token[p], jobs)
  <2>1. provider[p] \in Providers /\ token[p] \in Tokens \cup {NoToken}
    BY <1>3 DEF Present, RowTypes
  <2>2. jobs' \subseteq Job /\ disturbed' \subseteq Profiles
    BY <1>3, <2>1, RequestType
  <2> QED
    BY <1>3, <2>2 DEF RowTypes
<1> QED
  BY <1>1, <1>2, <1>3 DEF Verify

LEMMA RecheckType ==
  ASSUME TypeOK, NEW p \in Profiles, NEW through \in Providers,
         NEW queue, queue \subseteq jobs, Recheck(p, through, queue)
  PROVE  jobs' \subseteq Job /\ disturbed' \subseteq Profiles
<1>1. CASE token[p] # NoToken /\ Request(p, through, token[p], token[p], queue)
  <2>1. token[p] \in Tokens
    BY <1>1 DEF TypeOK
  <2> QED
    BY <1>1, <2>1, RequestType
<1>2. CASE jobs' = queue /\ disturbed' = disturbed \cup {j.profile : j \in jobs \ queue}
  <2>1. {j.profile : j \in jobs \ queue} \subseteq Profiles
    BY DEF TypeOK
  <2> QED
    BY <1>2, <2>1 DEF TypeOK, Job
<1> QED
  BY <1>1, <1>2 DEF Recheck

LEMMA AnswerType ==
  ASSUME TypeOK, NEW j \in jobs, Answer(j)
  PROVE  /\ RowTypes' /\ jobs' \subseteq Job /\ disturbed' \subseteq Profiles
         /\ accepted' \in [Profiles -> Tokens \cup {NoToken}]
<1> j \in Job /\ RowTypes /\ jobs \subseteq Job
  BY DEF TypeOK, RowTypes, Job
<1>1. CASE Accepted(j)
  BY <1>1 DEF Accepted, Answer, TypeOK, RowTypes, Job
<1>2. CASE Refused(j)
  BY <1>2 DEF Refused, Answer, TypeOK, RowTypes, Job
<1>3. CASE UNCHANGED <<username, token, history>>
  BY <1>3 DEF Answer, TypeOK, RowTypes, history
<1> QED
  BY <1>1, <1>2, <1>3 DEF Answer, Verdict

LEMMA TypeNext == TypeOK /\ [Next]_vars => TypeOK'
<1> SUFFICES ASSUME TypeOK, [Next]_vars PROVE TypeOK'
  OBVIOUS
<1> USE DEF rows, browser, history
<1>1. ASSUME NEW p \in Profiles, Refresh(p) PROVE TypeOK'
  <2>1. jobs' \subseteq Job /\ disturbed' \subseteq Profiles
    BY <1>1, RecheckType DEF Refresh, Present
  <2> QED
    BY <1>1, <2>1 DEF Refresh, TypeOK, Job
<1>2. ASSUME NEW p \in Profiles, Paste(p) PROVE TypeOK'
  BY <1>2, VerifyType DEF Paste, TypeOK, RowTypes, Job
<1>3. ASSUME NEW p \in Profiles, SearchDesktop(p) PROVE TypeOK'
  BY <1>3 DEF SearchDesktop, TypeOK
<1>4. ASSUME NEW p \in Profiles, FoundOnDesktop(p) PROVE TypeOK'
  BY <1>4, VerifyType DEF FoundOnDesktop, TypeOK, RowTypes, Job
<1>5. ASSUME NEW p \in Profiles, AddProfile(p) PROVE TypeOK'
  BY <1>5 DEF AddProfile, TypeOK, Providers
<1>6. ASSUME NEW p \in Profiles, DeleteProfile(p) PROVE TypeOK'
  BY <1>6 DEF DeleteProfile, TypeOK, Providers
<1>7. ASSUME NEW p \in Profiles, NEW through \in Providers, ChooseProvider(p, through) PROVE TypeOK'
  <2>1. jobs' \subseteq Job /\ disturbed' \subseteq Profiles
    BY <1>7, RecheckType DEF ChooseProvider
  <2> QED
    BY <1>7, <2>1 DEF ChooseProvider, TypeOK, Job
<1>8. ASSUME NEW p \in Profiles, NEW id \in Logins, BeginLogin(p, id) PROVE TypeOK'
  BY <1>8 DEF BeginLogin, FinishLogin, TypeOK
<1>9. ASSUME NEW j \in jobs, Answer(j) PROVE TypeOK'
  BY <1>9, AnswerType DEF Answer, TypeOK, RowTypes, Job
<1>10. CASE Connect
  BY <1>10 DEF Connect, TypeOK
<1>11. ASSUME NEW id \in Logins, Read(id) PROVE TypeOK'
  <2>1. login.id \in Logins \cup {NoLogin}
    BY DEF TypeOK, Nobody
  <2> QED
    BY <1>11, <2>1 DEF Read, FinishLogin, TypeOK
<1>12. ASSUME NEW e \in exchanges, NotExchanged(e) PROVE TypeOK'
  BY <1>12 DEF NotExchanged, FinishLogin, TypeOK
<1>13. ASSUME NEW e \in exchanges, NEW t \in Tokens, Exchanged(e, t) PROVE TypeOK'
  <2>1. login.asker \in Profiles
    BY <1>13 DEF Exchanged, TypeOK
  <2>2. RowTypes' /\ jobs' \subseteq Job /\ disturbed' \subseteq Profiles
    BY <1>13, <2>1, VerifyType DEF Exchanged
  <2> QED
    BY <1>13, <2>2 DEF Exchanged, FinishLogin, TypeOK, RowTypes, Job
<1>14. CASE Restart
  <2>1. jobs' \subseteq Job /\ disturbed' \subseteq Profiles
    BY <1>14, RecheckType DEF Restart, Present
  <2> QED
    BY <1>14, <2>1 DEF Restart, TypeOK, Job
<1>15. CASE UNCHANGED vars
  BY <1>15 DEF vars, TypeOK
<1> QED
  BY <1>1, <1>2, <1>3, <1>4, <1>5, <1>6, <1>7, <1>8, <1>9, <1>10, <1>11, <1>12, <1>13, <1>14, <1>15
  DEF Next
-----------------------------------------------------------------------------
(* Verifications under way. *)

Marked(j, p) == [j EXCEPT !.alone = @ /\ j.profile # p]

LEMMA JoinedIs ==
  ASSUME NEW p, NEW queue, queue \subseteq Job, NEW j \in Joined(p, queue)
  PROVE  \E i \in queue : /\ j = Marked(i, p)
                          /\ j.profile = i.profile /\ j.token = i.token /\ j.previous = i.previous
                          /\ (j.alone <=> (i.alone /\ i.profile # p))
<1>1. PICK i \in queue : j = Marked(i, p)
  BY DEF Joined, Marked
<1>2. i \in Job
  OBVIOUS
<1> QED
  BY <1>1, <1>2 DEF Marked, Job

LEMMA JoinedOf ==
  ASSUME NEW p, NEW queue, queue \subseteq Job, NEW i \in queue
  PROVE  Marked(i, p) \in Joined(p, queue) /\ Marked(i, p).profile = i.profile
  BY DEF Joined, Marked, Job

\* The rows that a step with a new verification leaves as they are, but for an
\* account that is no longer shown.
RowsKept ==
  /\ Present' = Present /\ accepted' = accepted
  /\ \A q \in Profiles :
       /\ provider[q] = "none" <=> provider'[q] = "none"
       /\ provider[q] = "deleted" <=> provider'[q] = "deleted"
       /\ \/ username'[q] = NoToken
          \/ username'[q] = username[q] /\ provider'[q] = provider[q]

\* A verification that stores its token, or that finds it stored, keeps the invariant,
\* also when it is the only one that is left.
LEMMA RequestKeeps ==
  ASSUME Inv, TypeOK', NEW p \in Present, NEW through \in Providers, NEW t \in Tokens,
         NEW queue, queue = jobs \/ queue = {},
         Request(p, through, t, token[p], queue), token' = [token EXCEPT ![p] = t], RowsKept
  PROVE  AloneHolds' /\ UndisturbedHolds' /\ AbsentHolds'
<1> DEFINE alone == Of(p, queue) = {}
<1>0. /\ queue \subseteq jobs /\ jobs \subseteq Job /\ queue \subseteq Job
      /\ p \in Profiles /\ TypeOK /\ AloneHolds /\ UndisturbedHolds /\ AbsentHolds
  BY DEF Inv, TypeOK, Job, Present
<1>1. PICK id \in Free(queue) :
        jobs' = Joined(p, queue) \cup {[id |-> id, profile |-> p, token |-> t,
                  previous |-> token[p], provider |-> through, alone |-> alone]}
  BY DEF Request
<1> DEFINE new == [id |-> id, profile |-> p, token |-> t,
                   previous |-> token[p], provider |-> through, alone |-> alone]
<1>2. disturbed' = disturbed \cup {j.profile : j \in jobs \ queue} \cup (IF alone THEN {} ELSE {p})
  BY DEF Request
<1>3. jobs' = Joined(p, queue) \cup {new} /\ new.profile = p /\ new.token = t /\ new.previous = token[p]
      /\ new.alone = alone
  BY <1>1
<1>4. token'[p] = t /\ \A q \in Profiles \ {p} : token'[q] = token[q]
  BY <1>0 DEF TypeOK
<1>5. alone => \A j \in Joined(p, queue) : j.profile # p
  <2> SUFFICES ASSUME alone, NEW j \in Joined(p, queue) PROVE j.profile # p
    OBVIOUS
  <2>1. PICK i \in queue : j.profile = i.profile
    BY <1>0, JoinedIs
  <2> QED
    BY <2>1 DEF Of
<1> HIDE DEF new, alone
<1>6. AloneHolds'
  <2> SUFFICES ASSUME NEW j \in jobs', j.alone
               PROVE  /\ \A i \in jobs' : i.profile = j.profile => i = j
                      /\ j.profile \in Present => token'[j.profile] = j.token
    BY DEF AloneHolds, RowsKept
  <2>1. CASE j = new
    BY <2>1, <1>3, <1>4, <1>5
  <2>2. CASE j \in Joined(p, queue)
    <3>0. PICK k \in queue :
            /\ j = Marked(k, p)
            /\ j.profile = k.profile /\ j.token = k.token /\ j.previous = k.previous
            /\ (j.alone <=> (k.alone /\ k.profile # p))
      BY <2>2, <1>0, JoinedIs
    <3>1. /\ j = Marked(k, p) /\ j.profile = k.profile /\ j.token = k.token
          /\ k.alone /\ k.profile # p
      BY <3>0
    <3>2. /\ \A i \in jobs : i.profile = k.profile => i = k
          /\ k.profile \in Present => token[k.profile] = k.token
      BY <3>1, <1>0 DEF AloneHolds
    <3>3. ASSUME NEW i \in jobs', i.profile = j.profile PROVE i = j
      <4>1. i # new
        BY <3>3, <3>1, <1>3
      <4>2. PICK h \in queue : i = Marked(h, p) /\ i.profile = h.profile
        BY <4>1, <1>3, <1>0, JoinedIs
      <4>3. h = k
        BY <4>2, <3>1, <3>2, <3>3, <1>0
      <4> QED
        BY <4>2, <4>3, <3>1
    <3>4. k.profile \in Profiles
      BY <1>0, <3>1 DEF Job
    <3> QED
      BY <3>1, <3>2, <3>3, <3>4, <1>4
  <2> QED
    BY <2>1, <2>2, <1>3
<1>7. UndisturbedHolds'
  <2> SUFFICES ASSUME NEW q \in Present, q \notin disturbed'
               PROVE  /\ \A j \in jobs' : j.profile = q => j.alone /\ j.previous = accepted[q]
                      /\ (\A j \in jobs' : j.profile # q) => token'[q] = accepted[q]
                      /\ provider'[q] = "streamlabs" => username'[q] \in {NoToken, accepted[q]}
    BY DEF UndisturbedHolds, RowsKept
  <2>1. q \in Profiles /\ q \notin disturbed
    BY <1>2 DEF Present
  <2>2. /\ \A j \in jobs : j.profile = q => j.alone /\ j.previous = accepted[q]
        /\ (\A j \in jobs : j.profile # q) => token[q] = accepted[q]
        /\ provider[q] = "streamlabs" => username[q] \in {NoToken, accepted[q]}
    BY <2>1, <1>0 DEF UndisturbedHolds
  <2>3. provider'[q] = "streamlabs" => username'[q] \in {NoToken, accepted[q]}
    BY <2>1, <2>2 DEF RowsKept
  <2>4. \A j \in jobs \ queue : j.profile # q
    BY <1>2
  <2>5. CASE q = p
    <3>1. alone
      BY <2>5, <1>2
    <3>2. \A j \in jobs : j.profile # p
      BY <3>1, <2>4, <2>5 DEF alone, Of
    <3>3. \A j \in Joined(p, queue) : j.profile # p
      BY <3>1, <1>5
    <3>4. new.previous = accepted[p] /\ new.alone
      BY <3>1, <3>2, <2>2, <2>5, <1>3
    <3> QED
      BY <3>3, <3>4, <2>3, <2>5, <1>3
  <2>6. CASE q # p
    <3>1. ASSUME NEW j \in jobs', j.profile = q PROVE j.alone /\ j.previous = accepted[q]
      <4>1. PICK i \in queue : i.profile = q /\ j.previous = i.previous /\ (j.alone <=> (i.alone /\ i.profile # p))
        BY <3>1, <2>6, <1>3, <1>0, JoinedIs
      <4> QED
        BY <4>1, <2>2, <2>6, <1>0
    <3>2. ASSUME \A j \in jobs' : j.profile # q PROVE token'[q] = accepted[q]
      <4>1. ASSUME NEW i \in jobs PROVE i.profile # q
        <5>1. CASE i \in queue
          BY <5>1, <3>2, <1>0, <1>3, JoinedOf
        <5> QED
          BY <5>1, <2>4
      <4> QED
        BY <4>1, <2>1, <2>2, <2>6, <1>4
    <3> QED
      BY <3>1, <3>2, <2>3
  <2> QED
    BY <2>5, <2>6
<1>8. AbsentHolds'
  <2> SUFFICES ASSUME NEW q \in Profiles
               PROVE  /\ provider'[q] = "none" =>
                           /\ token'[q] = NoToken /\ accepted[q] = NoToken /\ username'[q] = NoToken
                           /\ \A j \in jobs' : j.profile # q
                      /\ provider'[q] = "deleted" => token'[q] = NoToken
    BY DEF AbsentHolds, RowsKept
  <2>1. CASE q = p
    <3>1. provider'[p] \in Providers
      BY DEF RowsKept, Present
    <3> QED
      BY <2>1, <3>1 DEF Providers
  <2>2. CASE q # p
    <3>1. provider'[q] = "none" =>
            /\ token[q] = NoToken /\ accepted[q] = NoToken /\ username'[q] = NoToken
            /\ \A j \in jobs : j.profile # q
      BY <1>0 DEF AbsentHolds, RowsKept
    <3>2. provider'[q] = "deleted" => token[q] = NoToken
      BY <1>0 DEF AbsentHolds, RowsKept
    <3>3. (\A j \in jobs : j.profile # q) => \A j \in jobs' : j.profile # q
      <4> SUFFICES ASSUME \A j \in jobs : j.profile # q, NEW j \in jobs' PROVE j.profile # q
        OBVIOUS
      <4>1. CASE j = new
        BY <4>1, <1>3, <2>2
      <4>2. CASE j \in Joined(p, queue)
        BY <4>2, <1>0, JoinedIs
      <4> QED
        BY <4>1, <4>2, <1>3
    <3> QED
      BY <3>1, <3>2, <3>3, <2>2, <1>4
  <2> QED
    BY <2>1, <2>2
<1> QED
  BY <1>6, <1>7, <1>8
Core == AloneHolds /\ UndisturbedHolds /\ AbsentHolds

LEMMA RecheckKeeps ==
  ASSUME Inv, TypeOK', NEW p \in Present, NEW through \in Providers,
         NEW queue, queue = jobs \/ queue = {},
         Recheck(p, through, queue), UNCHANGED token, RowsKept
  PROVE  Core'
<1>0. TypeOK /\ AloneHolds /\ UndisturbedHolds /\ AbsentHolds /\ p \in Profiles
  BY DEF Inv, Present
<1>1. CASE token[p] # NoToken /\ Request(p, through, token[p], token[p], queue)
  <2>1. token[p] \in Tokens /\ token' = [token EXCEPT ![p] = token[p]]
    BY <1>0, <1>1 DEF TypeOK
  <2> QED
    BY <1>1, <2>1, RequestKeeps DEF Core
<1>2. CASE jobs' = queue /\ disturbed' = disturbed \cup {j.profile : j \in jobs \ queue}
  <2>1. jobs' \subseteq jobs
    BY <1>2
  <2>2. AloneHolds'
    BY <2>1, <1>0 DEF AloneHolds, RowsKept
  <2>3. UndisturbedHolds'
    <3> SUFFICES ASSUME NEW q \in Present, q \notin disturbed'
                 PROVE  /\ \A j \in jobs' : j.profile = q => j.alone /\ j.previous = accepted[q]
                        /\ (\A j \in jobs' : j.profile # q) => token[q] = accepted[q]
                        /\ provider'[q] = "streamlabs" => username'[q] \in {NoToken, accepted[q]}
      BY DEF UndisturbedHolds, RowsKept
    <3>1. q \in Profiles /\ q \notin disturbed /\ \A j \in jobs \ queue : j.profile # q
      BY <1>2 DEF Present
    <3>2. /\ \A j \in jobs : j.profile = q => j.alone /\ j.previous = accepted[q]
          /\ (\A j \in jobs : j.profile # q) => token[q] = accepted[q]
          /\ provider[q] = "streamlabs" => username[q] \in {NoToken, accepted[q]}
      BY <3>1, <1>0 DEF UndisturbedHolds
    <3>3. (\A j \in jobs' : j.profile # q) => \A j \in jobs : j.profile # q
      BY <3>1, <1>2
    <3>4. provider'[q] = "streamlabs" => username'[q] \in {NoToken, accepted[q]}
      BY <3>1, <3>2 DEF RowsKept
    <3> QED
      BY <2>1, <3>2, <3>3, <3>4
  <2>4. AbsentHolds'
    BY <2>1, <1>0 DEF AbsentHolds, RowsKept
  <2> QED
    BY <2>2, <2>3, <2>4 DEF Core
<1> QED
  BY <1>1, <1>2 DEF Recheck

LEMMA VerifyKeeps ==
  ASSUME Inv, TypeOK', NEW p \in Profiles, NEW t \in Tokens, Verify(p, t),
         UNCHANGED <<provider, accepted>>
  PROVE  Core'
<1>0. /\ TypeOK /\ AloneHolds /\ UndisturbedHolds /\ AbsentHolds /\ jobs \subseteq Job
      /\ Present' = Present
  BY DEF Inv, TypeOK, Job, Present
<1>1. CASE UNCHANGED <<username, token, jobs, disturbed>>
  BY <1>0, <1>1 DEF Core, AloneHolds, UndisturbedHolds, AbsentHolds
<1>2. CASE /\ p \in Present /\ token' = [token EXCEPT ![p] = t]
           /\ username' = [username EXCEPT ![p] = Other]
           /\ disturbed' = disturbed \cup {p} /\ jobs' = Joined(p, jobs)
  <2>1. /\ token'[p] = t
        /\ \A q \in Profiles \ {p} : token'[q] = token[q] /\ username'[q] = username[q]
    BY <1>0, <1>2 DEF TypeOK
  <2>2. AloneHolds'
    <3> SUFFICES ASSUME NEW j \in jobs', j.alone
                 PROVE  /\ \A i \in jobs' : i.profile = j.profile => i = j
                        /\ j.profile \in Present => token'[j.profile] = j.token
      BY <1>0 DEF AloneHolds
    <3>0. j \in Joined(p, jobs) /\ jobs \subseteq Job
      BY <1>0, <1>2
    <3>1. PICK k \in jobs :
            /\ j = Marked(k, p)
            /\ j.profile = k.profile /\ j.token = k.token /\ j.previous = k.previous
            /\ (j.alone <=> (k.alone /\ k.profile # p))
      BY <3>0, JoinedIs
    <3>2. k.alone /\ k.profile # p
      BY <3>1
    <3>3. /\ \A i \in jobs : i.profile = k.profile => i = k
          /\ k.profile \in Present => token[k.profile] = k.token
      BY <3>2, <1>0 DEF AloneHolds
    <3>4. ASSUME NEW i \in jobs', i.profile = j.profile PROVE i = j
      <4>1. PICK h \in jobs : i = Marked(h, p) /\ i.profile = h.profile
        BY <1>2, <1>0, JoinedIs
      <4> QED
        BY <4>1, <3>1, <3>3, <3>4
    <3> QED
      BY <3>1, <3>2, <3>3, <3>4, <2>1 DEF Present
  <2>3. UndisturbedHolds'
    <3> SUFFICES ASSUME NEW q \in Present, q \notin disturbed'
                 PROVE  /\ \A j \in jobs' : j.profile = q => j.alone /\ j.previous = accepted[q]
                        /\ (\A j \in jobs' : j.profile # q) => token'[q] = accepted[q]
                        /\ provider[q] = "streamlabs" => username'[q] \in {NoToken, accepted[q]}
      BY <1>0 DEF UndisturbedHolds
    <3>1. q \in Profiles /\ q # p /\ q \notin disturbed
      BY <1>2 DEF Present
    <3>2. /\ \A j \in jobs : j.profile = q => j.alone /\ j.previous = accepted[q]
          /\ (\A j \in jobs : j.profile # q) => token[q] = accepted[q]
          /\ provider[q] = "streamlabs" => username[q] \in {NoToken, accepted[q]}
      BY <3>1, <1>0 DEF UndisturbedHolds
    <3>3. ASSUME NEW j \in jobs', j.profile = q PROVE j.alone /\ j.previous = accepted[q]
      <4>1. PICK i \in jobs : i.profile = q /\ j.previous = i.previous /\ (j.alone <=> (i.alone /\ i.profile # p))
        BY <3>3, <1>2, <1>0, JoinedIs
      <4> QED
        BY <4>1, <3>1, <3>2
    <3>4. (\A j \in jobs' : j.profile # q) => \A j \in jobs : j.profile # q
      BY <1>0, <1>2, JoinedOf
    <3> QED
      BY <3>1, <3>2, <3>3, <3>4, <2>1
  <2>4. AbsentHolds'
    <3> SUFFICES ASSUME NEW q \in Profiles
                 PROVE  /\ provider[q] = "none" =>
                             /\ token'[q] = NoToken /\ accepted[q] = NoToken /\ username'[q] = NoToken
                             /\ \A j \in jobs' : j.profile # q
                        /\ provider[q] = "deleted" => token'[q] = NoToken
      BY DEF AbsentHolds
    <3>1. CASE q = p
      BY <3>1, <1>2 DEF Present, Providers
    <3>2. CASE q # p
      <4>1. (\A j \in jobs : j.profile # q) => \A j \in jobs' : j.profile # q
        <5> SUFFICES ASSUME \A j \in jobs : j.profile # q, NEW j \in jobs' PROVE j.profile # q
          OBVIOUS
        <5> QED
          BY <1>0, <1>2, JoinedIs
      <4> QED
        BY <3>2, <4>1, <2>1, <1>0 DEF AbsentHolds
    <3> QED
      BY <3>1, <3>2
  <2> QED
    BY <2>2, <2>3, <2>4 DEF Core
<1>3. CASE /\ p \in Present /\ token' = [token EXCEPT ![p] = t] /\ UNCHANGED username
           /\ Request(p, provider[p], t, token[p], jobs)
  <2>1. provider[p] \in Providers /\ RowsKept
    BY <1>0, <1>3 DEF Present, RowsKept
  <2> QED
    BY <1>3, <2>1, RequestKeeps DEF Core
<1> QED
  BY <1>1, <1>2, <1>3 DEF Verify

LEMMA AnswerKeeps ==
  ASSUME Inv, TypeOK', NEW j \in jobs, Answer(j)
  PROVE  Core'
<1>0. /\ TypeOK /\ AloneHolds /\ UndisturbedHolds /\ AbsentHolds
      /\ j.profile \in Profiles /\ j.token \in Tokens /\ j.alone \in BOOLEAN
      /\ Present' = Present /\ jobs' = jobs \ {j} /\ UNCHANGED provider
  BY DEF Inv, TypeOK, Present, Answer
<1> DEFINE p == j.profile
<1>1. CASE UNCHANGED <<username, token, history>> /\ p \notin Present
  BY <1>0, <1>1 DEF Core, AloneHolds, UndisturbedHolds, AbsentHolds, history
<1>2. ASSUME p \in Present, Accepted(j) PROVE Core'
  <2>1. /\ UNCHANGED token /\ \A q \in Profiles \ {p} : username'[q] = username[q] /\ accepted'[q] = accepted[q]
        /\ \A q \in Profiles \ {p} : q \in disturbed <=> q \in disturbed'
    BY <1>0, <1>2 DEF Accepted, TypeOK
  <2>2. AloneHolds' /\ AbsentHolds'
    BY <1>0, <1>2, <2>1 DEF AloneHolds, AbsentHolds, Present, Providers
  <2>3. UndisturbedHolds'
    <3> SUFFICES ASSUME NEW q \in Present, q \notin disturbed'
                 PROVE  /\ \A i \in jobs' : i.profile = q => i.alone /\ i.previous = accepted'[q]
                        /\ (\A i \in jobs' : i.profile # q) => token[q] = accepted'[q]
                        /\ provider[q] = "streamlabs" => username'[q] \in {NoToken, accepted'[q]}
      BY <1>0, <2>1 DEF UndisturbedHolds
    <3>1. CASE q = p
      <4>1. /\ j.alone /\ accepted'[p] = j.token /\ username'[p] = j.token
        BY <3>1, <1>0, <1>2 DEF Accepted, TypeOK
      <4>2. \A i \in jobs' : i.profile # p
        BY <4>1, <1>0 DEF AloneHolds
      <4>3. token[p] = j.token
        BY <4>1, <1>0, <1>2 DEF AloneHolds
      <4> QED
        BY <3>1, <4>1, <4>2, <4>3
    <3>2. CASE q # p
      <4>1. q \in Profiles
        BY DEF Present
      <4>2. /\ \A i \in jobs : i.profile = q => i.alone /\ i.previous = accepted[q]
            /\ (\A i \in jobs : i.profile # q) => token[q] = accepted[q]
            /\ provider[q] = "streamlabs" => username[q] \in {NoToken, accepted[q]}
        BY <4>1, <2>1, <3>2, <1>0 DEF UndisturbedHolds
      <4> QED
        BY <4>1, <4>2, <2>1, <3>2, <1>0
    <3> QED
      BY <3>1, <3>2
  <2> QED
    BY <2>2, <2>3 DEF Core
<1>3. ASSUME p \in Present, Refused(j) PROVE Core'
  <2>1. CASE token' = [token EXCEPT ![p] = j.previous] /\ UNCHANGED <<username, accepted, disturbed>>
    <3>1. token'[p] = j.previous /\ \A q \in Profiles \ {p} : token'[q] = token[q]
      BY <1>0, <2>1 DEF TypeOK
    <3>2. AloneHolds'
      <4> SUFFICES ASSUME NEW i \in jobs', i.alone
                   PROVE  /\ \A h \in jobs' : h.profile = i.profile => h = i
                          /\ i.profile \in Present => token'[i.profile] = i.token
        BY <1>0 DEF AloneHolds
      <4>1. i.profile # p
        BY <1>0 DEF AloneHolds
      <4> QED
        BY <4>1, <1>0, <3>1 DEF AloneHolds, Present
    <3>3. UndisturbedHolds'
      <4> SUFFICES ASSUME NEW q \in Present, q \notin disturbed
                   PROVE  /\ \A i \in jobs' : i.profile = q => i.alone /\ i.previous = accepted[q]
                          /\ (\A i \in jobs' : i.profile # q) => token'[q] = accepted[q]
                          /\ provider[q] = "streamlabs" => username[q] \in {NoToken, accepted[q]}
        BY <1>0, <2>1 DEF UndisturbedHolds
      <4>1. /\ \A i \in jobs : i.profile = q => i.alone /\ i.previous = accepted[q]
            /\ (\A i \in jobs : i.profile # q) => token[q] = accepted[q]
            /\ provider[q] = "streamlabs" => username[q] \in {NoToken, accepted[q]}
        BY <1>0 DEF UndisturbedHolds
      <4>2. CASE q = p
        BY <4>1, <4>2, <3>1, <1>0
      <4>3. CASE q # p
        BY <4>1, <4>3, <3>1, <1>0 DEF Present
      <4> QED
        BY <4>2, <4>3
    <3>4. AbsentHolds'
      BY <1>0, <1>3, <2>1, <3>1 DEF AbsentHolds, Present, Providers
    <3> QED
      BY <3>2, <3>3, <3>4 DEF Core
  <2>2. CASE UNCHANGED <<username, accepted, token>> /\ disturbed' = disturbed \cup {p}
    BY <1>0, <2>2 DEF Core, AloneHolds, UndisturbedHolds, AbsentHolds
  <2> QED
    BY <1>3, <2>1, <2>2 DEF Refused
<1> QED
  BY <1>1, <1>2, <1>3 DEF Answer, Verdict
-----------------------------------------------------------------------------
(* Every step. *)

LEMMA InvInit == Init => Inv
  BY TokenAssumption DEF Init, Inv, TypeOK, AloneHolds, UndisturbedHolds, AbsentHolds, Present, Providers, Nobody

LEMMA QuietKeeps ==
  ASSUME Core, UNCHANGED <<rows, jobs, history>>
  PROVE  Core'
  BY DEF rows, history, Core, AloneHolds, UndisturbedHolds, AbsentHolds, Present

LEMMA InvNext == Inv /\ [Next]_vars => Inv'
<1> SUFFICES ASSUME Inv, [Next]_vars PROVE Inv'
  OBVIOUS
<1>0. TypeOK /\ TypeOK' /\ Core
  BY TypeNext DEF Inv, Core
<1> USE DEF rows, browser, history
<1>1. ASSUME NEW p \in Profiles, Refresh(p) PROVE Core'
  <2>1. p \in Present /\ provider[p] \in Providers /\ UNCHANGED token /\ RowsKept
    BY <1>1 DEF Refresh, RowsKept, Present
  <2> QED
    BY <1>0, <1>1, <2>1, RecheckKeeps DEF Refresh
<1>2. ASSUME NEW p \in Profiles, Paste(p) PROVE Core'
  BY <1>0, <1>2, VerifyKeeps DEF Paste
<1>3. ASSUME NEW p \in Profiles, SearchDesktop(p) PROVE Core'
  BY <1>0, <1>3, QuietKeeps DEF SearchDesktop
<1>4. ASSUME NEW p \in Profiles, FoundOnDesktop(p) PROVE Core'
  BY <1>0, <1>4, VerifyKeeps DEF FoundOnDesktop
<1>5. ASSUME NEW p \in Profiles, AddProfile(p) PROVE Core'
  <2>1. /\ provider[p] = "none" /\ provider' = [provider EXCEPT ![p] = "tiktok-studio"]
        /\ UNCHANGED <<username, token, jobs, accepted, disturbed>>
    BY <1>5 DEF AddProfile
  <2>2. AloneHolds' /\ AbsentHolds'
    BY <2>1, <1>0 DEF Core, AloneHolds, AbsentHolds, Present, TypeOK
  <2>3. UndisturbedHolds'
    BY <2>1, <1>0 DEF Core, UndisturbedHolds, AbsentHolds, Present, TypeOK
  <2> QED
    BY <2>2, <2>3 DEF Core
<1>6. ASSUME NEW p \in Profiles, DeleteProfile(p) PROVE Core'
  <2> DEFINE Rest == /\ provider'[p] = "deleted" /\ token'[p] = NoToken /\ UNCHANGED jobs /\ p \in Present
             /\ \A q \in Profiles \ {p} :
                  /\ token'[q] = token[q] /\ username'[q] = username[q] /\ accepted'[q] = accepted[q]
                  /\ q \in disturbed <=> q \in disturbed'
                  /\ provider'[q] = provider[q] \/ (provider[q] = "none" /\ provider'[q] = "tiktok-studio")
  <2>1. Rest
    <3>1. CASE provider' = [provider EXCEPT ![p] = "deleted"]
      BY <3>1, <1>0, <1>6 DEF DeleteProfile, TypeOK
    <3>2. ASSUME NEW q \in Profiles, provider[q] = "none",
                 provider' = [provider EXCEPT ![p] = "deleted", ![q] = "tiktok-studio"]
          PROVE  Rest
      <4>1. q # p
        BY <3>2, <1>6 DEF DeleteProfile, Present, Providers
      <4> QED
        BY <3>2, <4>1, <1>0, <1>6 DEF DeleteProfile, TypeOK
    <3> QED
      BY <3>1, <3>2, <1>6 DEF DeleteProfile
  <2>2. \A q \in Profiles \ {p} : provider'[q] \in Providers => q \in Present \/ provider[q] = "none"
    BY <2>1 DEF Present
  <2>3. AloneHolds'
    BY <2>1, <2>2, <1>0 DEF Core, AloneHolds, AbsentHolds, Present, Providers, TypeOK
  <2>4. UndisturbedHolds'
    BY <2>1, <2>2, <1>0 DEF Core, UndisturbedHolds, AbsentHolds, Present, Providers
  <2>5. AbsentHolds'
    BY <2>1, <2>2, <1>0 DEF Core, AbsentHolds, Present, Providers
  <2> QED
    BY <2>3, <2>4, <2>5 DEF Core
<1>7. ASSUME NEW p \in Profiles, NEW through \in Providers, ChooseProvider(p, through) PROVE Core'
  <2>1. p \in Present /\ UNCHANGED token /\ RowsKept
    BY <1>0, <1>7 DEF ChooseProvider, LoginForm, RowsKept, Present, Providers, TypeOK
  <2> QED
    BY <1>0, <1>7, <2>1, RecheckKeeps DEF ChooseProvider
<1>8. ASSUME NEW p \in Profiles, NEW id \in Logins, BeginLogin(p, id) PROVE Core'
  BY <1>0, <1>8, QuietKeeps DEF BeginLogin
<1>9. ASSUME NEW j \in jobs, Answer(j) PROVE Core'
  BY <1>0, <1>9, AnswerKeeps
<1>10. ASSUME Connect PROVE Core'
  BY <1>0, <1>10, QuietKeeps DEF Connect
<1>11. ASSUME NEW id \in Logins, Read(id) PROVE Core'
  BY <1>0, <1>11, QuietKeeps DEF Read
<1>12. ASSUME NEW e \in exchanges, NotExchanged(e) PROVE Core'
  BY <1>0, <1>12, QuietKeeps DEF NotExchanged
<1>13. ASSUME NEW e \in exchanges, NEW t \in Tokens, Exchanged(e, t) PROVE Core'
  <2>1. login.asker \in Profiles
    BY <1>0, <1>13 DEF Exchanged, TypeOK
  <2> QED
    BY <1>0, <1>13, <2>1, VerifyKeeps DEF Exchanged
<1>14. ASSUME Restart PROVE Core'
  <2>1. UNCHANGED token /\ RowsKept
    BY <1>14 DEF Restart, RowsKept, Present
  <2>2. PICK p \in Present : Recheck(p, provider[p], {})
    BY <1>14 DEF Restart
  <2>3. provider[p] \in Providers
    BY DEF Present
  <2> DEFINE queue == {}
  <2>4. (queue = jobs \/ queue = {}) /\ Recheck(p, provider[p], queue)
    BY <2>2
  <2> HIDE DEF queue
  <2> QED
    BY <1>0, <2>1, <2>3, <2>4, RecheckKeeps
<1>15. ASSUME UNCHANGED vars PROVE Core'
  BY <1>0, <1>15, QuietKeeps DEF vars
<1>16. Core'
  BY <1>1, <1>2, <1>3, <1>4, <1>5, <1>6, <1>7, <1>8, <1>9, <1>10, <1>11, <1>12, <1>13, <1>14, <1>15
  DEF Next
<1> QED
  BY <1>0, <1>16 DEF Inv, Core

\* The invariant of the logins: what the three theorems below rest on.
THEOREM Invariant == Spec => []Inv
  BY InvInit, InvNext, PTL DEF Spec

\* Every answer, search, login and restart keeps rows, tokens and requests in their types.
THEOREM TypeCorrect == Spec => []TypeOK
<1>1. Inv => TypeOK
  BY DEF Inv
<1> QED
  BY <1>1, Invariant, PTL

\* However many searches, logins and verifications answer after a profile was
\* deleted, its token does not come back.
THEOREM DeletedForGood == Spec => []DeletedStaysDeleted
<1>1. Inv => DeletedStaysDeleted
  BY DEF Inv, AbsentHolds, DeletedStaysDeleted
<1> QED
  BY <1>1, Invariant, PTL

\* Between undisturbed verifications a profile has the token that was accepted last,
\* whoever else logs in, changes provider or is deleted meanwhile.
THEOREM LoginKept == Spec => []AcceptedIsStored
<1>1. Inv => AcceptedIsStored
  BY DEF Inv, UndisturbedHolds, AcceptedIsStored, Of
<1> QED
  BY <1>1, Invariant, PTL
-----------------------------------------------------------------------------
(* The browser login. *)

\* A code is exchanged with the verifier of the login that waited when it came.
CodeHolds == verifier = login.id /\ \A e \in exchanges : e.verifier = e.waiting

LEMMA CodeInit == Init => CodeHolds
  BY DEF Init, CodeHolds, Nobody

LEMMA CodeNext == CodeHolds /\ [Next]_vars => CodeHolds'
<1> SUFFICES ASSUME CodeHolds, [Next]_vars PROVE CodeHolds'
  OBVIOUS
<1>1. CASE UNCHANGED <<login, verifier>> /\ exchanges' \subseteq exchanges
  BY <1>1 DEF CodeHolds
<1>2. CASE FinishLogin /\ exchanges' \subseteq exchanges
  BY <1>2 DEF CodeHolds, FinishLogin, Nobody
<1>3. ASSUME NEW p \in Profiles, NEW id \in Logins, BeginLogin(p, id) PROVE CodeHolds'
  BY <1>3 DEF BeginLogin, FinishLogin, CodeHolds, Nobody
<1>4. ASSUME NEW id \in Logins, Read(id) PROVE CodeHolds'
  <2>1. CASE /\ exchanges' = exchanges \cup {[code |-> id, verifier |-> verifier, waiting |-> login.id]}
             /\ UNCHANGED <<login, verifier>>
    BY <2>1 DEF CodeHolds
  <2> QED
    BY <1>2, <1>4, <2>1 DEF Read
<1>5. ASSUME NEW p \in Profiles, NEW through \in Providers,
             \/ Refresh(p) \/ Paste(p) \/ SearchDesktop(p) \/ FoundOnDesktop(p)
             \/ AddProfile(p) \/ DeleteProfile(p) \/ ChooseProvider(p, through)
      PROVE  CodeHolds'
  BY <1>1, <1>5 DEF Refresh, Paste, SearchDesktop, FoundOnDesktop, AddProfile, DeleteProfile,
     ChooseProvider, browser
<1>6. ASSUME NEW j \in jobs, Answer(j) PROVE CodeHolds'
  BY <1>1, <1>6 DEF Answer, browser
<1>7. ASSUME NEW e \in exchanges, NEW t \in Tokens, Exchanged(e, t) PROVE CodeHolds'
  BY <1>2, <1>7 DEF Exchanged
<1>8. ASSUME NEW e \in exchanges, NotExchanged(e) PROVE CodeHolds'
  BY <1>2, <1>8 DEF NotExchanged
<1>9. ASSUME Connect \/ UNCHANGED vars PROVE CodeHolds'
  BY <1>1, <1>9 DEF Connect, vars, browser
<1>10. ASSUME Restart PROVE CodeHolds'
  BY <1>10 DEF Restart, CodeHolds, Nobody
<1>11. ASSUME NEW p \in Profiles,
              \/ Refresh(p) \/ Paste(p) \/ SearchDesktop(p) \/ FoundOnDesktop(p)
              \/ AddProfile(p) \/ DeleteProfile(p)
       PROVE  CodeHolds'
  BY <1>5, <1>11 DEF Providers
<1> QED
  BY <1>3, <1>4, <1>5, <1>6, <1>7, <1>8, <1>9, <1>10, <1>11 DEF Next

\* Late pages never complete somebody else's login.
THEOREM CodesApart == Spec => OwnCodeOnly
<1>1. ASSUME CodeHolds, [Next]_vars,
             NEW e \in exchanges, NEW t \in Tokens, Exchanged(e, t), login.id = e.waiting
      PROVE  e.code = login.id
  BY <1>1 DEF CodeHolds, Exchanged
<1>2. CodeHolds /\ [Next]_vars =>
        [\A e \in exchanges, t \in Tokens :
           Exchanged(e, t) /\ login.id = e.waiting => e.code = login.id]_vars
  BY <1>1
<1> QED
  BY <1>2, CodeInit, CodeNext, PTL DEF Spec, OwnCodeOnly
=============================================================================
