--------------------------- MODULE ClientsAndContents_proofs -------------------
(***************************************************************************)
(* Proofs about what the controllers share and about what they compare:    *)
(* Retry, for every schedule and every set of status codes; GetConfig with *)
(* the ProviderConfigUsages it leaves, for any number of CRs, any names of *)
(* configs and any number of upsets; and the contents of definitions,      *)
(* policies, variable groups and Azure endpoints, for any texts, ids and   *)
(* variables.  The three share no variable: the specification of Retry is  *)
(* RetrySpec, that of the contents ContentsSpec, that of the configs Spec. *)
(***************************************************************************)
EXTENDS Retry, ProviderConfigUsage, ResourceContents, TLAPS, FiniteSetTheorems

-----------------------------------------------------------------------------
(* Retry: the steps left and the calls made add up to the schedule *)

\* The codes Retry itself names are among the codes.
LEMMA CodeTypes == NoError \in Codes /\ NoResponse \in Codes /\ TooManyRequests \in Codes
  BY DEF Codes

\* The loop's accounts, and what they are kept for, hold in every reachable
\* state (Retry).
THEOREM RetryInductive == RetrySpec => []RetryInv
<1>1. RetryInit => RetryInv
  BY CodeTypes, RetryAssumption
     DEF RetryInit, RetryInv, RetryTypeOK, Accounted, CallsBounded, Settled, RepeatsOnlyLost, IsRetryable, NoError
<1>2. RetryInv /\ [RetryNext]_retryVars => RetryInv'
  <2> SUFFICES ASSUME RetryInv, [RetryNext]_retryVars PROVE RetryInv'
    OBVIOUS
  <2> USE RetryAssumption DEF RetryInv, RetryTypeOK, Accounted, CallsBounded, Settled, RepeatsOnlyLost
  <2>1. CASE Check
    <3>1. calls = 0 => ~IsRetryable(lastErr)
      BY DEF IsRetryable
    <3> QED
      BY <2>1, <3>1 DEF Check
  <2>2. CASE Call
    <3>1. RetryTypeOK'
      BY <2>2, CodeTypes DEF Call, Codes
    <3>2. Accounted' /\ CallsBounded' /\ Settled'
      BY <2>2 DEF Call
    <3>3. RepeatsOnlyLost'
      <4>1. calls = 0 \/ lastErr # NoError
        BY <2>2 DEF Call, IsRetryable
      <4>2. CASE MayCreate /\ lastErr' = NoError /\ made' = made + 1 /\ lost' = lost
        BY <2>2, <4>1, <4>2 DEF Call
      <4>3. CASE /\ lastErr' \in {NoResponse} \cup ServerErrors
                 /\ \/ made' = made /\ lost' = lost
                    \/ MayCreate /\ made' = made + 1 /\ lost' = lost + 1
        <5>1. lastErr' # NoError
          BY <4>3 DEF NoError, NoResponse
        <5>2. QED  BY <2>2, <4>1, <4>3, <5>1 DEF Call
      <4>4. CASE /\ lastErr' \in {TooManyRequests} \cup ClientErrors
                 /\ made' = made /\ lost' = lost
        <5>1. lastErr' # NoError
          BY <4>4 DEF NoError, TooManyRequests
        <5>2. QED  BY <2>2, <4>1, <4>4, <5>1 DEF Call
      <4>5. QED  BY <2>2, <4>2, <4>3, <4>4 DEF Call
    <3> QED
      BY <3>1, <3>2, <3>3
  <2>3. CASE Judge
    <3>1. CASE ~IsRetryable(lastErr) \/ left = 1
      BY <2>3, <3>1 DEF Judge
    <3>2. CASE IsRetryable(lastErr) /\ left # 1
      BY <2>3, <3>2 DEF Judge
    <3> QED
      BY <3>1, <3>2
  <2>4. CASE Wait
    BY <2>4 DEF Wait
  <2>5. CASE Cancel
    BY <2>5 DEF Cancel
  <2>6. CASE UNCHANGED retryVars
    BY <2>6 DEF retryVars
  <2> QED
    BY <2>1, <2>2, <2>3, <2>4, <2>5, <2>6 DEF RetryNext
<1> QED
  BY <1>1, <1>2, PTL DEF RetrySpec

\* The number of requests never exceeds the schedule (retry.go:15).
THEOREM WithinSchedule == RetrySpec => []CallsBounded
<1>1. RetryInv => CallsBounded
  BY DEF RetryInv
<1> QED
  BY <1>1, RetryInductive, PTL

\* Retry hands back a final answer or the last of all, unless the context ended.
THEOREM SettledAnswer == RetrySpec => []Settled
<1>1. RetryInv => Settled
  BY DEF RetryInv
<1> QED
  BY <1>1, RetryInductive, PTL

\* Whatever is lost and however long the schedule, of the things Retry made the
\* caller is told of one, and all others are those whose response was lost.
THEOREM NoNeedlessDoubles == RetrySpec => []RepeatsOnlyLost
<1>1. RetryInv => RepeatsOnlyLost
  BY DEF RetryInv
<1> QED
  BY <1>1, RetryInductive, PTL

\* No request follows a success or a refusal.
THEOREM FinalIsFinal == RetrySpec => OnlyRetryableAgain
<1>1. RetryInv /\ [RetryNext]_retryVars => [calls' # calls => calls = 0 \/ IsRetryable(lastErr)]_retryVars
  BY RetryAssumption DEF RetryInv, RetryTypeOK, Accounted, RetryNext, Check, Call, Judge, Wait, Cancel, retryVars
<1> QED
  BY <1>1, RetryInductive, PTL DEF RetrySpec, OnlyRetryableAgain

-----------------------------------------------------------------------------
(* ProviderConfigUsage: what a CR relies on, its usage holds back *)

USE DEF Upset, Usage

RunStates == {Idle} \cup [pc : {"track", "tracked"}, cr : CR, fresh : BOOLEAN]
Versions(S) == Seq(S) \ {<<>>}

\* References are told apart from Nothing, and those that can be read are some of them.
LEMMA ReferenceTypes ==
  Nothing \notin References /\ Configs \subseteq References /\ Nothing \notin Configs
  BY ProviderConfigAssumption DEF References, Configs, ConfigKinds

\* Of the versions of an object, the informer has the first and the API server the last.
LEMMA Ends ==
  ASSUME NEW S, NEW s \in Versions(S)
  PROVE  /\ 1 \in DOMAIN s /\ Len(s) \in DOMAIN s
         /\ Seen(s) = s[1] /\ Seen(s) \in S /\ Newest(s) = s[Len(s)] /\ Newest(s) \in S
  BY DEF Versions, Seen, Newest

\* A version that is written becomes the last; the others stay.
LEMMA Appending ==
  ASSUME NEW S, NEW s \in Versions(S), NEW e \in S
  PROVE  /\ Append(s, e) \in Versions(S) /\ Newest(Append(s, e)) = e
         /\ \A i \in DOMAIN Append(s, e) :
              Append(s, e)[i] = e \/ (i \in DOMAIN s /\ Append(s, e)[i] = s[i])
  BY DEF Versions, Newest

\* A version that is delivered replaces the first; the last stays.
LEMMA Delivering ==
  ASSUME NEW S, NEW s \in Versions(S), Len(s) > 1
  PROVE  /\ Tail(s) \in Versions(S) /\ Newest(Tail(s)) = Newest(s)
         /\ \A i \in DOMAIN Tail(s) : i + 1 \in DOMAIN s /\ Tail(s)[i] = s[i + 1]
  BY DEF Versions, Newest

\* A version of a CR has a stage and a reference, or says that it is gone.
LEMMA CRTypes ==
  /\ \A cr \in CR : cr.ref \in References /\ cr.stage \in {"live", "deleting"}
  /\ Gone.ref = Nothing /\ Gone.stage = "gone"
  /\ \A cr \in CR \cup {Gone} : cr # Gone => cr \in CR
  BY DEF CR, Gone

\* A reconcile that is under way has a copy of a CR.
LEMMA RunTypes ==
  ASSUME TypeOK, NEW r \in Resources
  PROVE  /\ run[r] \in RunStates
         /\ run[r].pc # "idle" => /\ run[r] \in [pc : {"track", "tracked"}, cr : CR, fresh : BOOLEAN]
                                  /\ run[r].cr \in CR /\ run[r].cr.ref \in References
         /\ Idle \in RunStates /\ Idle.pc = "idle"
  BY DEF TypeOK, RunStates, Idle, CR

\* A reconcile ends.
LEMMA Returns ==
  ASSUME TypeOK, NEW r \in Resources, Return(r)
  PROVE  /\ run' \in [Resources -> RunStates] /\ run'[r].pc = "idle"
         /\ \A s \in Resources \ {r} : run'[s] = run[s]
<1>1. run \in [Resources -> RunStates] /\ Idle \in RunStates /\ Idle.pc = "idle"
  BY RunTypes DEF TypeOK, RunStates
<1> HIDE DEF RunStates
<1>2. run' = [run EXCEPT ![r] = Idle]
  BY DEF Return
<1>3. QED  BY <1>1, <1>2

\* A reconcile goes on, with the copy it has.
LEMMA GoesOn ==
  ASSUME TypeOK, NEW r \in Resources, run[r].pc # "idle", Step(r, "tracked")
  PROVE  /\ run' \in [Resources -> RunStates] /\ run'[r].pc = "tracked"
         /\ \A s \in Resources \ {r} : run'[s] = run[s]
<1> PICK q : q = [run[r] EXCEPT !.pc = "tracked"]
  OBVIOUS
<1>1. /\ run \in [Resources -> RunStates]
      /\ run[r] \in [pc : {"track", "tracked"}, cr : CR, fresh : BOOLEAN]
  BY RunTypes DEF TypeOK, RunStates
<1>2. q \in [pc : {"track", "tracked"}, cr : CR, fresh : BOOLEAN] /\ q.pc = "tracked"
  BY <1>1
<1>3. q \in RunStates
  BY <1>2 DEF RunStates
<1>4. run' = [run EXCEPT ![r] = q]
  BY DEF Step
<1> HIDE DEF RunStates
<1>5. QED  BY <1>1, <1>2, <1>3, <1>4

\* The user's writes make copies old, and do nothing else to reconciles.
LEMMA GrowsOld ==
  ASSUME TypeOK, NEW r \in Resources, run' = [run EXCEPT ![r].fresh = FALSE]
  PROVE  /\ run' \in [Resources -> RunStates]
         /\ \A s \in Resources : run'[s].pc = run[s].pc /\ run'[s].cr = run[s].cr
<1> PICK q : q = [run[r] EXCEPT !.fresh = FALSE]
  OBVIOUS
<1>1. run \in [Resources -> RunStates] /\ run[r] \in RunStates
  BY RunTypes DEF TypeOK, RunStates
<1>2. q \in RunStates /\ q.pc = run[r].pc /\ q.cr = run[r].cr
  <2>1. CASE run[r] = Idle
    <3>1. run[r] \in [pc : {"idle"}, cr : {Nothing}, fresh : {FALSE}]
      BY <2>1 DEF Idle
    <3>2. q \in [pc : {"idle"}, cr : {Nothing}, fresh : {FALSE}]
      BY <3>1
    <3>3. q = Idle
      BY <3>2 DEF Idle
    <3>4. QED  BY <2>1, <3>3 DEF RunStates
  <2>2. CASE run[r] \in [pc : {"track", "tracked"}, cr : CR, fresh : BOOLEAN]
    BY <2>2 DEF RunStates
  <2>3. QED  BY <1>1, <2>1, <2>2 DEF RunStates
<1>3. run' = [run EXCEPT ![r] = q]
  OBVIOUS
<1> HIDE DEF RunStates
<1>4. QED  BY <1>1, <1>2, <1>3

(***************************************************************************)
(* Relying, as a history.                                                  *)
(***************************************************************************)

\* The variables but relied, well typed after the step.
OthersOK ==
  /\ crs \in [Resources -> Versions(CR \cup {Gone})]
  /\ run \in [Resources -> RunStates]
  /\ usages \in [Resources -> Versions(References \cup {Nothing})]
  /\ configs \in [Configs -> ConfigStages]
  /\ upsets \in 0 .. MaxUpsets

\* A CR that relies on a config has just begun to, or goes on.
LEMMA RelyTypes ==
  ASSUME TypeOK, Rely, OthersOK'
  PROVE  /\ TypeOK'
         /\ \A r \in Resources :
              relied'[r] # Nothing =>
                \/ BeginsToRely(r) /\ relied'[r] = run[r].cr.ref
                \/ relied'[r] = relied[r] /\ Newest(crs'[r]).ref = relied[r]
<1>1. ASSUME NEW r \in Resources
      PROVE  /\ relied'[r] \in Configs \cup {Nothing}
             /\ relied'[r] # Nothing =>
                  \/ BeginsToRely(r) /\ relied'[r] = run[r].cr.ref
                  \/ relied'[r] = relied[r] /\ Newest(crs'[r]).ref = relied[r]
  <2>1. relied[r] \in Configs \cup {Nothing}
    BY DEF TypeOK
  <2>2. CASE BeginsToRely(r)
    <3>1. relied'[r] = run[r].cr.ref /\ run[r].cr.ref \in Configs
      BY <2>2 DEF Rely, BeginsToRely
    <3>2. QED  BY <2>2, <3>1
  <2>3. CASE ~BeginsToRely(r) /\ Newest(crs'[r]).ref = relied[r]
    BY <2>1, <2>3 DEF Rely
  <2>4. CASE ~BeginsToRely(r) /\ Newest(crs'[r]).ref # relied[r]
    BY <2>4 DEF Rely
  <2>5. QED  BY <2>2, <2>3, <2>4
<1>2. relied' \in [Resources -> Configs \cup {Nothing}]
  <2>1. relied' = [r \in Resources |-> relied'[r]]
    BY DEF Rely
  <2>2. QED  BY <1>1, <2>1
<1>3. TypeOK'
  BY <1>2 DEF OthersOK, TypeOK, RunStates, Versions
<1>4. QED  BY <1>1, <1>3

\* What a CR needs to go on relying on a config: nothing that is yet to be
\* delivered, and no reconcile, is of another reference.
Upheld(r, c) ==
  /\ AllRefer(crs[r], c) /\ AllName(usages[r], c)
  /\ configs[c] \in {"kept", "deleting"}
  /\ run[r].pc = "track" => run[r].cr.ref = c

\* What holds before the step, for the lemmas about actions.
LEMMA Before ==
  ASSUME IInv
  PROVE  /\ TypeOK /\ OthersOK
         /\ \A r \in Resources :
              /\ crs[r] \in Versions(CR \cup {Gone})
              /\ usages[r] \in Versions(References \cup {Nothing})
         /\ \A r \in Resources :
              relied[r] # Nothing =>
                /\ relied[r] \in Configs
                /\ Upheld(r, relied[r])
                /\ Newest(crs[r]).ref = relied[r] /\ Newest(crs[r]) # Gone
                /\ Seen(crs[r]).ref = relied[r]
                /\ Seen(usages[r]) = relied[r]
<1>1. TypeOK /\ OthersOK
  BY DEF IInv, TypeOK, OthersOK, RunStates, Versions
<1>2. \A r \in Resources : /\ crs[r] \in Versions(CR \cup {Gone})
                           /\ usages[r] \in Versions(References \cup {Nothing})
                           /\ relied[r] \in Configs \cup {Nothing}
  BY <1>1 DEF OthersOK, TypeOK
<1>3. ASSUME NEW r \in Resources, relied[r] # Nothing
      PROVE  /\ relied[r] \in Configs
             /\ Upheld(r, relied[r])
             /\ Newest(crs[r]).ref = relied[r] /\ Newest(crs[r]) # Gone
             /\ Seen(crs[r]).ref = relied[r]
             /\ Seen(usages[r]) = relied[r]
  <2>1. relied[r] \in Configs /\ Upheld(r, relied[r])
    BY <1>2, <1>3 DEF IInv, Relied, Upheld
  <2>2. /\ 1 \in DOMAIN crs[r] /\ Seen(crs[r]) = crs[r][1]
        /\ Len(crs[r]) \in DOMAIN crs[r] /\ Newest(crs[r]) = crs[r][Len(crs[r])]
    BY <1>2, Ends
  <2>3. 1 \in DOMAIN usages[r] /\ Seen(usages[r]) = usages[r][1]
    BY <1>2, Ends
  <2>4. Newest(crs[r]).ref = relied[r] /\ Seen(crs[r]).ref = relied[r] /\ Seen(usages[r]) = relied[r]
    BY <2>1, <2>2, <2>3 DEF Upheld, AllRefer, AllName
  <2>5. QED  BY <1>3, <2>1, <2>4, CRTypes
<1>4. QED  BY <1>1, <1>2, <1>3

\* Where no CR begins to rely, it is enough that the others are not let down.
LEMMA GoesOnRelying ==
  ASSUME IInv, Rely, OthersOK', \A r \in Resources : ~BeginsToRely(r),
         \A r \in Resources :
           relied[r] # Nothing /\ Newest(crs'[r]).ref = relied[r] =>
             /\ AllRefer(crs'[r], relied[r]) /\ AllName(usages'[r], relied[r])
             /\ configs'[relied[r]] \in {"kept", "deleting"}
             /\ run'[r].pc = "track" => run'[r].cr.ref = relied[r]
  PROVE  IInv'
<1>1. /\ TypeOK'
      /\ \A r \in Resources :
           relied'[r] # Nothing => relied'[r] = relied[r] /\ Newest(crs'[r]).ref = relied[r]
  BY RelyTypes DEF IInv
<1>2. Relied'
  BY <1>1 DEF Relied
<1>3. QED  BY <1>1, <1>2 DEF IInv

(***************************************************************************)
(* The reconciles of CRs.                                                  *)
(***************************************************************************)

\* Only Track makes a CR begin to rely on its config, and a reconcile that begins
\* goes by the first of the versions.
LEMMA BeginKeeps ==
  ASSUME IInv, NEW r \in Resources, Begin(r), Rely
  PROVE  IInv'
<1> PICK q : q = [pc |-> "track", cr |-> Seen(crs[r]), fresh |-> Len(crs[r]) = 1]
  OBVIOUS
<1>1. Seen(crs[r]) \in CR
  BY Before, Ends, CRTypes DEF Begin
<1>2. q \in RunStates /\ q.pc = "track" /\ q.cr = Seen(crs[r])
  BY <1>1 DEF RunStates
<1>3. /\ run' \in [Resources -> RunStates] /\ run'[r] = q
      /\ \A s \in Resources \ {r} : run'[s] = run[s]
  BY <1>2, Before DEF Begin, OthersOK
<1>4. UNCHANGED <<crs, usages, configs, upsets>>
  BY DEF Begin
<1>5. OthersOK'
  BY <1>3, <1>4, Before DEF OthersOK
<1>6. \A s \in Resources : ~BeginsToRely(s)
  BY <1>2, <1>3 DEF BeginsToRely
<1>7. \A s \in Resources :
        relied[s] # Nothing =>
          /\ AllRefer(crs'[s], relied[s]) /\ AllName(usages'[s], relied[s])
          /\ configs'[relied[s]] \in {"kept", "deleting"}
          /\ run'[s].pc = "track" => run'[s].cr.ref = relied[s]
  BY <1>2, <1>3, <1>4, Before DEF Upheld
<1>8. QED  BY <1>5, <1>6, <1>7, GoesOnRelying

\* Nor does the end of a reconcile, be it the CR's.
LEMMA EndKeeps ==
  ASSUME IInv, NEW r \in Resources, Return(r), Rely, UNCHANGED <<usages, configs>>,
         upsets' \in 0 .. MaxUpsets,
         crs' = crs \/ WriteCR(r, Gone)
  PROVE  IInv'
<1>1. /\ run' \in [Resources -> RunStates] /\ run'[r].pc = "idle"
      /\ \A s \in Resources \ {r} : run'[s] = run[s]
  BY Returns, Before
<1>2. /\ crs' \in [Resources -> Versions(CR \cup {Gone})]
      /\ \A s \in Resources : crs'[s] = crs[s] \/ Newest(crs'[s]) = Gone
  <2>1. CASE crs' = crs
    BY <2>1, Before DEF OthersOK
  <2>2. CASE WriteCR(r, Gone)
    <3> PICK cr \in CR \cup {Gone} : cr = Gone
      OBVIOUS
    <3> PICK t : t = Append(crs[r], cr)
      OBVIOUS
    <3>1. crs[r] \in Versions(CR \cup {Gone})
      BY Before
    <3>2. t \in Versions(CR \cup {Gone}) /\ Newest(t) = cr
      BY <3>1, Appending
    <3>3. QED  BY <2>2, <3>2, Before DEF WriteCR, OthersOK
  <2>3. QED  BY <2>1, <2>2
<1>3. OthersOK'
  BY <1>1, <1>2, Before DEF OthersOK
<1>4. \A s \in Resources : ~BeginsToRely(s)
  BY <1>1 DEF BeginsToRely
<1>5. ASSUME NEW s \in Resources, relied[s] # Nothing, Newest(crs'[s]).ref = relied[s]
      PROVE  /\ AllRefer(crs'[s], relied[s]) /\ AllName(usages'[s], relied[s])
             /\ configs'[relied[s]] \in {"kept", "deleting"}
             /\ run'[s].pc = "track" => run'[s].cr.ref = relied[s]
  <2>1. crs'[s] = crs[s]
    BY <1>2, <1>5, CRTypes
  <2>2. QED  BY <1>1, <1>5, <2>1, Before DEF Upheld
<1>6. QED  BY <1>3, <1>4, <1>5, GoesOnRelying

\* GetConfig leaves alone a usage its CR relies on, and a CR that begins to rely
\* has one that all versions agree on.
LEMMA TrackKeeps ==
  ASSUME IInv, NEW r \in Resources, Track(r), Rely
  PROVE  IInv'
<1> PICK ref : ref = run[r].cr.ref
  OBVIOUS
<1>1. /\ UNCHANGED <<crs, configs, upsets>>
      /\ run[r].pc = "track" /\ run[r].pc # "idle" /\ ref \in References
  BY RunTypes, Before DEF Track
<1>2. CASE Return(r) /\ UNCHANGED usages
  BY <1>1, <1>2, EndKeeps, Before DEF OthersOK
<1>3. CASE /\ Step(r, "tracked")
           /\ \/ Seen(usages[r]) = ref /\ usages' = usages
              \/ Seen(usages[r]) # ref /\ WriteUsage(r, ref)
  <2>1. /\ run' \in [Resources -> RunStates] /\ run'[r].pc = "tracked"
        /\ \A s \in Resources \ {r} : run'[s] = run[s]
    BY <1>1, <1>3, GoesOn, Before
  <2>2. /\ usages' \in [Resources -> Versions(References \cup {Nothing})]
        /\ \A s \in Resources \ {r} : usages'[s] = usages[s]
        /\ Seen(usages[r]) = ref => usages'[r] = usages[r]
    <3>1. CASE Seen(usages[r]) = ref /\ usages' = usages
      BY <3>1, Before DEF OthersOK
    <3>2. CASE Seen(usages[r]) # ref /\ WriteUsage(r, ref)
      <4> PICK t : t = Append(usages[r], ref)
        OBVIOUS
      <4>1. t \in Versions(References \cup {Nothing})
        BY <1>1, Before, Appending
      <4>2. QED  BY <3>2, <4>1, Before DEF WriteUsage, OthersOK
    <3>3. QED  BY <1>3, <3>1, <3>2
  <2>3. OthersOK'
    BY <1>1, <2>1, <2>2, Before DEF OthersOK
  <2>4. /\ TypeOK'
        /\ \A s \in Resources :
             relied'[s] # Nothing =>
               \/ BeginsToRely(s) /\ relied'[s] = run[s].cr.ref
               \/ relied'[s] = relied[s] /\ Newest(crs'[s]).ref = relied[s]
    BY <2>3, RelyTypes, Before
  <2>5. ASSUME NEW s \in Resources, relied'[s] # Nothing
        PROVE  /\ AllRefer(crs[s], relied'[s]) /\ AllName(usages'[s], relied'[s])
               /\ configs[relied'[s]] \in {"kept", "deleting"}
               /\ run'[s].pc = "track" => run'[s].cr.ref = relied'[s]
    <3>1. CASE BeginsToRely(s) /\ relied'[s] = run[s].cr.ref
      BY <3>1 DEF BeginsToRely
    <3>2. CASE relied'[s] = relied[s]
      <4>1. Upheld(s, relied[s]) /\ Seen(usages[s]) = relied[s]
        BY <2>5, <3>2, Before
      <4>2. CASE s = r
        BY <1>1, <2>1, <2>2, <3>2, <4>1, <4>2 DEF Upheld
      <4>3. CASE s # r
        BY <2>1, <2>2, <3>2, <4>1, <4>3 DEF Upheld
      <4>4. QED  BY <4>2, <4>3
    <3>3. QED  BY <2>4, <2>5, <3>1, <3>2
  <2>6. Relied'
    BY <1>1, <2>5 DEF Relied
  <2>7. QED  BY <2>4, <2>6 DEF IInv
<1>4. QED  BY <1>2, <1>3 DEF Track

\* Reading the config ends the reconcile, with the CR gone at most.
LEMMA ReadConfigKeeps ==
  ASSUME IInv, NEW r \in Resources, ReadConfig(r), Rely
  PROVE  IInv'
<1>1. upsets' \in 0 .. MaxUpsets
  BY Before DEF ReadConfig, OthersOK
<1>2. Return(r) /\ UNCHANGED <<usages, configs>>
  BY DEF ReadConfig
<1>3. crs' = crs \/ WriteCR(r, Gone)
  BY DEF ReadConfig
<1>4. QED  BY <1>1, <1>2, <1>3, EndKeeps

\* So does a failure, wherever it comes.
LEMMA FailKeeps ==
  ASSUME IInv, NEW r \in Resources, Fail(r), Rely
  PROVE  IInv'
<1>1. upsets' \in 0 .. MaxUpsets
  BY Before, ProviderConfigAssumption DEF Fail, OthersOK
<1>2. QED  BY <1>1, EndKeeps DEF Fail

(***************************************************************************)
(* The informers, the usages, the controllers that count them, the user.   *)
(***************************************************************************)

\* Whatever the informers have yet to deliver of a CR that relies on a config, or
\* of its usage, is of that config.
LEMMA DeliverKeeps ==
  ASSUME IInv, NEW r \in Resources, Deliver(r), Rely
  PROVE  IInv'
<1>1. UNCHANGED <<run, configs, upsets>>
  BY DEF Deliver, DeliverCR, DeliverUsage
<1>2. \A s \in Resources : ~BeginsToRely(s)
  BY <1>1 DEF BeginsToRely
<1>3. CASE DeliverCR(r)
  <2> PICK t : t = Tail(crs[r])
    OBVIOUS
  <2>1. /\ t \in Versions(CR \cup {Gone})
        /\ \A i \in DOMAIN t : i + 1 \in DOMAIN crs[r] /\ t[i] = crs[r][i + 1]
    <3>1. crs[r] \in Versions(CR \cup {Gone}) /\ Len(crs[r]) > 1
      BY <1>3, Before DEF DeliverCR
    <3>2. QED  BY <3>1, Delivering
  <2>2. /\ crs' \in [Resources -> Versions(CR \cup {Gone})] /\ usages' = usages /\ crs'[r] = t
        /\ \A s \in Resources \ {r} : crs'[s] = crs[s]
    BY <1>3, <2>1, Before DEF DeliverCR, OthersOK
  <2>3. OthersOK'
    BY <1>1, <2>2, Before DEF OthersOK
  <2>4. \A c : AllRefer(crs[r], c) => AllRefer(crs'[r], c)
    BY <2>1, <2>2 DEF AllRefer
  <2>5. \A s \in Resources, c \in Configs : AllRefer(crs[s], c) => AllRefer(crs'[s], c)
    BY <2>2, <2>4
  <2>6. QED  BY <1>1, <1>2, <2>2, <2>3, <2>5, Before, GoesOnRelying DEF Upheld
<1>4. CASE DeliverUsage(r)
  <2> PICK t : t = Tail(usages[r])
    OBVIOUS
  <2>1. /\ t \in Versions(References \cup {Nothing})
        /\ \A i \in DOMAIN t : i + 1 \in DOMAIN usages[r] /\ t[i] = usages[r][i + 1]
    <3>1. usages[r] \in Versions(References \cup {Nothing}) /\ Len(usages[r]) > 1
      BY <1>4, Before DEF DeliverUsage
    <3>2. QED  BY <3>1, Delivering
  <2>2. /\ usages' \in [Resources -> Versions(References \cup {Nothing})] /\ crs' = crs /\ usages'[r] = t
        /\ \A s \in Resources \ {r} : usages'[s] = usages[s]
    BY <1>4, <2>1, Before DEF DeliverUsage, OthersOK
  <2>3. OthersOK'
    BY <1>1, <2>2, Before DEF OthersOK
  <2>4. \A c : AllName(usages[r], c) => AllName(usages'[r], c)
    BY <2>1, <2>2 DEF AllName
  <2>5. \A s \in Resources, c \in Configs : AllName(usages[s], c) => AllName(usages'[s], c)
    BY <2>2, <2>4
  <2>6. QED  BY <1>1, <1>2, <2>2, <2>3, <2>5, Before, GoesOnRelying DEF Upheld
<1>5. QED  BY <1>3, <1>4 DEF Deliver

\* A usage that is collected was that of a CR that is gone and relies on nothing.
LEMMA CollectKeeps ==
  ASSUME IInv, NEW r \in Resources, CollectUsage(r), Rely
  PROVE  IInv'
<1>1. UNCHANGED <<crs, run, configs, upsets>>
  BY DEF CollectUsage
<1>2. \A s \in Resources : ~BeginsToRely(s)
  BY <1>1 DEF BeginsToRely
<1>3. relied[r] = Nothing
  BY Before DEF CollectUsage
<1> PICK none \in References \cup {Nothing} : none = Nothing
  OBVIOUS
<1> PICK t : t = Append(usages[r], none)
  OBVIOUS
<1>4. t \in Versions(References \cup {Nothing})
  <2>1. usages[r] \in Versions(References \cup {Nothing})
    BY Before
  <2>2. QED  BY <2>1, Appending
<1>5. /\ usages' \in [Resources -> Versions(References \cup {Nothing})]
      /\ \A s \in Resources \ {r} : usages'[s] = usages[s]
  BY <1>4, Before DEF CollectUsage, WriteUsage, OthersOK
<1>6. OthersOK'
  BY <1>1, <1>5, Before DEF OthersOK
<1>7. QED  BY <1>1, <1>2, <1>3, <1>5, <1>6, Before, GoesOnRelying DEF Upheld

\* A config that is let go has no user in the list, and a CR that relies on it
\* would be one.
LEMMA ConfigKeeps ==
  ASSUME IInv, NEW c \in Configs, ConfigStep(c), Rely
  PROVE  IInv'
<1>1. UNCHANGED <<crs, run, usages, upsets>>
  BY DEF ConfigStep, KeepConfig, ReleaseConfig
<1>2. \A s \in Resources : ~BeginsToRely(s)
  BY <1>1 DEF BeginsToRely
<1>3. /\ configs' \in [Configs -> ConfigStages]
      /\ \A d \in Configs \ {c} : configs'[d] = configs[d]
  BY Before DEF ConfigStep, KeepConfig, ReleaseConfig, OthersOK, ConfigStages
<1>4. OthersOK'
  BY <1>1, <1>3, Before DEF OthersOK
<1>5. \A s \in Resources : relied[s] # c
  <2>1. CASE KeepConfig(c)
    BY <2>1, Before, ReferenceTypes DEF KeepConfig, Upheld
  <2>2. CASE ReleaseConfig(c)
    BY <2>2, Before, ReferenceTypes DEF ReleaseConfig, Users
  <2>3. QED  BY <2>1, <2>2 DEF ConfigStep
<1>6. QED  BY <1>1, <1>2, <1>3, <1>4, <1>5, Before, GoesOnRelying DEF Upheld

\* A CR that is retargeted or goes relies on nothing; one that enters deletion
\* keeps its reference.
LEMMA ChangeKeeps ==
  ASSUME IInv, Rely, NEW r \in Resources, NEW cr \in CR \cup {Gone}, ChangeCR(r, cr),
         UNCHANGED <<usages, configs>>, upsets' \in 0 .. MaxUpsets
  PROVE  IInv'
<1>1. /\ run' \in [Resources -> RunStates]
      /\ \A s \in Resources : run'[s].pc = run[s].pc /\ run'[s].cr = run[s].cr
  BY GrowsOld, Before DEF ChangeCR
<1>2. \A s \in Resources : ~BeginsToRely(s)
  BY <1>1 DEF BeginsToRely
<1> PICK t : t = Append(crs[r], cr)
  OBVIOUS
<1>3. /\ t \in Versions(CR \cup {Gone}) /\ Newest(t) = cr
      /\ \A i \in DOMAIN t : t[i] = cr \/ (i \in DOMAIN crs[r] /\ t[i] = crs[r][i])
  <2>1. crs[r] \in Versions(CR \cup {Gone})
    BY Before
  <2>2. QED  BY <2>1, Appending
<1>4. /\ crs' \in [Resources -> Versions(CR \cup {Gone})] /\ crs'[r] = t
      /\ \A s \in Resources \ {r} : crs'[s] = crs[s]
  BY <1>3, Before DEF ChangeCR, WriteCR, OthersOK
<1>5. OthersOK'
  BY <1>1, <1>4, Before DEF OthersOK
<1>6. \A c : AllRefer(crs[r], c) /\ Newest(crs'[r]).ref = c => AllRefer(crs'[r], c)
  BY <1>3, <1>4 DEF AllRefer
<1>7. \A s \in Resources, c \in Configs :
        AllRefer(crs[s], c) /\ Newest(crs'[s]).ref = c => AllRefer(crs'[s], c)
  BY <1>4, <1>6
<1>8. QED  BY <1>1, <1>2, <1>5, <1>7, Before, GoesOnRelying DEF Upheld

\* The user retargets a CR, deletes one, or deletes a config, which only one that
\* nothing relies on does at once.
LEMMA UserKeeps ==
  ASSUME IInv, UserStep, Rely
  PROVE  IInv'
<1>1. ASSUME NEW r \in Resources, Retarget(r)
      PROVE  IInv'
  <2>1. Newest(crs[r]) \in CR
    BY <1>1, Before, Ends, CRTypes DEF Retarget
  <2>2. PICK ref \in References : ChangeCR(r, [Newest(crs[r]) EXCEPT !.ref = ref])
    BY <1>1 DEF Retarget
  <2>3. [Newest(crs[r]) EXCEPT !.ref = ref] \in CR
    BY <2>1 DEF CR
  <2>4. upsets' \in 0 .. MaxUpsets /\ UNCHANGED <<usages, configs>>
    BY <1>1, Before, ProviderConfigAssumption DEF Retarget, OthersOK
  <2>5. QED  BY <2>2, <2>3, <2>4, ChangeKeeps
<1>2. ASSUME NEW r \in Resources, DeleteCR(r)
      PROVE  IInv'
  <2>1. Newest(crs[r]) \in CR
    BY <1>2, Before, Ends, CRTypes DEF DeleteCR
  <2>2. [Newest(crs[r]) EXCEPT !.stage = "deleting"] \in CR
    BY <2>1 DEF CR
  <2>3. upsets' \in 0 .. MaxUpsets /\ UNCHANGED <<usages, configs>>
    BY <1>2, Before DEF DeleteCR, OthersOK
  <2>4. ChangeCR(r, [Newest(crs[r]) EXCEPT !.stage = "deleting"]) \/ ChangeCR(r, Gone)
    BY <1>2 DEF DeleteCR
  <2>5. QED  BY <2>2, <2>3, <2>4, ChangeKeeps
<1>3. ASSUME NEW c \in Configs, DeleteConfig(c)
      PROVE  IInv'
  <2>1. UNCHANGED <<crs, run, usages, upsets>>
    BY <1>3 DEF DeleteConfig
  <2>2. \A r \in Resources : ~BeginsToRely(r)
    BY <2>1 DEF BeginsToRely
  <2>3. /\ configs' \in [Configs -> ConfigStages]
        /\ configs[c] = "kept" => configs'[c] = "deleting"
        /\ configs[c] \in {"new", "kept"}
        /\ \A d \in Configs \ {c} : configs'[d] = configs[d]
    BY <1>3, Before DEF OthersOK, ConfigStages, DeleteConfig
  <2>4. OthersOK'
    BY <2>1, <2>3, Before DEF OthersOK
  <2>5. ASSUME NEW s \in Resources, relied[s] # Nothing
        PROVE  configs'[relied[s]] \in {"kept", "deleting"}
    BY <2>3, <2>5, Before DEF Upheld
  <2>6. QED  BY <2>1, <2>2, <2>4, <2>5, Before, GoesOnRelying DEF Upheld
<1>4. QED  BY <1>1, <1>2, <1>3 DEF UserStep

(***************************************************************************)
(* The theorems.                                                           *)
(***************************************************************************)

\* Nobody relies on anything to begin with.
LEMMA InitKeeps == Init => IInv
<1> SUFFICES ASSUME Init PROVE IInv
  OBVIOUS
<1>1. [stage : {"live"}, ref : Configs] \subseteq CR
  BY ReferenceTypes DEF CR
<1>2. \A cr \in CR \cup {Gone} : <<cr>> \in Seq(CR \cup {Gone}) \ {<<>>}
  OBVIOUS
<1>3. crs \in [Resources -> Seq(CR \cup {Gone}) \ {<<>>}]
  <2> PICK First : First = {<<cr>> : cr \in [stage : {"live"}, ref : Configs] \cup {Gone}}
    OBVIOUS
  <2>1. crs \in [Resources -> First]
    BY DEF Init
  <2>2. First \subseteq Seq(CR \cup {Gone}) \ {<<>>}
    BY <1>1, <1>2
  <2>3. QED  BY <2>1, <2>2
<1>4. <<Nothing>> \in Seq(References \cup {Nothing}) \ {<<>>}
  OBVIOUS
<1>5. TypeOK
  BY <1>3, <1>4, ProviderConfigAssumption DEF Init, TypeOK, ConfigStages
<1>6. Relied
  BY DEF Init, Relied
<1>7. QED  BY <1>5, <1>6 DEF IInv

\* Every step preserves the invariant.
LEMMA StepKeeps == IInv /\ [Next]_vars => IInv'
<1> SUFFICES ASSUME IInv, [Next]_vars PROVE IInv'
  OBVIOUS
<1>1. ASSUME NEW r \in Resources, Reconcile(r), Rely
      PROVE  IInv'
  BY <1>1, BeginKeeps, TrackKeeps, ReadConfigKeeps DEF Reconcile, GetConfig
<1>2. ASSUME NEW r \in Resources, Deliver(r) \/ CollectUsage(r), Rely
      PROVE  IInv'
  BY <1>2, DeliverKeeps, CollectKeeps
<1>3. ASSUME NEW r \in Resources, Fail(r), Rely
      PROVE  IInv'
  BY <1>3, FailKeeps
<1>4. ASSUME NEW c \in Configs, ConfigStep(c), Rely
      PROVE  IInv'
  BY <1>4, ConfigKeeps
<1>5. CASE UserStep /\ Rely
  BY <1>5, UserKeeps
<1>6. CASE UNCHANGED vars
  BY <1>6 DEF IInv, TypeOK, Relied, vars
<1>7. QED  BY <1>1, <1>2, <1>3, <1>4, <1>5, <1>6 DEF Next

\* In every reachable state what a CR has come to rely on is in place: its
\* reference and its usage, in the API server and in all that the informers are yet
\* to deliver, and the finalizer of its config (GetConfig, the config controllers).
THEOREM Inductive == Spec => []IInv
  BY InitKeeps, StepKeeps, PTL DEF Spec

\* Every variable keeps its type.
THEOREM TypeCorrect == Spec => []TypeOK
<1>1. IInv => TypeOK
  BY DEF IInv
<1>2. QED  BY <1>1, Inductive, PTL

\* However many CRs and configs there are, however often references change and
\* however far the informers lag behind, a config a CR has come to rely on does not
\* go before the CR is gone or has another reference: a CR in deletion can still
\* read the config it needs to go (GetConfig and ReleaseConfig).
THEOREM ConfigsStay == Spec => []Protected
<1>1. IInv => Protected
  BY DEF IInv, Relied, Protected
<1>2. QED  BY <1>1, Inductive, PTL

-----------------------------------------------------------------------------
(* Contents: what one edit changes *)

\* A record keeps its type when one field is given another of its values.
LEMMA ChangedRecords ==
  ASSUME NEW types, NEW values, NEW r, IsRecord(r, types), NEW s \in Changed(r, values),
         DOMAIN values \subseteq DOMAIN types, \A f \in DOMAIN values : values[f] \subseteq types[f]
  PROVE  IsRecord(s, types)
<1>1. PICK f \in DOMAIN values : \E v \in values[f] : s = [r EXCEPT ![f] = v]
  BY DEF Changed
<1>2. PICK v \in values[f] : s = [r EXCEPT ![f] = v]
  BY <1>1
<1>3. s = [g \in DOMAIN types |-> IF g = f THEN v ELSE r[g]]
  BY <1>2 DEF IsRecord
<1> QED  BY <1>3 DEF IsRecord

-----------------------------------------------------------------------------
(* Definitions *)

\* The fields of a CR's parameters (BuildDefinitionParameters).
LEMMA BDFields ==
  ASSUME NEW p, IsRecord(p, BD!Parameters)
  PROVE  /\ p.name \in Texts /\ p.path \in Texts \cup {Empty, BD!Root}
         /\ p.project \in GuidTexts36 /\ p.repository \in GuidTexts36
         /\ p.repositoryRef \in Texts \cup {None, Empty} /\ p.yamlPath \in Texts
         /\ p.groups \in BD!GroupTexts /\ p.ci \in BOOLEAN /\ p.pr \in BOOLEAN
<1>1. DOMAIN BD!Parameters = {"name", "path", "project", "repository", "repositoryRef", "yamlPath", "groups", "ci", "pr"}
  BY DEF BD!Parameters
<1> QED  BY <1>1 DEF IsRecord, BD!Parameters, BD!GuidTexts36, GuidTexts36, BD!GuidTexts, GuidTexts, BD!GuidForms, GuidForms, BD!Empty, Empty

\* The fields of a definition that matter below, as Azure DevOps has it.
LEMMA DFields ==
  ASSUME NEW d, IsRecord(d, BD!Definition)
  PROVE  /\ d.repository \in [id : Guids, branch : Texts \cup {Empty}] /\ d.triggers \in SUBSET {"ci", "pr", "schedule"}
         /\ d.project \in Guids /\ d.groups \in Seq(Numbers) /\ d.rest \in Texts \cup {Empty}
<1>1. DOMAIN BD!Definition = {"name", "path", "project", "repository", "yamlFile", "triggers", "groups", "rest"}
  BY DEF BD!Definition
<1> QED  BY <1>1 DEF IsRecord, BD!Definition, BD!TriggerTypes, BD!Empty, Empty

\* The fields of a CR's parameters and its variables (VariableGroupParameters).
LEMMA VGFields ==
  ASSUME NEW p, IsRecord(p, VG!ParametersAndVariables)
  PROVE  /\ p.name \in Texts /\ p.description \in Texts \cup {Empty}
         /\ p.project \in GuidTexts /\ p.keyVault \in VG!KeyVaults \cup {None}
         /\ p.variables \in [Names -> VG!Variables \cup {None}]
<1>1. DOMAIN VG!ParametersAndVariables = {"name", "description", "project", "keyVault", "variables"}
  BY DEF VG!ParametersAndVariables
<1> QED  BY <1>1 DEF IsRecord, VG!ParametersAndVariables, VG!GuidTexts, GuidTexts, VG!GuidForms, GuidForms, VG!Empty, Empty

\* An injective function of an interval into itself is onto.
LEMMA Surjective ==
  ASSUME NEW n \in Nat, NEW f \in [1..n -> 1..n], IsInjective(f)
  PROVE  \A j \in 1..n : \E i \in 1..n : f[i] = j
<1>1. f \in Injection(1..n, 1..n)
  BY DEF IsInjective, Injection
<1>2. IsFiniteSet(1..n) 
  BY FS_Interval
<1>3. f \in Surjection(1..n, 1..n)
  BY <1>1, <1>2, FS_Injection
<1> QED  BY <1>3 DEF Surjection

\* The groups a CR names are a sequence of texts, whatever the bound on their
\* number.
LEMMA GroupSequences ==
  ASSUME NEW s, s \in BD!GroupTexts
  PROVE  s \in Seq(NumberTexts)
  BY DEF BD!GroupTexts, BD!BoundedSeq, BD!SeqOf, BD!NumberTexts, NumberTexts

\* Two lists of the same length of which the first, free of repetitions, is
\* found in the second name the same groups: a group cannot hide another
\* (variableGroupsMatch).
LEMMA GroupsNoticed ==
  ASSUME NEW texts, NEW groups, texts \in Seq(NumberTexts), groups \in Seq(Numbers),
         BD!GroupsMatch(texts, groups), IsInjective(texts)
  PROVE  /\ \A i \in DOMAIN texts : \E j \in DOMAIN groups : groups[j] = texts[i].value
         /\ \A j \in DOMAIN groups : \E i \in DOMAIN texts : groups[j] = texts[i].value
<1> DEFINE n == Len(texts)
           match == [i \in 1..n |-> CHOOSE j \in 1..n : Itoa(groups[j]) = texts[i]]
<1>1. n \in Nat /\ DOMAIN texts = 1..n /\ DOMAIN groups = 1..n
  BY DEF BD!GroupsMatch
<1>2. \A i \in 1..n : \E j \in 1..n : Itoa(groups[j]) = texts[i]
  BY <1>1 DEF BD!GroupsMatch, BD!Itoa, Itoa
<1>3. \A i \in 1..n : match[i] \in 1..n /\ Itoa(groups[match[i]]) = texts[i]
  BY <1>2
<1>4. match \in [1..n -> 1..n]
  BY <1>3
<1> HIDE DEF match
<1>5. ASSUME NEW i \in 1..n PROVE groups[match[i]] = texts[i].value
  <2>1. texts[i] = Itoa(groups[match[i]])
    BY <1>3
  <2> QED  BY <2>1 DEF Itoa
<1>6. IsInjective(match)
  BY <1>1, <1>3, <1>4 DEF IsInjective
<1>7. \A j \in 1..n : \E i \in 1..n : match[i] = j
  BY <1>1, <1>4, <1>6, Surjective
<1>8. \A i \in 1..n : match[i] \in 1..n
  BY <1>4
<1> HIDE DEF n
<1>9. \A i \in 1..n : \E j \in 1..n : groups[j] = texts[i].value
  BY <1>5, <1>8
<1>10. \A j \in 1..n : \E i \in 1..n : groups[j] = texts[i].value
  BY <1>5, <1>7
<1> QED  BY <1>1, <1>9, <1>10

\* A definition found up to date is what the parameters stand for, if no group
\* is named twice (isUpToDate).
LEMMA DefinitionNoticed ==
  ASSUME NEW p, NEW d, IsRecord(p, BD!Parameters), IsRecord(d, BD!Definition),
         BD!IsUpToDate(p, d), BD!Distinct(p)
  PROVE  BD!Meaning(d) = BD!Asked(p)
<1>1. {d.groups[i] : i \in DOMAIN d.groups} = {p.groups[i].value : i \in DOMAIN p.groups}
  <2>1. p.groups \in Seq(NumberTexts) /\ d.groups \in Seq(Numbers)
    BY BDFields, DFields, GroupSequences
  <2>2. IsInjective(p.groups)
    BY DEF BD!Distinct, BD!IsInjective, IsInjective
  <2>3. BD!GroupsMatch(p.groups, d.groups)
    BY DEF BD!IsUpToDate
  <2>4. /\ \A i \in DOMAIN p.groups : \E j \in DOMAIN d.groups : d.groups[j] = p.groups[i].value
        /\ \A j \in DOMAIN d.groups : \E i \in DOMAIN p.groups : d.groups[j] = p.groups[i].value
    <3> DEFINE texts == p.groups
               groups == d.groups
    <3>1. texts \in Seq(NumberTexts) /\ groups \in Seq(Numbers) /\ BD!GroupsMatch(texts, groups) /\ IsInjective(texts)
      BY <2>1, <2>2, <2>3
    <3> HIDE DEF texts, groups
    <3>2. /\ \A i \in DOMAIN texts : \E j \in DOMAIN groups : groups[j] = texts[i].value
          /\ \A j \in DOMAIN groups : \E i \in DOMAIN texts : groups[j] = texts[i].value
      BY <3>1, GroupsNoticed
    <3> QED  BY <3>2 DEF texts, groups
  <2> QED  BY <2>4
<1>2. /\ d.name = p.name /\ d.yamlFile = p.yamlPath
      /\ d.path = IF p.path \in {BD!Empty, BD!Root} THEN BD!Root ELSE p.path
      /\ d.repository.id = p.repository.guid
  BY DEF BD!IsUpToDate, BD!NormalizePath, BD!GuidString, BD!YamlProcessMatches
<1>3. /\ ("ci" \in d.triggers) = p.ci /\ ("pr" \in d.triggers) = p.pr
      /\ ("schedule" \in d.triggers) = FALSE
  BY BDFields DEF BD!IsUpToDate, BD!TriggersMatch, BD!DesiredTriggers
<1> QED  BY <1>1, <1>2, <1>3 DEF BD!Meaning, BD!Asked

\* The definition sent is up to date, whatever it was made from
\* (desiredBuildDefinition, isUpToDate).
LEMMA DefinitionSettles ==
  ASSUME NEW p, NEW current, IsRecord(p, BD!Parameters), BD!Accepted(p, current), BD!Canonical(p)
  PROVE  BD!IsUpToDate(p, BD!Desired(p, current))
<1> DEFINE d == BD!Desired(p, current)
<1>1. BD!GroupsMatch(p.groups, d.groups)
  <2>1. p.groups \in Seq(NumberTexts)
    BY BDFields, GroupSequences
  <2>2. \A i \in DOMAIN p.groups : BD!Itoa(BD!Atoi(p.groups[i])) = p.groups[i]
    <3> TAKE i \in DOMAIN p.groups
    <3>1. p.groups[i] \in NumberTexts
      BY <2>1
    <3> QED  BY <3>1 DEF BD!Canonical, BD!Accepted, BD!Itoa, BD!Atoi, NumberTexts
  <2>3. d.groups = [i \in DOMAIN p.groups |-> BD!Atoi(p.groups[i])]
    BY DEF BD!Desired
  <2>4. DOMAIN p.groups = 1..Len(p.groups) /\ Len(p.groups) \in Nat
    BY <2>1
  <2>5. DOMAIN d.groups = DOMAIN p.groups /\ Len(d.groups) = Len(p.groups)
    BY <2>3, <2>4
  <2> HIDE DEF d
  <2>6. \A i \in DOMAIN p.groups : BD!Itoa(d.groups[i]) = p.groups[i]
    BY <2>2, <2>3
  <2> QED  BY <2>5, <2>6 DEF BD!GroupsMatch
<1>2. BD!GuidString(BD!ParseUUID(p.project)) = p.project /\ BD!GuidString(BD!ParseUUID(p.repository)) = p.repository
  BY BDFields DEF BD!Canonical, BD!GuidString, BD!ParseUUID, GuidTexts36, GuidTexts
<1>3. /\ d.name = p.name /\ d.path = BD!NormalizePath(p.path)
      /\ d.project = BD!ParseUUID(p.project) /\ d.repository.id = BD!ParseUUID(p.repository)
      /\ d.yamlFile = p.yamlPath /\ d.triggers = BD!DesiredTriggers(p)
  BY DEF BD!Desired, BD!DesiredRepository
<1> HIDE DEF d
<1>4. BD!IsUpToDate(p, d)
  BY <1>1, <1>2, <1>3 DEF BD!IsUpToDate, BD!YamlProcessMatches, BD!TriggersMatch
<1> QED  BY <1>4 DEF d

\* The definition sent has all of what it was made from that the parameters
\* have no word for (desiredBuildDefinition, desiredRepository).
LEMMA DefinitionKept ==
  ASSUME NEW p, NEW current, IsRecord(p, BD!Parameters), current # None, BD!Canonical(p)
  PROVE  BD!SameRest(p, current, BD!Desired(p, current))
<1>1. p.repository = [guid |-> p.repository.guid, form |-> "canonical"]
  BY BDFields DEF BD!Canonical, GuidTexts36, GuidTexts
<1>2. BD!Desired(p, current).rest = current.rest
  BY DEF BD!Desired
<1>3. ASSUME p.repositoryRef \in {None, BD!Empty}, current.repository.id = p.repository.guid
      PROVE  BD!Desired(p, current).repository.branch = current.repository.branch
  BY <1>1, <1>3 DEF BD!Desired, BD!DesiredRepository, BD!GuidString
<1> QED  BY <1>2, <1>3 DEF BD!SameRest

\* The definition sent is one Azure DevOps can have.
LEMMA DefinitionTypes ==
  ASSUME NEW p, NEW current, IsRecord(p, BD!Parameters), BD!Accepted(p, current),
         current # None => IsRecord(current, BD!Definition)
  PROVE  IsRecord(BD!Desired(p, current), BD!Definition)
<1> DEFINE d == BD!Desired(p, current)
<1>1. d.name \in Texts /\ d.yamlFile \in Texts
  BY BDFields DEF BD!Desired
<1>2. d.path \in Texts \cup {BD!Root}
  BY BDFields DEF BD!Desired, BD!NormalizePath, BD!Empty, Empty
<1>3. d.project \in Guids
  BY BDFields DEF BD!Desired, BD!ParseUUID, GuidTexts36, GuidTexts
<1>4. d.repository \in [id : Guids, branch : Texts \cup {Empty}]
  <2>1. BD!ParseUUID(p.repository) \in Guids
    BY BDFields DEF BD!ParseUUID, GuidTexts36, GuidTexts
  <2>2. current # None => current.repository.branch \in Texts \cup {Empty}
    BY DFields
  <2> QED  BY <2>1, <2>2, BDFields DEF BD!Desired, BD!DesiredRepository, BD!Empty, Empty
<1>5. d.triggers \in SUBSET {"ci", "pr", "schedule"}
  BY DEF BD!Desired, BD!DesiredTriggers
<1>6. d.groups \in Seq(Numbers)
  <2>1. p.groups \in Seq(NumberTexts)
    BY BDFields, GroupSequences
  <2>2. ASSUME NEW i \in DOMAIN p.groups
        PROVE  BD!Atoi(p.groups[i]) \in Numbers
    <3>1. p.groups[i] \in NumberTexts /\ p.groups[i].form # "word"
      BY <2>1 DEF BD!Accepted, BD!IsNumber
    <3> QED  BY <3>1 DEF BD!Atoi, NumberTexts
  <2>3. d.groups = [i \in DOMAIN p.groups |-> BD!Atoi(p.groups[i])]
    BY DEF BD!Desired
  <2> HIDE DEF d
  <2> QED  BY <2>1, <2>2, <2>3
<1>7. d.rest \in Texts \cup {Empty}
  BY DFields DEF BD!Desired, BD!Empty, Empty
<1>8. DOMAIN BD!Definition = {"name", "path", "project", "repository", "yamlFile", "triggers", "groups", "rest"}
  BY DEF BD!Definition
<1>9. d = [f \in DOMAIN BD!Definition |-> d[f]]
  BY <1>8 DEF BD!Desired
<1> HIDE DEF d
<1>10. IsRecord(d, BD!Definition)
  <2>1. \A f \in DOMAIN BD!Definition : d[f] \in BD!Definition[f]
    <3> DEFINE types == BD!Definition
    <3>1. /\ types.name = Texts /\ types.path = Texts \cup {BD!Root} /\ types.project = Guids
          /\ types.repository = [id : Guids, branch : Texts \cup {Empty}] /\ types.yamlFile = Texts \cup {None}
          /\ types.triggers = SUBSET {"ci", "pr", "schedule"} /\ types.groups = Seq(Numbers)
          /\ types.rest = Texts \cup {Empty}
      BY DEF BD!Definition, BD!TriggerTypes, BD!Empty, Empty
    <3> HIDE DEF types
    <3>2. /\ d.name \in types.name /\ d.path \in types.path /\ d.project \in types.project
          /\ d.repository \in types.repository /\ d.yamlFile \in types.yamlFile
          /\ d.triggers \in types.triggers /\ d.groups \in types.groups /\ d.rest \in types.rest
      BY <1>1, <1>2, <1>3, <1>4, <1>5, <1>6, <1>7, <3>1
    <3>3. \A f \in {"name", "path", "project", "repository", "yamlFile", "triggers", "groups", "rest"} : d[f] \in types[f]
      BY ONLY <3>2
    <3> QED  BY <1>8, <3>3 DEF types
  <2> QED  BY <1>9, <2>1 DEF IsRecord
<1> QED  BY <1>10 DEF d

-----------------------------------------------------------------------------
(* Branch policies *)

\* The fields of a CR's parameters (BranchPolicyMinReviewersParameters).
LEMMA BPFields ==
  ASSUME NEW p, IsRecord(p, BP!Parameters)
  PROVE  /\ p.repository \in GuidTexts36 /\ p.branch \in BP!Branches /\ p.minimumApproverCount \in Numbers
         /\ p.flags \in SUBSET BP!Flags /\ p.enabled \in BOOLEAN /\ p.blocking \in BOOLEAN
<1>1. DOMAIN BP!Parameters = {"repository", "branch", "minimumApproverCount", "flags", "enabled", "blocking"}
  BY DEF BP!Parameters
<1> QED  BY <1>1 DEF IsRecord, BP!Parameters, BP!GuidTexts36, GuidTexts36, BP!GuidTexts, GuidTexts, BP!GuidForms, GuidForms

\* What a policy in Azure DevOps is made of.
LEMMA PolicyShape ==
  /\ DOMAIN BP!Policy = {"enabled", "blocking", "minimumApproverCount", "flags", "scopes", "enterprise"}
  /\ BP!Policy.enabled = BOOLEAN /\ BP!Policy.blocking = BOOLEAN /\ BP!Policy.minimumApproverCount = Numbers
  /\ BP!Policy.flags = SUBSET (BP!Flags \cup BP!UnsupportedFlags)
  /\ BP!Policy.scopes = SUBSET BP!Scopes /\ BP!Policy.enterprise = BOOLEAN
  BY DEF BP!Policy, BP!Fields

\* The fields of a policy, as Azure DevOps has it.
LEMMA PolicyFields ==
  ASSUME NEW r, IsRecord(r, BP!Policy)
  PROVE  /\ r.enabled \in BOOLEAN /\ r.blocking \in BOOLEAN /\ r.enterprise \in BOOLEAN
         /\ r.flags \in SUBSET (BP!Flags \cup BP!UnsupportedFlags) /\ r.scopes \in SUBSET BP!Scopes
  BY PolicyShape DEF IsRecord

\* The branches the controller takes are exact names and prefixes
\* (branchScope).
LEMMA ValidBranches ==
  ASSUME NEW branch \in BP!Branches, BP!ValidBranch(branch)
  PROVE  branch \in [stem : Texts, form : {"exact", "prefix"}]
<1>1. branch.form # "malformed" /\ branch.stem # BP!Empty
  BY DEF BP!ValidBranch
<1>2. CASE branch \in [stem : Texts, form : {"exact", "prefix", "malformed"}]
  BY <1>1, <1>2
<1>3. CASE branch = [stem |-> BP!Empty, form |-> "prefix"]
  BY <1>1, <1>3
<1> QED  BY <1>2, <1>3 DEF BP!Branches

\* A policy found up to date is what the parameters stand for (isUpToDate).
LEMMA PolicyNoticed ==
  ASSUME NEW p, NEW r, IsRecord(p, BP!Parameters), IsRecord(r, BP!Policy), BP!IsUpToDate(p, r)
  PROVE  BP!Meaning(r) = BP!Asked(p)
<1> DEFINE wanted == [BP!DesiredScope(p) EXCEPT !.repository = p.repository]
           decoded(s) == [s EXCEPT !.repository = BP!GuidString(@), !.matchKind = BP!MatchKind(@)]
           said(s) == <<s.repository, [stem |-> s.refName, form |-> IF s.matchKind \in {"Exact", "exact"} THEN "exact" ELSE "prefix"]>>
<1>1. {decoded(s) : s \in r.scopes} = {wanted}
  BY DEF BP!IsUpToDate, BP!Settings
<1>2. wanted = [repository |-> p.repository, refName |-> p.branch.stem,
                matchKind |-> IF p.branch.form = "prefix" THEN "Prefix" ELSE "Exact"]
  BY DEF BP!DesiredScope, BP!BranchScope
<1>3. p.branch \in [stem : Texts, form : {"exact", "prefix"}]
  <2>1. BP!ValidBranch(p.branch)
    BY DEF BP!IsUpToDate
  <2> QED  BY <2>1, BPFields, ValidBranches
<1>4. ASSUME NEW s \in r.scopes
      PROVE  said(s) = <<p.repository.guid, p.branch>>
  <2>1. s \in [repository : Guids \cup {None}, refName : Texts, matchKind : {"Exact", "exact", "Prefix", "prefix"}]
    BY PolicyFields DEF BP!Scopes, BP!MatchKinds
  <2>2. decoded(s) = wanted
    BY <1>1
  <2>3. /\ BP!GuidString(s.repository) = p.repository /\ s.refName = p.branch.stem
        /\ BP!MatchKind(s.matchKind) = IF p.branch.form = "prefix" THEN "Prefix" ELSE "Exact"
    BY <1>2, <2>1, <2>2
  <2>4. s.repository = p.repository.guid
    BY <2>3 DEF BP!GuidString
  <2>5. p.branch = [stem |-> s.refName, form |-> IF s.matchKind \in {"Exact", "exact"} THEN "exact" ELSE "prefix"]
    BY <1>3, <2>1, <2>3 DEF BP!MatchKind
  <2> QED  BY <2>4, <2>5
<1>5. {said(s) : s \in r.scopes} = {<<p.repository.guid, p.branch>>}
  <2> HIDE DEF said, decoded, wanted
  <2>1. r.scopes # {}
    BY <1>1
  <2> QED  BY <1>4, <2>1
<1>6. r.enabled = p.enabled /\ r.blocking = p.blocking /\ r.minimumApproverCount = p.minimumApproverCount /\ r.flags = p.flags
  BY DEF BP!IsUpToDate, BP!Settings
<1> QED  BY <1>5, <1>6 DEF BP!Meaning, BP!Asked

\* A policy comes back as it was sent, but for the case of its match kind
\* (desiredPolicyConfiguration).
LEMMA PolicyAnswers ==
  ASSUME NEW p, NEW current, NEW answer \in BP!Answers(BP!Desired(p, current)), IsRecord(p, BP!Parameters)
  PROVE  /\ answer = [enabled |-> p.enabled, blocking |-> p.blocking,
                      minimumApproverCount |-> p.minimumApproverCount, flags |-> p.flags,
                      scopes |-> answer.scopes, enterprise |-> current # None /\ current.enterprise]
         /\ \E k \in BP!MatchKinds :
              /\ BP!MatchKind(k) = BP!DesiredScope(p).matchKind
              /\ answer.scopes = {[BP!DesiredScope(p) EXCEPT !.matchKind = k]}
<1> DEFINE sent == BP!Desired(p, current)
<1>1. sent = [enabled |-> p.enabled, blocking |-> p.blocking,
              minimumApproverCount |-> p.minimumApproverCount, flags |-> p.flags,
              scopes |-> {BP!DesiredScope(p)}, enterprise |-> current # None /\ current.enterprise]
  BY DEF BP!Desired
<1> HIDE DEF sent
<1>2. PICK k \in {k \in BP!MatchKinds : \A s \in sent.scopes : BP!MatchKind(k) = s.matchKind} :
        answer = [sent EXCEPT !.scopes = {[s EXCEPT !.matchKind = k] : s \in sent.scopes}]
  BY DEF BP!Answers, sent
<1>3. sent.scopes = {BP!DesiredScope(p)}
  BY <1>1
<1>4. answer.scopes = {[BP!DesiredScope(p) EXCEPT !.matchKind = k]}
  <2>1. answer.scopes = {[s EXCEPT !.matchKind = k] : s \in sent.scopes}
    BY <1>1, <1>2
  <2> QED  BY <2>1, <1>3
<1>5. BP!MatchKind(k) = BP!DesiredScope(p).matchKind
  BY <1>2, <1>3
<1>6. answer = [enabled |-> p.enabled, blocking |-> p.blocking,
                minimumApproverCount |-> p.minimumApproverCount, flags |-> p.flags,
                scopes |-> answer.scopes, enterprise |-> current # None /\ current.enterprise]
  BY <1>1, <1>2
<1> QED  BY <1>2, <1>4, <1>5, <1>6

\* A policy is found up to date in each of the spellings in which it may come
\* back (settingsFromConfiguration, isUpToDate).
LEMMA PolicySettles ==
  ASSUME NEW p, NEW current, NEW answer \in BP!Answers(BP!Desired(p, current)),
         IsRecord(p, BP!Parameters), BP!Accepted(p, current), BP!Canonical(p)
  PROVE  BP!IsUpToDate(p, answer)
<1> DEFINE sent == BP!DesiredScope(p)
<1>1. PICK k \in BP!MatchKinds : BP!MatchKind(k) = sent.matchKind /\ answer.scopes = {[sent EXCEPT !.matchKind = k]}
  BY PolicyAnswers
<1>2. sent = [repository |-> p.repository.guid, refName |-> sent.refName, matchKind |-> sent.matchKind]
  BY DEF BP!DesiredScope
<1>3. BP!GuidString(p.repository.guid) = p.repository
  BY BPFields DEF BP!Canonical, BP!GuidString, GuidTexts36, GuidTexts
<1> HIDE DEF sent
<1> DEFINE decoded(s) == [s EXCEPT !.repository = BP!GuidString(@), !.matchKind = BP!MatchKind(@)]
           written == [sent EXCEPT !.matchKind = k]
<1>4. decoded(written) = [sent EXCEPT !.repository = p.repository]
  <2>1. written = [repository |-> p.repository.guid, refName |-> sent.refName, matchKind |-> k]
    BY <1>2
  <2> HIDE DEF written
  <2> DEFINE respelled == [written EXCEPT !.repository = BP!GuidString(@)]
  <2>2. respelled = [repository |-> p.repository, refName |-> sent.refName, matchKind |-> k]
    BY <1>3, <2>1
  <2>3. decoded(written) = [respelled EXCEPT !.matchKind = BP!MatchKind(@)]
    BY <2>1
  <2> HIDE DEF respelled
  <2>4. [respelled EXCEPT !.matchKind = BP!MatchKind(@)] =
           [repository |-> p.repository, refName |-> sent.refName, matchKind |-> sent.matchKind]
    BY <1>1, <2>2
  <2>5. [sent EXCEPT !.repository = p.repository] =
           [repository |-> p.repository, refName |-> sent.refName, matchKind |-> sent.matchKind]
    BY <1>2
  <2> HIDE DEF decoded
  <2> QED  BY <2>3, <2>4, <2>5
<1>5. {decoded(s) : s \in answer.scopes} = {[sent EXCEPT !.repository = p.repository]}
  <2> HIDE DEF decoded
  <2> QED  BY <1>1, <1>4
<1>6. /\ answer.enabled = p.enabled /\ answer.blocking = p.blocking
      /\ answer.minimumApproverCount = p.minimumApproverCount /\ answer.flags = p.flags
  BY PolicyAnswers
<1>7. BP!Settings(answer) =
        [minimumApproverCount |-> p.minimumApproverCount, flags |-> p.flags,
         scopes |-> {[sent EXCEPT !.repository = p.repository]}]
  BY <1>5, <1>6 DEF BP!Settings
<1>8. BP!ValidBranch(p.branch)
  BY DEF BP!Accepted
<1> QED  BY <1>6, <1>7, <1>8 DEF BP!IsUpToDate, sent

\* The policy sent has no settings other than the parameters', and the one it
\* was made from had none: none is lost (validateManagedPolicyConfiguration).
LEMMA PolicyKept ==
  ASSUME NEW p, NEW current, NEW answer \in BP!Answers(BP!Desired(p, current)),
         IsRecord(p, BP!Parameters), current # None, IsRecord(current, BP!Policy), BP!Accepted(p, current)
  PROVE  BP!SameRest(current, answer)
<1>1. answer.enterprise = current.enterprise /\ answer.flags = p.flags
  BY PolicyAnswers, PolicyFields
<1>2. p.flags \cap BP!UnsupportedFlags = {}
  BY BPFields DEF BP!Flags, BP!UnsupportedFlags
<1>3. current.flags \cap BP!UnsupportedFlags = {}
  BY DEF BP!Accepted, BP!Managed
<1> QED  BY <1>1, <1>2, <1>3 DEF BP!SameRest

\* The policy that comes back is one Azure DevOps can have.
LEMMA PolicyTypes ==
  ASSUME NEW p, NEW current, NEW answer \in BP!Answers(BP!Desired(p, current)),
         IsRecord(p, BP!Parameters), BP!Accepted(p, current)
  PROVE  IsRecord(answer, BP!Policy)
<1>1. answer.scopes \in SUBSET BP!Scopes
  <2>1. PICK k \in BP!MatchKinds : answer.scopes = {[BP!DesiredScope(p) EXCEPT !.matchKind = k]}
    BY PolicyAnswers
  <2>2. p.branch.stem \in Texts /\ p.repository.guid \in Guids
    <3>1. BP!ValidBranch(p.branch)
      BY DEF BP!Accepted
    <3>2. p.branch \in [stem : Texts, form : {"exact", "prefix"}]
      BY <3>1, BPFields, ValidBranches
    <3> QED  BY <3>2, BPFields DEF GuidTexts36, GuidTexts
  <2>3. [BP!DesiredScope(p) EXCEPT !.matchKind = k] = [repository |-> p.repository.guid, refName |-> p.branch.stem, matchKind |-> k]
    BY DEF BP!DesiredScope, BP!BranchScope
  <2>4. [repository |-> p.repository.guid, refName |-> p.branch.stem, matchKind |-> k] \in BP!Scopes
    BY <2>2 DEF BP!Scopes
  <2> QED  BY <2>1, <2>3, <2>4
<1> DEFINE types == BP!Policy
<1>2. answer = [enabled |-> p.enabled, blocking |-> p.blocking,
                minimumApproverCount |-> p.minimumApproverCount, flags |-> p.flags,
                scopes |-> answer.scopes, enterprise |-> current # None /\ current.enterprise]
  BY PolicyAnswers
<1> HIDE DEF types
<1>3. /\ answer.enabled \in types.enabled /\ answer.blocking \in types.blocking
      /\ answer.minimumApproverCount \in types.minimumApproverCount /\ answer.flags \in types.flags
      /\ answer.scopes \in types.scopes /\ answer.enterprise \in types.enterprise
  <2>1. (current # None /\ current.enterprise) \in BOOLEAN
    OBVIOUS
  <2>2. /\ answer.enabled = p.enabled /\ answer.blocking = p.blocking
        /\ answer.minimumApproverCount = p.minimumApproverCount /\ answer.flags = p.flags
        /\ answer.enterprise = (current # None /\ current.enterprise)
    BY <1>2
  <2>3. p.flags \in SUBSET (BP!Flags \cup BP!UnsupportedFlags)
    BY BPFields
  <2> QED  BY <1>1, <2>1, <2>2, <2>3, PolicyShape, BPFields DEF types
<1>4. DOMAIN types = {"enabled", "blocking", "minimumApproverCount", "flags", "scopes", "enterprise"}
  BY PolicyShape DEF types
<1>5. answer = [f \in DOMAIN types |-> answer[f]]
  BY <1>2, <1>4
<1>6. \A f \in DOMAIN types : answer[f] \in types[f]
  BY <1>3, <1>4
<1> QED  BY <1>5, <1>6 DEF IsRecord, types

\* The API server makes parameters of parameters, and leaves alone those it has
\* put its defaults in.
LEMMA WrittenTypes ==
  ASSUME NEW p, IsRecord(p, BP!Parameters)
  PROVE  IsRecord(BP!Written(p), BP!Parameters) /\ BP!Written(BP!Written(p)) = BP!Written(p)
<1> DEFINE types == BP!Parameters
<1>1. DOMAIN types = {"repository", "branch", "minimumApproverCount", "flags", "enabled", "blocking"}
      /\ types.enabled = BOOLEAN /\ types.blocking = BOOLEAN
  BY DEF BP!Parameters
<1> HIDE DEF types
<1>2. p = [f \in DOMAIN types |-> p[f]] /\ \A f \in DOMAIN types : p[f] \in types[f]
  BY DEF IsRecord, types
<1>3. BP!Written(p) = [f \in DOMAIN types |-> IF f \in {"enabled", "blocking"} THEN TRUE ELSE p[f]]
  BY <1>1, <1>2 DEF BP!Written
<1>4. IsRecord(BP!Written(p), types)
  BY <1>1, <1>2, <1>3 DEF IsRecord
<1>5. BP!Written(BP!Written(p)) = BP!Written(p)
  BY <1>1, <1>2, <1>3 DEF BP!Written
<1> QED  BY <1>4, <1>5 DEF types

-----------------------------------------------------------------------------
(* Variable groups *)

\* What a variable group in Azure DevOps is made of.
LEMMA GroupShape ==
  /\ DOMAIN VG!Group = {"name", "description", "projects", "content"}
  /\ VG!Group.name = Texts /\ VG!Group.description = Texts \cup {Empty} /\ VG!Group.projects = SUBSET Guids
  /\ VG!Group.content = [type : {"Vsts", Empty}, variables : [Names -> VG!Values \cup {None}]]
                        \cup [type : {"AzureKeyVault"}, endpoint : Guids, vault : Texts]
  BY DEF VG!Group, VG!Empty, Empty

\* A group has variables of its own or is that of a key vault.
LEMMA GroupFields ==
  ASSUME NEW g, IsRecord(g, VG!Group)
  PROVE  \/ g.content \in [type : {"Vsts", Empty}, variables : [Names -> VG!Values \cup {None}]]
         \/ g.content \in [type : {"AzureKeyVault"}, endpoint : Guids, vault : Texts]
  BY GroupShape DEF IsRecord

\* Every variable is sent under its name with its own mark of secrecy, and with
\* its own value unless that is copied from a Secret (resolveVariables).
LEMMA VariablesResolved ==
  ASSUME NEW variables \in [Names -> VG!Variables \cup {None}], NEW n \in Names
  PROVE  /\ VG!ResolveVariables(variables)[n] \in VG!Values \cup {None}
         /\ VG!ResolveVariables(variables)[n] = None <=> variables[n] = None
         /\ variables[n] # None =>
              /\ VG!ResolveVariables(variables)[n].isSecret = variables[n].isSecret
              /\ variables[n].from = None => VG!ResolveVariables(variables)[n].value = variables[n].value
<1> DEFINE v == variables[n]
           resolved == [value |-> IF v.from = None THEN v.value ELSE v.from, isSecret |-> v.isSecret]
<1>1. VG!ResolveVariables(variables)[n] = IF v = None THEN None ELSE resolved
  BY DEF VG!ResolveVariables
<1>2. CASE v = None
  BY <1>1, <1>2
<1>3. CASE v # None
  <2>1. v \in VG!Variables
    BY <1>3
  <2>2. resolved \in VG!Values
    BY <2>1 DEF VG!Variables, VG!Values
  <2>3. resolved # None
    BY <2>2, ContentsAssumption
  <2> QED  BY <1>1, <1>3, <2>2, <2>3
<1> QED  BY <1>2, <1>3

\* Variables found up to date are the ones the parameters stand for, as far as
\* they are shown (variablesUpToDate).
LEMMA VariablesNoticed ==
  ASSUME NEW p, NEW g, IsRecord(p, VG!ParametersAndVariables), IsRecord(g, VG!Group),
         VG!IsUpToDate(p, g), VG!CopiesNone(p), p.keyVault = None
  PROVE  /\ g.content.type # "AzureKeyVault"
         /\ VG!Shown(g.content.variables) = VG!Shown(VG!ResolveVariables(p.variables))
<1> DEFINE here == g.content.variables
           wanted == p.variables
           resolved == VG!ResolveVariables(wanted)
           shown(variables, n) == [name |-> n, value |-> IF variables[n].isSecret THEN None ELSE variables[n].value]
           named(variables) == {n \in Names : variables[n] # None}
<1>1. VG!VariablesUpToDate(wanted, g.content)
  BY DEF VG!IsUpToDate
<1>2. wanted \in [Names -> VG!Variables \cup {None}]
  BY VGFields
<1>3. named(here) = named(wanted) /\ named(resolved) = named(wanted)
  <2>1. named(here) = named(wanted)
    BY <1>1 DEF VG!VariablesUpToDate
  <2>2. \A n \in Names : resolved[n] = None <=> wanted[n] = None
    BY <1>2, VariablesResolved
  <2> QED  BY <2>1, <2>2
<1>4. ASSUME NEW n \in named(wanted)
      PROVE  shown(here, n) = shown(resolved, n)
  <2>1. /\ here[n].isSecret = wanted[n].isSecret
        /\ wanted[n].isSecret \/ here[n].value = wanted[n].value
    BY <1>1 DEF VG!VariablesUpToDate
  <2>2. /\ resolved[n].isSecret = wanted[n].isSecret
        /\ wanted[n].from = None => resolved[n].value = wanted[n].value
    BY <1>2, VariablesResolved
  <2>3. wanted[n].isSecret \/ wanted[n].from = None
    BY DEF VG!CopiesNone
  <2>4. wanted[n].isSecret \in BOOLEAN
    BY <1>2 DEF VG!Variables
  <2> HIDE DEF here, wanted, resolved
  <2> QED  BY <2>1, <2>2, <2>3, <2>4
<1>5. {shown(here, n) : n \in named(here)} = {shown(resolved, n) : n \in named(resolved)}
  <2> HIDE DEF shown, here, wanted, resolved, named
  <2> QED  BY <1>3, <1>4
<1>6. g.content.type # "AzureKeyVault"
  BY <1>1 DEF VG!VariablesUpToDate, VG!NormalizeType, VG!Empty
<1> QED  BY <1>5, <1>6 DEF VG!Shown

\* A group found up to date is what the parameters stand for, if no value is
\* copied from a Secret (isUpToDate).
LEMMA GroupNoticed ==
  ASSUME NEW p, NEW g, IsRecord(p, VG!ParametersAndVariables), IsRecord(g, VG!Group),
         VG!IsUpToDate(p, g), VG!CopiesNone(p)
  PROVE  VG!Meaning(g) = VG!Asked(p)
<1>1. g.name = p.name /\ g.description = p.description /\ g.projects = {p.project.guid}
  BY DEF VG!IsUpToDate, VG!ProjectReferencesMatch, VG!EqualFold
<1>2. CASE p.keyVault = None
  <2>1. /\ g.content.type # "AzureKeyVault"
        /\ VG!Shown(g.content.variables) = VG!Shown(VG!ResolveVariables(p.variables))
    BY <1>2, VariablesNoticed
  <2> QED  BY <1>1, <1>2, <2>1 DEF VG!Meaning, VG!Asked
<1>3. CASE p.keyVault # None
  <2>1. VG!KeyVaultUpToDate(p.keyVault, g.content)
    BY <1>3 DEF VG!IsUpToDate
  <2>2. g.content.type = "AzureKeyVault"
    BY <2>1 DEF VG!KeyVaultUpToDate, VG!NormalizeType, VG!Empty
  <2>3. g.content.vault = p.keyVault.vault /\ g.content.endpoint = p.keyVault.endpoint.guid
    BY <2>1 DEF VG!KeyVaultUpToDate, VG!GuidString
  <2> QED  BY <1>1, <1>3, <2>2, <2>3 DEF VG!Meaning, VG!Asked
<1> QED  BY <1>2, <1>3

\* The group sent has the name, description and project of the parameters.
LEMMA GroupSent ==
  ASSUME NEW p
  PROVE  VG!Desired(p) =
           [name |-> p.name, description |-> p.description, projects |-> {p.project.guid},
            content |-> VG!Desired(p).content]
  BY DEF VG!Desired, VG!ParseUUID

\* A group comes back as it was sent, but that the type may be left out
\* (buildVariableGroupParameters).
LEMMA GroupAnswers ==
  ASSUME NEW p, NEW answer \in VG!Answers(VG!Desired(p))
  PROVE  /\ answer = [name |-> p.name, description |-> p.description, projects |-> {p.project.guid},
                      content |-> answer.content]
         /\ p.keyVault # None =>
              answer.content = [type |-> "AzureKeyVault", endpoint |-> p.keyVault.endpoint.guid, vault |-> p.keyVault.vault]
         /\ p.keyVault = None =>
              \E type \in {"Vsts", Empty} :
                answer.content = [type |-> type, variables |-> VG!ResolveVariables(p.variables)]
<1> DEFINE sent == VG!Desired(p)
<1>1. sent = [name |-> p.name, description |-> p.description, projects |-> {p.project.guid}, content |-> sent.content]
  BY GroupSent
<1>2. /\ p.keyVault # None =>
           sent.content = [type |-> "AzureKeyVault", endpoint |-> p.keyVault.endpoint.guid, vault |-> p.keyVault.vault]
      /\ p.keyVault = None => sent.content = [type |-> "Vsts", variables |-> VG!ResolveVariables(p.variables)]
  BY DEF VG!Desired, VG!ParseUUID
<1>3. answer = sent \/ (sent.content.type = "Vsts" /\ answer = [sent EXCEPT !.content.type = Empty])
  BY DEF VG!Answers, VG!Empty, Empty
<1> HIDE DEF sent
<1>4. CASE answer = sent
  BY <1>1, <1>2, <1>4
<1>5. CASE sent.content.type = "Vsts" /\ answer = [sent EXCEPT !.content.type = Empty]
  <2>1. p.keyVault = None
    BY <1>2, <1>5
  <2>2. sent.content = [type |-> "Vsts", variables |-> VG!ResolveVariables(p.variables)]
    BY <1>2, <2>1
  <2>3. [sent.content EXCEPT !.type = Empty] = [type |-> Empty, variables |-> VG!ResolveVariables(p.variables)]
    BY <2>2
  <2>4. answer = [sent EXCEPT !.content = [sent.content EXCEPT !.type = Empty]]
    BY <1>5
  <2>5. answer = [name |-> p.name, description |-> p.description, projects |-> {p.project.guid},
                  content |-> [type |-> Empty, variables |-> VG!ResolveVariables(p.variables)]]
    BY <1>1, <2>3, <2>4
  <2> QED  BY <2>1, <2>5
<1> QED  BY <1>3, <1>4, <1>5

\* A group is found up to date with and without its type (normalizeType,
\* isUpToDate).
LEMMA GroupSettles ==
  ASSUME NEW p, NEW answer \in VG!Answers(VG!Desired(p)), IsRecord(p, VG!ParametersAndVariables),
         VG!Canonical(p), VG!CopiesNone(p)
  PROVE  VG!IsUpToDate(p, answer)
<1>1. answer.name = p.name /\ answer.description = p.description /\ answer.projects = {p.project.guid}
  <2>1. answer = [name |-> p.name, description |-> p.description, projects |-> {p.project.guid}, content |-> answer.content]
    BY GroupAnswers
  <2> QED  BY <2>1
<1>2. VG!ProjectReferencesMatch(p.project, answer.projects)
  <2>1. p.project.guid \in Guids
    BY VGFields DEF GuidTexts
  <2> QED  BY <1>1, <2>1 DEF VG!ProjectReferencesMatch, VG!EqualFold, VG!Canonical
<1>3. CASE p.keyVault # None
  <2>1. p.keyVault.endpoint \in GuidTexts
    BY <1>3, VGFields DEF VG!KeyVaults, VG!GuidTexts, GuidTexts, VG!GuidForms, GuidForms
  <2>2. VG!GuidString(p.keyVault.endpoint.guid) = p.keyVault.endpoint
    BY <1>3, <2>1 DEF VG!GuidString, VG!Canonical, GuidTexts
  <2>3. answer.content = [type |-> "AzureKeyVault", endpoint |-> p.keyVault.endpoint.guid, vault |-> p.keyVault.vault]
    BY <1>3, GroupAnswers
  <2>4. VG!KeyVaultUpToDate(p.keyVault, answer.content)
    BY <2>2, <2>3 DEF VG!KeyVaultUpToDate, VG!NormalizeType, VG!Empty
  <2> QED  BY <1>1, <1>2, <1>3, <2>4 DEF VG!IsUpToDate
<1>4. CASE p.keyVault = None
  <2> DEFINE wanted == p.variables
             resolved == VG!ResolveVariables(wanted)
  <2>1. PICK type \in {"Vsts", Empty} : answer.content = [type |-> type, variables |-> resolved]
    BY <1>4, GroupAnswers
  <2>2. \A n \in Names : 
          /\ resolved[n] = None <=> wanted[n] = None
          /\ wanted[n] # None => 
               /\ resolved[n].isSecret = wanted[n].isSecret
               /\ wanted[n].from = None => resolved[n].value = wanted[n].value
    BY VGFields, VariablesResolved
  <2>3. \A n \in Names : wanted[n] = None \/ wanted[n].isSecret \/ wanted[n].from = None
    BY DEF VG!CopiesNone
  <2>4. VG!NormalizeType(type) = "Vsts"
    BY DEF VG!NormalizeType, VG!Empty, Empty
  <2> HIDE DEF wanted, resolved
  <2>5. VG!VariablesUpToDate(wanted, answer.content)
    BY <2>1, <2>2, <2>3, <2>4 DEF VG!VariablesUpToDate
  <2> QED  BY <1>1, <1>2, <1>4, <2>5 DEF VG!IsUpToDate, wanted
<1> QED  BY <1>3, <1>4

\* The group that comes back is one Azure DevOps can have.
LEMMA GroupTypes ==
  ASSUME NEW p, NEW answer \in VG!Answers(VG!Desired(p)), IsRecord(p, VG!ParametersAndVariables)
  PROVE  IsRecord(answer, VG!Group)
<1> DEFINE types == VG!Group
<1>1. answer = [name |-> p.name, description |-> p.description, projects |-> {p.project.guid}, content |-> answer.content]
  BY GroupAnswers
<1>2. answer.content \in types.content
  <2>1. CASE p.keyVault # None
    <3>1. p.keyVault.endpoint.guid \in Guids /\ p.keyVault.vault \in Texts
      BY <2>1, VGFields DEF VG!KeyVaults, VG!GuidTexts
    <3>2. answer.content = [type |-> "AzureKeyVault", endpoint |-> p.keyVault.endpoint.guid, vault |-> p.keyVault.vault]
      BY <2>1, GroupAnswers
    <3> QED  BY <3>1, <3>2, GroupShape
  <2>2. CASE p.keyVault = None
    <3>1. PICK type \in {"Vsts", Empty} : answer.content = [type |-> type, variables |-> VG!ResolveVariables(p.variables)]
      BY <2>2, GroupAnswers
    <3>2. VG!ResolveVariables(p.variables) \in [Names -> VG!Values \cup {None}]
      <4>1. \A n \in Names : VG!ResolveVariables(p.variables)[n] \in VG!Values \cup {None}
        BY VGFields, VariablesResolved
      <4> QED  BY <4>1 DEF VG!ResolveVariables
    <3> QED  BY <3>1, <3>2, GroupShape
  <2> QED  BY <2>1, <2>2
<1> HIDE DEF types
<1>3. answer.name \in types.name /\ answer.description \in types.description /\ answer.projects \in types.projects
  BY <1>1, VGFields, GroupShape DEF types, GuidTexts
<1>4. DOMAIN types = {"name", "description", "projects", "content"}
  BY GroupShape DEF types
<1>5. answer = [f \in DOMAIN types |-> answer[f]]
  BY <1>1, <1>4
<1>6. \A f \in DOMAIN types : answer[f] \in types[f]
  BY <1>2, <1>3, <1>4
<1> QED  BY <1>5, <1>6 DEF IsRecord, types

-----------------------------------------------------------------------------
(* Azure endpoints *)

\* The fields of a CR's parameters (ServiceEndpointAzureRMParameters).
LEMMA ARMFields ==
  ASSUME NEW p, IsRecord(p, ARM!Parameters)
  PROVE  /\ p.name \in Texts /\ p.subscription \in Texts /\ p.tenant \in Texts
         /\ p.resourceGroup \in Texts \cup {Empty} /\ p.schemes \in SUBSET ARM!AuthorizationSchemes
         /\ p.client \in Texts /\ p.key \in Texts
<1>1. DOMAIN ARM!Parameters = {"name", "subscription", "tenant", "resourceGroup", "schemes", "client", "key"}
  BY DEF ARM!Parameters
<1> QED  BY <1>1 DEF IsRecord, ARM!Parameters, ARM!Empty, Empty

\* What an Azure endpoint in Azure DevOps is made of.
LEMMA EndpointShape ==
  /\ DOMAIN ARM!Endpoint = {"name", "subscription", "tenant", "resourceGroup", "scheme", "client", "key", "make", "shown"}
  /\ ARM!Endpoint.name = Texts /\ ARM!Endpoint.subscription = Texts /\ ARM!Endpoint.tenant = Texts
  /\ ARM!Endpoint.resourceGroup = Texts \cup {Empty}
  /\ ARM!Endpoint.scheme = ARM!AuthorizationSchemes \cup {"serviceprincipal"}
  /\ ARM!Endpoint.client = Texts /\ ARM!Endpoint.key = Texts \cup {Empty}
  /\ ARM!Endpoint.make = {"manual", "other"} /\ ARM!Endpoint.shown = (SUBSET ARM!Places) \ {{}}
  BY DEF ARM!Endpoint, ARM!Empty, Empty

\* Parameters are taken only with exactly one authorization, and its scheme is
\* the one compared (desiredAuthorizationDetails).
LEMMA OneScheme ==
  ASSUME NEW p, ARM!Accepted(p)
  PROVE  ARM!Scheme(p) \in ARM!AuthorizationSchemes /\ p.schemes = {ARM!Scheme(p)}
  BY DEF ARM!Accepted, ARM!Scheme

\* An endpoint found up to date is what the parameters stand for (isUpToDate,
\* comparableData, firstNonEmpty).
LEMMA EndpointNoticed ==
  ASSUME NEW p, NEW e, IsRecord(p, ARM!Parameters), ARM!IsUpToDate(p, e)
  PROVE  ARM!Meaning(e) = ARM!Asked(p)
<1>1. e.name = p.name /\ p.schemes = {ARM!Fold(e.scheme)}
  BY OneScheme DEF ARM!IsUpToDate
<1>2. e.subscription = p.subscription /\ e.make = "manual" /\ e.resourceGroup = p.resourceGroup
  BY DEF ARM!IsUpToDate, ARM!ComparableData
<1>3. e.client = p.client /\ e.tenant = p.tenant
  <2>1. p.client # ARM!Empty
    BY ARMFields, SpellingsAssumption DEF ARM!Empty, Empty
  <2>2. e.shown # {}
    BY <2>1 DEF ARM!IsUpToDate, ARM!FirstNonEmpty
  <2> QED  BY <2>2 DEF ARM!IsUpToDate, ARM!FirstNonEmpty
<1> QED  BY <1>1, <1>2, <1>3 DEF ARM!Meaning, ARM!Asked

\* An endpoint comes back as it was sent, but for the case of its scheme and
\* the places in which it shows the service principal (buildServiceEndpoint).
LEMMA EndpointAnswers ==
  ASSUME NEW p, NEW answer \in ARM!Answers(ARM!Desired(p))
  PROVE  /\ answer = [name |-> p.name, subscription |-> p.subscription, tenant |-> p.tenant,
                      resourceGroup |-> p.resourceGroup, scheme |-> answer.scheme, client |-> p.client,
                      key |-> IF ARM!Scheme(p) = "ServicePrincipal" THEN p.key ELSE Empty,
                      make |-> "manual", shown |-> answer.shown]
         /\ answer.scheme \in ARM!AuthorizationSchemes \cup {"serviceprincipal"}
         /\ ARM!Fold(answer.scheme) = ARM!Scheme(p)
         /\ answer.shown \in (SUBSET ARM!Places) \ {{}}
<1> DEFINE sent == ARM!Desired(p)
<1>1. sent = [name |-> p.name, subscription |-> p.subscription, tenant |-> p.tenant,
              resourceGroup |-> p.resourceGroup, scheme |-> ARM!Scheme(p), client |-> p.client,
              key |-> IF ARM!Scheme(p) = "ServicePrincipal" THEN p.key ELSE Empty,
              make |-> "manual", shown |-> ARM!Places]
  BY DEF ARM!Desired, ARM!Empty, Empty
<1> HIDE DEF sent
<1>2. \E s \in {t \in ARM!AuthorizationSchemes \cup {"serviceprincipal"} : ARM!Fold(t) = sent.scheme} :
      \E shown \in (SUBSET ARM!Places) \ {{}} : answer = ARM!Answer(sent, s, shown)
  BY DEF ARM!Answers, sent
<1>3. PICK s \in ARM!AuthorizationSchemes \cup {"serviceprincipal"}, places \in (SUBSET ARM!Places) \ {{}} :
        ARM!Fold(s) = sent.scheme /\ answer = ARM!Answer(sent, s, places)
  BY <1>2
<1> DEFINE first == [sent EXCEPT !.scheme = s]
<1>4. first = [name |-> p.name, subscription |-> p.subscription, tenant |-> p.tenant,
               resourceGroup |-> p.resourceGroup, scheme |-> s, client |-> p.client,
               key |-> IF ARM!Scheme(p) = "ServicePrincipal" THEN p.key ELSE Empty,
               make |-> "manual", shown |-> ARM!Places]
  BY <1>1
<1>5. answer = [first EXCEPT !.shown = places]
  BY <1>3 DEF ARM!Answer
<1> HIDE DEF first
<1>6. answer = [name |-> p.name, subscription |-> p.subscription, tenant |-> p.tenant,
                resourceGroup |-> p.resourceGroup, scheme |-> s, client |-> p.client,
                key |-> IF ARM!Scheme(p) = "ServicePrincipal" THEN p.key ELSE Empty,
                make |-> "manual", shown |-> places]
  BY <1>4, <1>5
<1>7. sent.scheme = ARM!Scheme(p) /\ answer.scheme = s /\ answer.shown = places
  BY <1>1, <1>6
<1> QED  BY <1>3, <1>6, <1>7

\* An endpoint is found up to date wherever the service principal is shown, as
\* long as it is somewhere (firstNonEmpty, isUpToDate).
LEMMA EndpointSettles ==
  ASSUME NEW p, NEW answer \in ARM!Answers(ARM!Desired(p)), ARM!Accepted(p)
  PROVE  ARM!IsUpToDate(p, answer)
<1>1. answer = [name |-> p.name, subscription |-> p.subscription, tenant |-> p.tenant,
                resourceGroup |-> p.resourceGroup, scheme |-> answer.scheme, client |-> p.client,
                key |-> IF ARM!Scheme(p) = "ServicePrincipal" THEN p.key ELSE Empty,
                make |-> "manual", shown |-> answer.shown]
  BY EndpointAnswers
<1>2. ARM!Fold(answer.scheme) = ARM!Scheme(p) /\ answer.shown # {}
  BY EndpointAnswers
<1>3. /\ answer.name = p.name /\ answer.subscription = p.subscription /\ answer.tenant = p.tenant
      /\ answer.resourceGroup = p.resourceGroup /\ answer.client = p.client /\ answer.make = "manual"
  BY <1>1
<1> QED  BY <1>2, <1>3 DEF ARM!IsUpToDate, ARM!ComparableData, ARM!FirstNonEmpty

\* The endpoint that comes back is one Azure DevOps can have.
LEMMA EndpointTypes ==
  ASSUME NEW p, NEW answer \in ARM!Answers(ARM!Desired(p)), IsRecord(p, ARM!Parameters), ARM!Accepted(p)
  PROVE  IsRecord(answer, ARM!Endpoint)
<1> DEFINE types == ARM!Endpoint
<1>1. answer = [name |-> p.name, subscription |-> p.subscription, tenant |-> p.tenant,
                resourceGroup |-> p.resourceGroup, scheme |-> answer.scheme, client |-> p.client,
                key |-> IF ARM!Scheme(p) = "ServicePrincipal" THEN p.key ELSE Empty,
                make |-> "manual", shown |-> answer.shown]
  BY EndpointAnswers
<1>2. /\ answer.name = p.name /\ answer.subscription = p.subscription /\ answer.tenant = p.tenant
      /\ answer.resourceGroup = p.resourceGroup /\ answer.client = p.client /\ answer.make = "manual"
      /\ answer.key \in {p.key, Empty}
  BY <1>1
<1> HIDE DEF types
<1>3. /\ answer.name \in types.name /\ answer.subscription \in types.subscription /\ answer.tenant \in types.tenant
      /\ answer.resourceGroup \in types.resourceGroup /\ answer.scheme \in types.scheme
      /\ answer.client \in types.client /\ answer.key \in types.key /\ answer.make \in types.make
      /\ answer.shown \in types.shown
  BY <1>2, EndpointAnswers, ARMFields, EndpointShape DEF types
<1>4. DOMAIN types = {"name", "subscription", "tenant", "resourceGroup", "scheme", "client", "key", "make", "shown"}
  BY EndpointShape DEF types
<1>5. answer = [f \in DOMAIN types |-> answer[f]]
  BY <1>1, <1>4
<1>6. \A f \in DOMAIN types : answer[f] \in types[f]
  BY <1>3, <1>4
<1> QED  BY <1>5, <1>6 DEF IsRecord, types

-----------------------------------------------------------------------------
(* The CR and its resource *)

\* What the parameters of each kind are made of.
LEMMA ParameterShapes ==
  /\ BD!Parameters = [name |-> Texts, path |-> Texts \cup {Empty, BD!Root}, project |-> GuidTexts36,
                      repository |-> GuidTexts36, repositoryRef |-> Texts \cup {None, Empty}, yamlPath |-> Texts,
                      groups |-> BD!GroupTexts, ci |-> BOOLEAN, pr |-> BOOLEAN]
  /\ BP!Parameters = [repository |-> GuidTexts36, branch |-> BP!Branches, minimumApproverCount |-> Numbers,
                      flags |-> SUBSET BP!Flags, enabled |-> BOOLEAN, blocking |-> BOOLEAN]
  /\ VG!ParametersAndVariables =
       [name |-> Texts, description |-> Texts \cup {Empty}, project |-> GuidTexts, keyVault |-> VG!KeyVaults \cup {None},
        variables |-> [Names -> VG!Variables \cup {None}]]
  /\ ARM!Parameters = [name |-> Texts, subscription |-> Texts, tenant |-> Texts, resourceGroup |-> Texts \cup {Empty},
                       schemes |-> SUBSET ARM!AuthorizationSchemes, client |-> Texts, key |-> Texts]
<1> USE DEF Empty, GuidTexts36, GuidTexts, GuidForms
<1>1. BD!Parameters = [name |-> Texts, path |-> Texts \cup {Empty, BD!Root}, project |-> GuidTexts36,
                      repository |-> GuidTexts36, repositoryRef |-> Texts \cup {None, Empty}, yamlPath |-> Texts,
                      groups |-> BD!GroupTexts, ci |-> BOOLEAN, pr |-> BOOLEAN]
  BY DEF BD!Parameters, BD!GuidTexts36, BD!GuidTexts, BD!GuidForms, BD!Empty
<1>2. BP!Parameters = [repository |-> GuidTexts36, branch |-> BP!Branches, minimumApproverCount |-> Numbers,
                      flags |-> SUBSET BP!Flags, enabled |-> BOOLEAN, blocking |-> BOOLEAN]
  BY DEF BP!Parameters, BP!GuidTexts36, BP!GuidTexts, BP!GuidForms
<1>3. VG!ParametersAndVariables =
       [name |-> Texts, description |-> Texts \cup {Empty}, project |-> GuidTexts, keyVault |-> VG!KeyVaults \cup {None},
        variables |-> [Names -> VG!Variables \cup {None}]]
  BY DEF VG!ParametersAndVariables, VG!GuidTexts, VG!GuidForms, VG!Empty
<1>4. ARM!Parameters = [name |-> Texts, subscription |-> Texts, tenant |-> Texts, resourceGroup |-> Texts \cup {Empty},
                       schemes |-> SUBSET ARM!AuthorizationSchemes, client |-> Texts, key |-> Texts]
  BY DEF ARM!Parameters, ARM!Empty
<1> QED  BY <1>1, <1>2, <1>3, <1>4

\* A user's edit leaves parameters of the CR's kind.
LEMMA EditTypes ==
  ASSUME kind \in AllKinds, IsRecord(asked, ParametersOf(kind)), Edit
  PROVE  IsRecord(asked', ParametersOf(kind)) /\ spec' = asked'
<1>1. CASE kind = "builddefinition"
  <2>1. asked' \in Changed(asked, BD!Parameters) /\ spec' = asked'
    BY <1>1 DEF Edit
  <2> QED  BY <1>1, <2>1, ChangedRecords DEF ParametersOf
<1>2. CASE kind = "branchpolicy"
  <2>1. asked' \in Changed(asked, BP!Parameters) /\ spec' = asked'
    BY <1>2 DEF Edit
  <2> QED  BY <1>2, <2>1, ChangedRecords DEF ParametersOf
<1>3. CASE kind = "azurerm"
  <2>1. asked' \in Changed(asked, ARM!Parameters) /\ spec' = asked'
    BY <1>3 DEF Edit
  <2> QED  BY <1>3, <2>1, ChangedRecords DEF ParametersOf
<1>4. CASE kind = "variablegroup"
  <2> DEFINE types == VG!ParametersAndVariables
  <2>1. asked' \in VG!Edits(asked) /\ spec' = asked'
    BY <1>4 DEF Edit
  <2>2. IsRecord(asked, types)
    BY <1>4 DEF ParametersOf
  <2>3. CASE asked' \in VG!Changed(asked, VG!Parameters)
    <3>1. asked' \in Changed(asked, VG!Parameters)
      BY <2>3 DEF VG!Changed, Changed
    <3>2. /\ DOMAIN VG!Parameters \subseteq DOMAIN types
          /\ \A f \in DOMAIN VG!Parameters : VG!Parameters[f] \subseteq types[f]
      BY DEF VG!Parameters, VG!ParametersAndVariables
    <3> QED  BY <1>4, <2>1, <2>2, <3>1, <3>2, ChangedRecords DEF ParametersOf
  <2>4. CASE asked' \in {[asked EXCEPT !.variables[n] = v] : n \in Names, v \in VG!Variables \cup {None}}
    <3>1. PICK n \in Names, v \in VG!Variables \cup {None} : asked' = [asked EXCEPT !.variables[n] = v]
      BY <2>4
    <3>2. asked.variables \in [Names -> VG!Variables \cup {None}]
      BY <2>2, VGFields
    <3> DEFINE variables == [asked.variables EXCEPT ![n] = v]
    <3>3. variables \in [Names -> VG!Variables \cup {None}]
      BY <3>2
    <3>4. asked' = [asked EXCEPT !.variables = variables]
      BY <3>1
    <3> HIDE DEF variables
    <3>5. DOMAIN types = {"name", "description", "project", "keyVault", "variables"} /\ types.variables = [Names -> VG!Variables \cup {None}]
      BY DEF VG!ParametersAndVariables
    <3>6. asked = [f \in DOMAIN types |-> asked[f]] /\ \A f \in DOMAIN types : asked[f] \in types[f]
      BY <2>2 DEF IsRecord
    <3> HIDE DEF types
    <3>7. asked' = [f \in DOMAIN types |-> IF f = "variables" THEN variables ELSE asked[f]]
      BY <3>4, <3>5, <3>6
    <3>8. IsRecord(asked', types)
      BY <3>3, <3>5, <3>6, <3>7 DEF IsRecord
    <3> QED  BY <1>4, <2>1, <3>8 DEF ParametersOf, types
  <2> QED  BY <2>1, <2>3, <2>4 DEF VG!Edits
<1> QED  BY <1>1, <1>2, <1>3, <1>4 DEF AllKinds

\* An administrator's edit leaves a resource of the CR's kind.
LEMMA AdministerTypes ==
  ASSUME kind \in AllKinds, resource # None => IsRecord(resource, FieldsOf(kind)), Administer
  PROVE  resource' # None => IsRecord(resource', FieldsOf(kind))
<1> DEFINE fields == CASE kind = "builddefinition" -> BD!Fields
                       [] kind = "branchpolicy"    -> BP!Fields
                       [] kind = "variablegroup"   -> VG!Fields
                       [] kind = "azurerm"         -> ARM!Fields
<1>1. resource' = None \/ resource' \in Changed(resource, fields)
  BY DEF Administer, AllKinds
<1>2. /\ DOMAIN fields \subseteq DOMAIN FieldsOf(kind)
      /\ \A f \in DOMAIN fields : fields[f] \subseteq FieldsOf(kind)[f]
  <2>1. CASE kind = "builddefinition"
    <3>1. BD!GroupIds \subseteq Seq(Numbers)
      BY DEF BD!GroupIds, BD!BoundedSeq, BD!SeqOf
    <3>2. [id : Guids, branch : Texts] \subseteq [id : Guids, branch : Texts \cup {BD!Empty}]
      OBVIOUS
    <3> DEFINE before == BD!Fields
               after == BD!Definition
    <3>3. /\ DOMAIN before = {"name", "path", "repository", "yamlFile", "triggers", "groups", "rest"}
          /\ DOMAIN before \subseteq DOMAIN after
      BY DEF BD!Fields, BD!Definition
    <3>4. /\ before.name \subseteq after.name /\ before.path \subseteq after.path
          /\ before.repository \subseteq after.repository /\ before.yamlFile \subseteq after.yamlFile
          /\ before.triggers \subseteq after.triggers
      BY <3>2 DEF BD!Fields, BD!Definition
    <3>5. before.groups \subseteq after.groups /\ before.rest \subseteq after.rest
      BY <3>1 DEF BD!Fields, BD!Definition
    <3> HIDE DEF before, after
    <3>6. \A f \in DOMAIN before : before[f] \subseteq after[f]
      BY <3>3, <3>4, <3>5
    <3> QED  BY <2>1, <3>3, <3>6 DEF FieldsOf, before, after
  <2>2. CASE kind = "branchpolicy"
    <3>1. UNION {BP!kSubset(n, [repository : Guids \cup {None}, refName : Texts, matchKind : {"Exact", "Prefix"}]) : n \in 0..2}
            \subseteq SUBSET BP!Scopes
      BY DEF BP!kSubset, BP!Scopes, BP!MatchKinds
    <3> DEFINE before == BP!Fields
    <3>2. /\ DOMAIN before = {"enabled", "blocking", "minimumApproverCount", "flags", "scopes", "enterprise"}
          /\ before.enabled = BOOLEAN /\ before.blocking = BOOLEAN /\ before.minimumApproverCount = Numbers
          /\ before.flags = SUBSET (BP!Flags \cup BP!UnsupportedFlags) /\ before.enterprise = BOOLEAN
      BY DEF BP!Fields
    <3>3. before.scopes \subseteq BP!Policy.scopes
      BY <3>1, PolicyShape DEF BP!Fields
    <3> HIDE DEF before
    <3>4. \A f \in DOMAIN before : before[f] \subseteq BP!Policy[f]
      BY <3>2, <3>3, PolicyShape
    <3>5. DOMAIN before \subseteq DOMAIN BP!Policy
      BY <3>2, PolicyShape
    <3> QED  BY <2>2, <3>4, <3>5 DEF FieldsOf, before
  <2>3. CASE kind = "variablegroup"
    <3>1. [type : {"Vsts"}, variables : [Names -> VG!Values \cup {None}]] \subseteq
            [type : {"Vsts", VG!Empty}, variables : [Names -> VG!Values \cup {None}]]
      OBVIOUS
    <3> QED  BY <2>3, <3>1 DEF FieldsOf, VG!Fields, VG!Group
  <2>4. CASE kind = "azurerm"
    BY <2>4 DEF FieldsOf, ARM!Fields, ARM!Endpoint
  <2> QED  BY <2>1, <2>2, <2>3, <2>4 DEF AllKinds
<1> HIDE DEF fields
<1>3. IsRecord(resource, FieldsOf(kind))
  BY DEF Administer
<1> QED  BY <1>1, <1>2, <1>3, ChangedRecords

\* What Azure DevOps makes of a payload is a resource of the CR's kind.
LEMMA AnswersTyped ==
  ASSUME kind \in AllKinds, NEW p, NEW current, NEW answer \in Answers(Desired(p, current)),
         IsRecord(p, ParametersOf(kind)), Accepted(p, current),
         kind = "builddefinition" /\ current # None => IsRecord(current, FieldsOf(kind))
  PROVE  IsRecord(answer, FieldsOf(kind))
<1> USE DEF Answers, Desired, Accepted, ParametersOf, FieldsOf
<1>1. CASE kind = "builddefinition"
  BY <1>1, DefinitionTypes
<1>2. CASE kind = "branchpolicy"
  BY <1>2, PolicyTypes
<1>3. CASE kind = "variablegroup"
  BY <1>3, GroupTypes
<1>4. CASE kind = "azurerm"
  BY <1>4, EndpointTypes
<1> QED  BY <1>1, <1>2, <1>3, <1>4 DEF AllKinds

\* What Azure DevOps makes of a payload is found up to date, for each kind.
LEMMA AnswersSettle ==
  ASSUME kind \in AllKinds, NEW p, NEW current, NEW answer \in Answers(Desired(p, current)),
         IsRecord(p, ParametersOf(kind)), Accepted(p, current), Settleable(p)
  PROVE  IsUpToDate(p, answer)
<1> USE DEF Answers, Desired, Accepted, ParametersOf, Settleable, IsUpToDate
<1>1. CASE kind = "builddefinition"
  BY <1>1, DefinitionSettles
<1>2. CASE kind = "branchpolicy"
  BY <1>2, PolicySettles
<1>3. CASE kind = "variablegroup"
  BY <1>3, GroupSettles
<1>4. CASE kind = "azurerm"
  BY <1>4, EndpointSettles
<1> QED  BY <1>1, <1>2, <1>3, <1>4 DEF AllKinds

\* A write of the CR leaves parameters of its kind, and a second one what the
\* first left.
LEMMA WrittenStored ==
  ASSUME kind \in AllKinds, NEW p, IsRecord(p, ParametersOf(kind))
  PROVE  IsRecord(Written(p), ParametersOf(kind)) /\ Written(Written(p)) = Written(p)
  BY WrittenTypes DEF Written, ParametersOf, AllKinds

\* The CRs to begin with are of the types.
LEMMA ContentsInitKeeps == ContentsInit => ContentsInv
<1> SUFFICES ASSUME ContentsInit PROVE ContentsInv
  OBVIOUS
<1>1. kind \in AllKinds /\ kind \in Kinds
  BY ContentsAssumption DEF ContentsInit
<1>2. SomeText \in Texts /\ SomeGuid \in GuidTexts36 /\ SomeGuid \in GuidTexts /\ 1 \in Numbers
  BY ContentsAssumption DEF SomeText, SomeGuid, GuidTexts36, GuidTexts, GuidForms
<1> HIDE DEF SomeText, SomeGuid
<1>3. asked \in FirstAsked(kind)
  BY DEF ContentsInit
<1>4. CASE kind = "builddefinition"
  <2>1. asked \in [name : {SomeText}, path : {Empty}, project : {SomeGuid}, repository : {SomeGuid}, repositoryRef : {None},
          yamlPath : {SomeText}, groups : {<<>>, <<Itoa(1)>>}, ci : BOOLEAN, pr : BOOLEAN]
    BY <1>3, <1>4 DEF FirstAsked
  <2>2. <<>> \in BD!GroupTexts /\ <<Itoa(1)>> \in BD!GroupTexts
    <3>1. Itoa(1) \in BD!NumberTexts
      BY <1>2 DEF Itoa, BD!NumberTexts
    <3>2. <<>> \in [1..0 -> BD!NumberTexts] /\ <<Itoa(1)>> \in [1..1 -> BD!NumberTexts]
      BY <3>1
    <3>3. 0 \in 0..MaxGroups /\ 1 \in 0..MaxGroups
      BY ContentsAssumption
    <3> QED  BY <3>2, <3>3 DEF BD!GroupTexts, BD!BoundedSeq, BD!SeqOf
  <2> DEFINE types == BD!Parameters
  <2>3. /\ DOMAIN types = {"name", "path", "project", "repository", "repositoryRef", "yamlPath", "groups", "ci", "pr"}
        /\ types.name = Texts /\ types.path = Texts \cup {Empty, BD!Root} /\ types.project = GuidTexts36
        /\ types.repository = GuidTexts36 /\ types.repositoryRef = Texts \cup {None, Empty} /\ types.yamlPath = Texts
        /\ types.groups = BD!GroupTexts /\ types.ci = BOOLEAN /\ types.pr = BOOLEAN
    BY ParameterShapes
  <2> HIDE DEF types
  <2>4. /\ asked.name \in types.name /\ asked.path \in types.path /\ asked.project \in types.project
        /\ asked.repository \in types.repository /\ asked.repositoryRef \in types.repositoryRef
        /\ asked.yamlPath \in types.yamlPath /\ asked.groups \in types.groups /\ asked.ci \in types.ci /\ asked.pr \in types.pr
    BY <1>2, <2>1, <2>2, <2>3
  <2>5. asked = [f \in DOMAIN types |-> asked[f]]
    BY <2>1, <2>3
  <2>6. \A f \in DOMAIN types : asked[f] \in types[f]
    BY <2>3, <2>4
  <2>7. IsRecord(asked, types)
    BY <2>5, <2>6 DEF IsRecord
  <2> QED  BY <1>1, <1>4, <2>7 DEF ContentsInit, ContentsInv, ContentsTypeOK, Stored, NoReconcile, ParametersOf, types
<1>5. CASE kind = "branchpolicy"
  <2>1. asked \in [repository : {SomeGuid}, branch : {[stem |-> SomeText, form |-> f] : f \in {"exact", "prefix"}},
                   minimumApproverCount : {1}, flags : {{}}, enabled : BOOLEAN, blocking : BOOLEAN]
    BY <1>3, <1>5 DEF FirstAsked
  <2>2. \A f \in {"exact", "prefix"} : [stem |-> SomeText, form |-> f] \in BP!Branches
    BY <1>2 DEF BP!Branches
  <2> DEFINE types == BP!Parameters
  <2>3. /\ DOMAIN types = {"repository", "branch", "minimumApproverCount", "flags", "enabled", "blocking"}
        /\ types.repository = GuidTexts36 /\ types.branch = BP!Branches /\ types.minimumApproverCount = Numbers
        /\ types.flags = SUBSET BP!Flags /\ types.enabled = BOOLEAN /\ types.blocking = BOOLEAN
    BY ParameterShapes
  <2> HIDE DEF types
  <2>4. /\ asked.repository \in types.repository /\ asked.branch \in types.branch
        /\ asked.minimumApproverCount \in types.minimumApproverCount /\ asked.flags \in types.flags
        /\ asked.enabled \in types.enabled /\ asked.blocking \in types.blocking
    BY <1>2, <2>1, <2>2, <2>3
  <2>5. asked = [f \in DOMAIN types |-> asked[f]]
    BY <2>1, <2>3
  <2>6. \A f \in DOMAIN types : asked[f] \in types[f]
    BY <2>3, <2>4
  <2>7. IsRecord(asked, types)
    BY <2>5, <2>6 DEF IsRecord
  <2> QED  BY <1>1, <1>5, <2>7 DEF ContentsInit, ContentsInv, ContentsTypeOK, Stored, NoReconcile, ParametersOf, types
<1>6. CASE kind = "variablegroup"
  <2>1. asked \in [name : {SomeText}, description : {Empty}, project : {SomeGuid},
          variables : [Names -> {None, [value |-> SomeText, isSecret |-> FALSE, from |-> None],
                                 [value |-> Empty, isSecret |-> TRUE, from |-> SomeText]}], keyVault : {None}]
    BY <1>3, <1>6 DEF FirstAsked
  <2>2. {None, [value |-> SomeText, isSecret |-> FALSE, from |-> None],
         [value |-> Empty, isSecret |-> TRUE, from |-> SomeText]} \subseteq VG!Variables \cup {None}
    <3>1. [value |-> SomeText, isSecret |-> FALSE, from |-> None] \in VG!Variables
      BY <1>2 DEF VG!Variables
    <3>2. [value |-> Empty, isSecret |-> TRUE, from |-> SomeText] \in VG!Variables
      BY <1>2 DEF VG!Variables, VG!Empty, Empty
    <3> QED  BY <3>1, <3>2
  <2>3. asked.variables \in [Names -> VG!Variables \cup {None}]
    BY <2>1, <2>2
  <2> DEFINE types == VG!ParametersAndVariables
  <2>4. /\ DOMAIN types = {"name", "description", "project", "keyVault", "variables"}
        /\ types.name = Texts /\ types.description = Texts \cup {Empty} /\ types.project = GuidTexts
        /\ types.keyVault = VG!KeyVaults \cup {None} /\ types.variables = [Names -> VG!Variables \cup {None}]
    BY ParameterShapes
  <2> HIDE DEF types
  <2>5. /\ asked.name \in types.name /\ asked.description \in types.description /\ asked.project \in types.project
        /\ asked.keyVault \in types.keyVault /\ asked.variables \in types.variables
    BY <1>2, <2>1, <2>3, <2>4
  <2>6. asked = [f \in DOMAIN types |-> asked[f]]
    BY <2>1, <2>4
  <2>7. \A f \in DOMAIN types : asked[f] \in types[f]
    BY <2>4, <2>5
  <2>8. IsRecord(asked, types)
    BY <2>6, <2>7 DEF IsRecord
  <2> QED  BY <1>1, <1>6, <2>8 DEF ContentsInit, ContentsInv, ContentsTypeOK, Stored, NoReconcile, ParametersOf, types
<1>7. CASE kind = "azurerm"
  <2>1. asked \in [name : {SomeText}, subscription : {SomeText}, tenant : {SomeText}, resourceGroup : {Empty, SomeText},
          schemes : {{"ServicePrincipal"}, {"WorkloadIdentityFederation"}}, client : {SomeText}, key : {SomeText}]
    BY <1>3, <1>7 DEF FirstAsked
  <2> DEFINE types == ARM!Parameters
  <2>2. /\ DOMAIN types = {"name", "subscription", "tenant", "resourceGroup", "schemes", "client", "key"}
        /\ types.name = Texts /\ types.subscription = Texts /\ types.tenant = Texts
        /\ types.resourceGroup = Texts \cup {Empty} /\ types.schemes = SUBSET ARM!AuthorizationSchemes
        /\ types.client = Texts /\ types.key = Texts
    BY ParameterShapes
  <2>3. asked.schemes \in SUBSET ARM!AuthorizationSchemes
    BY <2>1 DEF ARM!AuthorizationSchemes
  <2> HIDE DEF types
  <2>4. /\ asked.name \in types.name /\ asked.subscription \in types.subscription /\ asked.tenant \in types.tenant
        /\ asked.resourceGroup \in types.resourceGroup /\ asked.schemes \in types.schemes
        /\ asked.client \in types.client /\ asked.key \in types.key
    BY <1>2, <2>1, <2>2, <2>3
  <2>5. asked = [f \in DOMAIN types |-> asked[f]]
    BY <2>1, <2>2
  <2>6. \A f \in DOMAIN types : asked[f] \in types[f]
    BY <2>2, <2>4
  <2>7. IsRecord(asked, types)
    BY <2>5, <2>6 DEF IsRecord
  <2> QED  BY <1>1, <1>7, <2>7 DEF ContentsInit, ContentsInv, ContentsTypeOK, Stored, NoReconcile, ParametersOf, types
<1> QED  BY <1>1, <1>4, <1>5, <1>6, <1>7 DEF AllKinds

\* Every step keeps the types, and what the API server has of the CR.
LEMMA ContentsStepKeeps == ContentsInv /\ [ContentsNext]_contentsVars => ContentsInv'
<1> SUFFICES ASSUME ContentsInv, [ContentsNext]_contentsVars PROVE ContentsInv'
  OBVIOUS
<1> USE DEF ContentsInv, ContentsTypeOK, Stored
<1>1. kind \in AllKinds /\ kind' = kind
  BY ContentsAssumption DEF ContentsNext, contentsVars, Edit, Administer, MarkPending, Create, Observe, ReadCurrent, Update, GiveUp
<1>2. ParametersOf(kind)' = ParametersOf(kind) /\ FieldsOf(kind)' = FieldsOf(kind)
      /\ \A p : Written(p)' = Written(p)
  BY <1>1 DEF ParametersOf, FieldsOf, Written
<1>3. CASE Edit
  <2>1. IsRecord(asked', ParametersOf(kind)) /\ spec' = asked'
    BY <1>1, <1>3, EditTypes
  <2> QED  BY <1>1, <1>2, <1>3, <2>1 DEF Edit, Change
<1>4. CASE Administer
  <2>1. resource' # None => IsRecord(resource', FieldsOf(kind))
    BY <1>1, <1>4, AdministerTypes
  <2> QED  BY <1>1, <1>2, <1>4, <2>1 DEF Administer, Change
<1>5. CASE MarkPending
  <2>1. IsRecord(Written(spec), ParametersOf(kind)) /\ Written(spec) \in {asked, Written(asked)}
    BY <1>1, WrittenStored
  <2> QED  BY <1>1, <1>2, <1>5, <2>1 DEF MarkPending
<1>6. CASE Create
  <2>1. IsRecord(resource', FieldsOf(kind))
    BY <1>1, <1>6, AnswersTyped DEF Create
  <2> QED  BY <1>1, <1>2, <1>6, <2>1 DEF Create, NoReconcile
<1>7. CASE Observe
  BY <1>1, <1>2, <1>7 DEF Observe
<1>8. CASE ReadCurrent
  BY <1>1, <1>2, <1>8 DEF ReadCurrent
<1>9. CASE Update
  <2>1. IsRecord(resource', FieldsOf(kind))
    BY <1>1, <1>9, AnswersTyped DEF Update, Latest
  <2> QED  BY <1>1, <1>2, <1>9, <2>1 DEF Update, NoReconcile
<1>10. CASE GiveUp
  BY <1>1, <1>2, <1>10 DEF GiveUp, NoReconcile
<1>11. CASE UNCHANGED contentsVars
  BY <1>1, <1>2, <1>11 DEF contentsVars
<1> QED  BY <1>3, <1>4, <1>5, <1>6, <1>7, <1>8, <1>9, <1>10, <1>11 DEF ContentsNext

\* Every record is of its kind, and what the API server has is what the user
\* gave but for its defaults, in every reachable state (ResourceContents).
THEOREM ContentsInductive == ContentsSpec => []ContentsInv
  BY ContentsInitKeeps, ContentsStepKeeps, PTL DEF ContentsSpec

\* The state is well typed in every reachable state (ResourceContents).
THEOREM ContentsTypeCorrect == ContentsSpec => []ContentsTypeOK
<1>1. ContentsInv => ContentsTypeOK
  BY DEF ContentsInv
<1> QED  BY <1>1, ContentsInductive, PTL

\* A resource found up to date is what the user's parameters stand for, for
\* every set of texts, ids, numbers and variables, any number of linked groups
\* and of edits on both sides (isUpToDate of the four kinds).
THEOREM EditsAreNoticed == ContentsSpec => []NoticesEdits
<1>1. ContentsInv => NoticesEdits
  <2> SUFFICES ASSUME ContentsInv, resource # None, IsUpToDate(spec, resource)
               PROVE  CASE kind = "builddefinition" -> BD!Distinct(spec) => BD!Meaning(resource) = BD!Asked(spec)
                        [] kind = "branchpolicy"    -> BP!Meaning(resource) = BP!Asked(spec)
                        [] kind = "variablegroup"   -> VG!CopiesNone(spec) => VG!Meaning(resource) = VG!Asked(spec)
                        [] kind = "azurerm"         -> ARM!Meaning(resource) = ARM!Asked(spec)
    BY DEF NoticesEdits
  <2>1. kind \in AllKinds /\ IsRecord(spec, ParametersOf(kind)) /\ IsRecord(resource, FieldsOf(kind))
    BY ContentsAssumption DEF ContentsInv, ContentsTypeOK
  <2> USE <2>1 DEF IsUpToDate, ParametersOf, FieldsOf
  <2>2. CASE kind = "builddefinition"
    BY <2>2, DefinitionNoticed
  <2>3. CASE kind = "branchpolicy"
    BY <2>3, PolicyNoticed
  <2>4. CASE kind = "variablegroup"
    BY <2>4, GroupNoticed
  <2>5. CASE kind = "azurerm"
    BY <2>5, EndpointNoticed
  <2> QED  BY <2>2, <2>3, <2>4, <2>5 DEF AllKinds
<1> QED  BY <1>1, ContentsInductive, PTL

\* What a Create or an Update has sent is found up to date, in whatever form it
\* comes back (Create, Update and isUpToDate of the four kinds).
THEOREM UpdatesSettle == ContentsSpec => SettlesOnce
<1>1. ContentsInv /\ [ContentsNext]_contentsVars =>
        [(Create \/ Update) /\ Settleable(reconcile.spec) => IsUpToDate(reconcile.spec, resource')]_contentsVars
  <2> SUFFICES ASSUME ContentsInv, Create \/ Update, Settleable(reconcile.spec)
               PROVE  IsUpToDate(reconcile.spec, resource')
    OBVIOUS
  <2>1. kind \in AllKinds /\ IsRecord(reconcile.spec, ParametersOf(kind))
    BY ContentsAssumption DEF ContentsInv, ContentsTypeOK, Create, Update
  <2>2. CASE Create
    BY <2>1, <2>2, AnswersSettle DEF Create
  <2>3. CASE Update
    BY <2>1, <2>3, AnswersSettle DEF Update
  <2> QED  BY <2>2, <2>3
<1> QED  BY <1>1, ContentsInductive, PTL DEF ContentsSpec, SettlesOnce

\* An Update leaves alone what the parameters have no word for
\* (desiredBuildDefinition, desiredPolicyConfiguration).
THEOREM TheRestIsKept == ContentsSpec => KeepsTheRest
<1> DEFINE kept == CASE kind = "builddefinition" -> BD!SameRest(reconcile.spec, resource, resource')
                     [] kind = "branchpolicy"    -> reconcile.resource = resource => BP!SameRest(resource, resource')
                     [] OTHER                    -> TRUE
<1>1. ContentsInv /\ [ContentsNext]_contentsVars => [Update /\ Settleable(reconcile.spec) => kept]_contentsVars
  <2> SUFFICES ASSUME ContentsInv, Update, Settleable(reconcile.spec)
               PROVE  kept
    OBVIOUS
  <2>1. /\ kind \in AllKinds /\ IsRecord(reconcile.spec, ParametersOf(kind))
        /\ resource # None /\ IsRecord(resource, FieldsOf(kind))
    BY ContentsAssumption DEF ContentsInv, ContentsTypeOK, Update
  <2>2. /\ Accepted(reconcile.spec, reconcile.resource) /\ Latest
        /\ resource' \in Answers(Desired(reconcile.spec, reconcile.resource))
    BY DEF Update
  <2>3. CASE kind = "builddefinition"
    <3>1. reconcile.resource = resource /\ resource' = BD!Desired(reconcile.spec, resource)
      BY <2>2, <2>3 DEF Latest, Answers, Desired
    <3> QED  BY <2>1, <2>3, <3>1, DefinitionKept DEF Settleable, ParametersOf
  <2>4. CASE kind = "branchpolicy"
    BY <2>1, <2>2, <2>4, PolicyKept DEF Accepted, Answers, Desired, ParametersOf, FieldsOf
  <2> QED  BY <2>3, <2>4
<1> QED  BY <1>1, ContentsInductive, PTL DEF ContentsSpec, KeepsTheRest

\* The API server's defaults never leave a policy weaker than the user asked
\* for: that bounds what a lost false can do (ActiveAsAsked does not hold).
THEOREM DefaultsAreStricter == ContentsSpec => []AtLeastAsAsked
<1>1. ContentsInv => AtLeastAsAsked
  <2> SUFFICES ASSUME ContentsInv, kind = "branchpolicy", IsUpToDate(spec, resource)
               PROVE  (asked.enabled => resource.enabled) /\ (asked.blocking => resource.blocking)
    BY DEF AtLeastAsAsked
  <2>1. resource.enabled = spec.enabled /\ resource.blocking = spec.blocking
    BY DEF IsUpToDate, BP!IsUpToDate
  <2>2. spec = asked \/ (spec.enabled = TRUE /\ spec.blocking = TRUE)
    <3>1. asked \in [repository : GuidTexts36, branch : BP!Branches, minimumApproverCount : Numbers,
                     flags : SUBSET BP!Flags, enabled : BOOLEAN, blocking : BOOLEAN]
      BY ParameterShapes DEF ContentsInv, ContentsTypeOK, ParametersOf, IsRecord
    <3>2. spec = asked \/ spec = [asked EXCEPT !.enabled = TRUE, !.blocking = TRUE]
      BY DEF ContentsInv, Stored, Written, BP!Written
    <3> QED  BY <3>1, <3>2
  <2> QED  BY <2>1, <2>2
<1> QED  BY <1>1, ContentsInductive, PTL

================================================================================
