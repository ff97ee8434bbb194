---------------------------- MODULE ServerProofs ----------------------------
(***************************************************************************)
(* The life of the server process, for any number of clients and any       *)
(* settings: an accepted configuration makes a handler panic only if the   *)
(* sum of its shard counts overflows, exit code 0 means that no request    *)
(* was cut off, and the handlers together use the encoder cache as         *)
(* EncoderCache says.                                                      *)
(***************************************************************************)
EXTENDS Server, TLAPS

-----------------------------------------------------------------------------
(* EncoderFor hands out one encoder per Params, for any number of callers. *)

Codable(s) == NewOK(s[1], s[2])

\* An entry of the cache is for its key.
EntriesFit == \A s \in Schemes : encCache[s] # None => encCache[s].parm = s /\ Codable(s)

\* What a caller is about to store was built for its argument, and can be.
CallersFit ==
  \A g \in Callers :
    pc[g] = "store" => enc[g] \in Encoders /\ enc[g].parm = want[g] /\ Codable(want[g])

\* Whatever was handed out is the entry of the cache.
HandedIsCached == \A x \in handed : encCache[x[1]] = x[2]

Inv == TypeOK /\ EntriesFit /\ CallersFit /\ HandedIsCached

\* Inv holds before the first call.
LEMMA InitInv == Init => Inv
  BY CacheAssumption DEF Init, Inv, TypeOK, EntriesFit, CallersFit, HandedIsCached

\* Every step of a call preserves Inv.
LEMMA NextInv == Inv /\ [Next]_vars => Inv'
<1> SUFFICES ASSUME Inv, [Next]_vars PROVE Inv'
  OBVIOUS
<1> USE CacheAssumption DEF Inv, TypeOK
<1>1. ASSUME NEW g \in Callers, NEW s \in Schemes, Call(g, s) PROVE Inv'
  BY <1>1 DEF Call, EntriesFit, CallersFit, HandedIsCached
<1>2. ASSUME NEW g \in Callers, Load(g) PROVE Inv'
  BY <1>2 DEF Load, Hand, EntriesFit, CallersFit, HandedIsCached
<1>3. ASSUME NEW g \in Callers, New(g) PROVE Inv'
  <2>1. CASE NewOK(want[g][1], want[g][2])
    <3> DEFINE e == [id |-> allocs + 1, parm |-> want[g]]
    <3>1. e \in Encoders /\ e.parm = want[g] /\ Codable(want[g])
      BY <2>1 DEF Encoders, Codable
    <3>2. /\ allocs' = allocs + 1 /\ enc' = [enc EXCEPT ![g] = e]
          /\ pc' = [pc EXCEPT ![g] = "store"] /\ UNCHANGED <<encCache, want, calls, handed>>
      BY <1>3, <2>1 DEF New
    <3> HIDE DEF e
    <3> QED BY <3>1, <3>2 DEF EntriesFit, CallersFit, HandedIsCached
  <2>2. CASE ~NewOK(want[g][1], want[g][2])
    <3>1. pc' = [pc EXCEPT ![g] = "idle"]
          /\ UNCHANGED <<allocs, enc, encCache, want, calls, handed>>
      BY <1>3, <2>2 DEF New
    <3> QED BY <3>1 DEF EntriesFit, CallersFit, HandedIsCached
  <2> QED BY <2>1, <2>2
<1>4. ASSUME NEW g \in Callers, LoadOrStore(g) PROVE Inv'
  <2>1. CASE encCache[want[g]] = None
    <3>1. TypeOK'
      <4>1. want[g] \in Schemes /\ enc[g] \in Encoders
        BY <1>4 DEF LoadOrStore, CallersFit
      <4> QED BY <1>4, <2>1, <4>1 DEF LoadOrStore, Hand
    <3>2. EntriesFit' /\ CallersFit'
      BY <1>4, <2>1 DEF LoadOrStore, Hand, CallersFit, EntriesFit
    <3>3. \A x \in handed : x[1] # want[g]
      BY <2>1 DEF HandedIsCached
    <3>4. HandedIsCached'
      BY <1>4, <2>1, <3>3 DEF LoadOrStore, Hand, HandedIsCached
    <3> QED BY <3>1, <3>2, <3>4
  <2>2. CASE encCache[want[g]] # None
    BY <1>4, <2>2 DEF LoadOrStore, Hand, EntriesFit, CallersFit, HandedIsCached
  <2> QED BY <2>1, <2>2
<1>5. CASE UNCHANGED vars
  BY <1>5 DEF vars, EntriesFit, CallersFit, HandedIsCached
<1> QED BY <1>1, <1>2, <1>3, <1>4, <1>5 DEF Next

\* The invariant gives the property.
LEMMA InvOneEncoder == Inv => OneEncoder
<1> SUFFICES ASSUME Inv PROVE OneEncoder
  OBVIOUS
<1>1. \A x, y \in handed : x[1] = y[1] => x[2] = y[2]
  BY DEF Inv, HandedIsCached
<1>2. ASSUME NEW x \in handed PROVE x[2].parm = x[1] /\ Codable(x[1])
  <2>1. x[1] \in Schemes /\ x[2] \in Encoders
    BY DEF Inv, TypeOK
  <2>2. encCache[x[1]] = x[2]
    BY DEF Inv, HandedIsCached
  <2>3. x[2] # None
    BY <2>1, CacheAssumption
  <2> QED BY <2>1, <2>2, <2>3 DEF Inv, EntriesFit
<1> QED BY <1>1, <1>2 DEF OneEncoder, Codable

\* EncoderFor: all calls with the same Params get the same encoder, whatever
\* the number of callers and however they race on a miss.
THEOREM EncoderForIsUnique == Spec => []OneEncoder
  BY InitInv, NextInv, InvOneEncoder, PTL DEF Spec

-----------------------------------------------------------------------------
(* The server process.                                                     *)

Running == main \in {"select", "shutdown"}
Scheme  == <<cfg.k, cfg.m>>

ServerTypeOK ==
  /\ main \in {"start", "select", "shutdown", "exited"}
  /\ conn \in [Callers -> {"none", "idle", "active"}]
  /\ reads \in [Callers -> BOOLEAN]
  /\ fate \in [Callers -> {"none", "begun", "coded", "answered", "panicked", "killed"}]

\* Nothing happens to connections and requests before the server runs, and
\* nothing is left of them when it has ended.
Lifetime ==
  /\ \A g \in Callers : conn[g] # "none" => Running
  /\ main = "start" =>
       \A g \in Callers : fate[g] = "none" /\ pc[g] = "idle"
  /\ \A g \in Callers : fate[g] = "killed" => main = "exited"
  /\ listener = "open" => Running

\* The configuration was checked before the listener was opened, and handlers
\* ask for its scheme.
Configured ==
  Running => /\ Scheme \in Schemes /\ Validate(cfg.k, cfg.m)
             /\ \A g \in Callers : pc[g] # "idle" => want[g] = Scheme

ServerInv == ServerTypeOK /\ Lifetime /\ Configured /\ PanicsOnOverflowOnly /\ CleanExit

\* The server starts in a state of the invariant, with an empty cache.
LEMMA ServerInitInv == ServerInit => Init /\ ServerInv
  BY DEF ServerInit, Init, ServerInv, ServerTypeOK, Lifetime, Configured, Running,
         PanicsOnOverflowOnly, CleanExit

\* What Parse accepts is a scheme ec.Params.Validate accepts, and one of
\* Schemes.
LEMMA ParsedIsValid ==
  ASSUME NEW env \in Envs, NEW flags \in Flags, ParseOK(env, flags)
  PROVE  LET c == Settings(env, flags) IN <<c.k, c.m>> \in Schemes /\ Validate(c.k, c.m)
  BY ServerAssumption DEF ParseOK, ValidConfig, Validate

\* Exit ends every connection, and kills the requests that are active.
LEMMA ExitInv ==
  ASSUME ServerInv, NEW c, main # "exited", Exit(c), UNCHANGED <<cfg, pc, reads>>,
         c = 0 => \A g \in Callers : conn[g] # "active"
  PROVE  ServerInv'
<1> USE DEF ServerInv, ServerTypeOK, Exit
<1>1. ServerTypeOK' /\ Lifetime' /\ Configured'
  BY DEF Lifetime, Configured, Running
<1>2. PanicsOnOverflowOnly'
  BY DEF PanicsOnOverflowOnly
<1>3. CleanExit'
  BY DEF Lifetime, CleanExit
<1> QED BY <1>1, <1>2, <1>3

\* The main goroutine: start-up, the select, and the end of the shutdown.
LEMMA MainInv ==
  ASSUME ServerInv,
         \/ \E command \in {"none", "version", "help", "other"} : RunOther(command)
         \/ \E env \in Envs, flags \in Flags : RunServer(env, flags)
         \/ Signal \/ ListenerFails \/ MainStep
  PROVE  UNCHANGED vars /\ ServerInv'
<1>1. CASE \E command \in {"none", "version", "help", "other"} : RunOther(command)
  <2>1. main = "start" /\ (\E c : Exit(c)) /\ UNCHANGED <<vars, cfg, reads>>
    BY <1>1 DEF RunOther
  <2>2. \A g \in Callers : conn[g] # "active"
    BY <2>1 DEF ServerInv, ServerTypeOK, Lifetime, Running
  <2> QED BY <2>1, <2>2, ExitInv DEF vars
<1>2. ASSUME NEW env \in Envs, NEW flags \in Flags, RunServer(env, flags)
      PROVE  UNCHANGED vars /\ ServerInv'
  <2>1. main = "start" /\ UNCHANGED vars
    BY <1>2 DEF RunServer
  <2>2. CASE Exit(1) /\ UNCHANGED <<cfg, reads>>
    BY <2>1, <2>2, ExitInv DEF vars
  <2>3. CASE ~(Exit(1) /\ UNCHANGED <<cfg, reads>>)
    <3>1. /\ ParseOK(env, flags) /\ cfg' = Settings(env, flags)
          /\ main' = "select" /\ UNCHANGED <<code, conn, reads, fate>>
      BY <1>2, <2>3 DEF RunServer, requests
    <3>3. \A g \in Callers : fate[g] = "none" /\ pc[g] = "idle"
      BY <2>1 DEF ServerInv, Lifetime
    <3>2. Configured'
      BY <2>1, <3>1, <3>3, ParsedIsValid DEF Configured, Scheme, vars
    <3> QED BY <2>1, <3>1, <3>2, <3>3
            DEF ServerInv, ServerTypeOK, Lifetime, Running, PanicsOnOverflowOnly, CleanExit, vars
  <2> QED BY <2>1, <2>2, <2>3
<1>3. CASE Signal \/ ListenerFails \/ SelectSignal
  BY <1>3 DEF Signal, ListenerFails, SelectSignal, vars, requests, ServerInv, ServerTypeOK,
       Lifetime, Running, Configured, Scheme, PanicsOnOverflowOnly, CleanExit
<1>4. CASE SelectError \/ ShutdownDone \/ ShutdownTimeout
  <2>1. /\ main # "exited" /\ UNCHANGED <<vars, cfg, reads>>
        /\ Exit(1) \/ (Exit(0) /\ \A g \in Callers : conn[g] # "active")
    BY <1>4 DEF SelectError, ShutdownDone, ShutdownTimeout
  <2> QED BY <2>1, ExitInv DEF vars
<1> QED BY <1>1, <1>2, <1>3, <1>4 DEF MainStep

\* Connections and handlers: every step of a handler is a step of EncoderFor
\* or leaves the cache alone.
LEMMA HandlerInv ==
  ASSUME ServerInv, TypeOK, NEW g \in Callers,
         \/ Accept(g) \/ EncoderFor(g) \/ Respond(g)
         \/ \E b \in BOOLEAN : Request(g, b)
         \/ \E s \in {"none", "idle"} : Done(g, s)
  PROVE  [Next]_vars /\ ServerInv'
<1> USE DEF ServerInv, ServerTypeOK, Lifetime
<1>1. CASE Accept(g) \/ Respond(g) \/ \E s \in {"none", "idle"} : Done(g, s)
  <2>1. UNCHANGED <<vars, main, cfg, code, reads>> /\ main # "exited"
    BY <1>1 DEF Accept, Respond, Done, process, Running
  <2>2. \E f \in {"none", "idle", "active"} : conn' = [conn EXCEPT ![g] = f]
    BY <1>1 DEF Accept, Respond, Done
  <2>3. fate' = fate \/ fate' = [fate EXCEPT ![g] = "answered"]
    BY <1>1 DEF Accept, Respond, Done, Result
  <2>4. Running
    BY <1>1 DEF Accept, Respond, Done
  <2> QED BY <2>1, <2>2, <2>3, <2>4
          DEF vars, Running, Configured, Scheme, PanicsOnOverflowOnly, CleanExit
<1>2. ASSUME NEW b \in BOOLEAN, Request(g, b) PROVE [Next]_vars /\ ServerInv'
  <2>1. /\ Running /\ Call(g, Scheme)
        /\ reads' = [reads EXCEPT ![g] = b] /\ conn' = [conn EXCEPT ![g] = "active"]
        /\ UNCHANGED <<main, cfg, code>>
    BY <1>2 DEF Request, process, Scheme
  <2>2. Scheme \in Schemes /\ Validate(Scheme[1], Scheme[2])
    BY <2>1 DEF Configured, Scheme
  <2>3. pc' = [pc EXCEPT ![g] = "load"] /\ want' = [want EXCEPT ![g] = Scheme]
    BY <2>1, <2>2 DEF Call
  <2>4. fate' = [fate EXCEPT ![g] = "begun"]
    BY <1>2, <2>3 DEF Request, Result, TypeOK
  <2>5. ServerInv'
    <3>1. Configured'
      BY <2>1, <2>3 DEF Running, Configured, Scheme, TypeOK
    <3> QED BY <2>1, <2>3, <2>4, <3>1 DEF Running, PanicsOnOverflowOnly, CleanExit
  <2> QED BY <2>1, <2>2, <2>5 DEF Next
<1>3. CASE EncoderFor(g)
  <2>1. /\ main # "exited" /\ UNCHANGED <<main, cfg, code, conn, reads>>
        /\ Load(g) \/ New(g) \/ LoadOrStore(g)
    BY <1>3 DEF EncoderFor, process
  <2>2. pc[g] # "idle" /\ Running
    BY <2>1 DEF Load, New, LoadOrStore, Running
  <2>3. \A h \in Callers : h # g => pc'[h] = pc[h]
    BY <2>1 DEF Load, New, LoadOrStore, Hand, TypeOK
  <2>4. \E f \in {"begun", "coded", "answered", "panicked"} : fate' = [fate EXCEPT ![g] = f]
    BY <1>3 DEF EncoderFor, Result, Refused
  <2>5. ServerTypeOK' /\ Lifetime' /\ CleanExit'
    BY <2>1, <2>2, <2>4 DEF Running, CleanExit
  <2>6. want' = want
    BY <2>1 DEF Load, New, LoadOrStore
  <2>7. Configured'
    BY <2>1, <2>2, <2>3, <2>6 DEF Running, Configured, Scheme
  <2>8. ASSUME fate'[g] = "panicked" PROVE cfg.k + cfg.m > MaxInt
    <3>1. pc[g] = "new" /\ pc'[g] = "idle"
      BY <1>3, <2>8 DEF EncoderFor, Result
    <3>2. New(g) /\ ~NewOK(want[g][1], want[g][2])
      BY <2>1, <3>1 DEF Load, New, LoadOrStore, TypeOK
    <3>3. want[g] = <<cfg.k, cfg.m>> /\ Validate(cfg.k, cfg.m)
      BY <2>2 DEF Configured, Scheme
    <3>4. cfg.k \in Int /\ cfg.m \in Int
      BY <2>2, CacheAssumption DEF Configured, Scheme
    <3> QED BY <3>2, <3>3, <3>4, WidthAssumption DEF NewOK, Validate, Plus
  <2>9. PanicsOnOverflowOnly'
    BY <2>1, <2>4, <2>8 DEF PanicsOnOverflowOnly
  <2> QED BY <2>1, <2>5, <2>7, <2>9 DEF Next
<1> QED BY <1>1, <1>2, <1>3

\* Every step of the server keeps the invariant, and is a step of the encoder
\* cache or none.
LEMMA ServerNextInv ==
  ServerInv /\ Inv /\ [ServerNext]_serverVars => ServerInv' /\ [Next]_vars
<1> SUFFICES ASSUME ServerInv, Inv, [ServerNext]_serverVars PROVE ServerInv' /\ [Next]_vars
  OBVIOUS
<1>1. CASE UNCHANGED serverVars
  BY <1>1 DEF serverVars, vars, process, requests, ServerInv, ServerTypeOK, Lifetime, Running,
       Configured, Scheme, PanicsOnOverflowOnly, CleanExit
<1>2. TypeOK
  BY DEF Inv
<1> QED BY <1>1, <1>2, MainInv, HandlerInv DEF ServerNext

\* The invariant of the server and that of the cache, together.
LEMMA ServerSafe == ServerSpec => [](ServerInv /\ Inv)
<1>1. ServerInit => ServerInv /\ Inv
  BY ServerInitInv, InitInv
<1>2. ServerInv /\ Inv /\ [ServerNext]_serverVars => (ServerInv /\ Inv)'
  BY ServerNextInv, NextInv
<1> QED BY <1>1, <1>2, PTL DEF ServerSpec

\* Parse and ObjectStore.encoder: no mixture of defaults, environment and flags
\* that Parse accepts makes a handler panic on its scheme, unless its two shard
\* counts overflow when they are added, whatever the width of an int.
THEOREM AcceptedConfigPanicsOnOverflowOnly == ServerSpec => []PanicsOnOverflowOnly
  BY ServerSafe, PTL DEF ServerInv

\* runServer: exit code 0 means that no request was cut off, whenever the
\* signal, the listener's failure and the requests come.
THEOREM CleanExitLosesNothing == ServerSpec => []CleanExit
  BY ServerSafe, PTL DEF ServerInv

\* The server implements EncoderCache: its handlers, which the process may
\* kill anywhere, call EncoderFor as that specification says.
THEOREM ServerUsesCache == ServerSpec => Spec
<1>1. ServerInit => Init
  BY ServerInitInv
<1>2. ServerInv /\ Inv /\ [ServerNext]_serverVars => [Next]_vars
  BY ServerNextInv
<1> QED BY <1>1, <1>2, ServerSafe, PTL DEF ServerSpec, Spec

\* EncoderFor in the server: all handlers of a process share one encoder.
THEOREM ServerHasOneEncoder == ServerSpec => []OneEncoder
  BY ServerUsesCache, EncoderForIsUnique, PTL
=============================================================================
