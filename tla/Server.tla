------------------------------- MODULE Server -------------------------------
(***************************************************************************)
(* cmd/shardstore: the life of a server process.  The main goroutine       *)
(* parses the configuration, starts the listener in a goroutine of its own *)
(* and waits for that to fail or for a signal, on which it shuts the HTTP  *)
(* server down with a deadline.  Handlers run meanwhile, each of which     *)
(* calls ec.EncoderFor with the configured scheme (EncoderCache); a client *)
(* that stops sending its body holds a handler up for ever, since only     *)
(* reading the headers has a timeout.  A handler of GET or HEAD goes       *)
(* through ObjectStore.encoder, which panics on an error.                  *)
(***************************************************************************)
EXTENDS EncoderCache, Config

CONSTANTS Envs, Flags    \* settings in the environment, on the command line

VARIABLES main,       \* "start", "select", "shutdown" or "exited"
          cfg,        \* the configuration, None before it is parsed
          code,       \* exit code
          listener,   \* "none", "open" or "closed"
          errCh,      \* what ListenAndServe has returned, or None
          signalled,  \* SIGINT or SIGTERM has been received
          conn,       \* a client's connection: "none", "idle" or "active"
          reads,      \* its request is a GET or HEAD
          fate        \* its request: "none", "begun", "coded", "answered",
                      \* "panicked", or "killed" with the process

\* EncoderCache has a slot for every scheme these settings can add up to.
ASSUME ServerAssumption ==
  \A env \in Envs, flags \in Flags :
    ParseOK(env, flags) =>
      <<Settings(env, flags).k, Settings(env, flags).m>> \in Schemes

process   == <<main, cfg, code, listener, errCh, signalled>>
requests  == <<conn, reads, fate>>
serverVars == <<vars, process, requests>>

ServerInit ==
  /\ Init /\ \A g \in Callers : want[g] = CHOOSE s \in Schemes : TRUE
  /\ main = "start" /\ cfg = None /\ code = None
  /\ listener = "none" /\ errCh = None /\ signalled = FALSE
  /\ conn = [g \in Callers |-> "none"] /\ reads = [g \in Callers |-> FALSE]
  /\ fate = [g \in Callers |-> "none"]

-----------------------------------------------------------------------------
(* The main goroutine.                                                     *)

\* os.Exit, or the return of main: handlers in progress end with it.
Exit(c) ==
  /\ main' = "exited" /\ code' = c
  /\ listener' = IF listener = "none" THEN "none" ELSE "closed"
  /\ fate' = [g \in Callers |-> IF conn[g] = "active" THEN "killed" ELSE fate[g]]
  /\ conn' = [g \in Callers |-> "none"]

\* run with a subcommand other than server.
RunOther(command) ==
  /\ main = "start"
  /\ Exit(IF command \in {"none", "version", "help"} THEN 0 ELSE 1)
  /\ UNCHANGED <<vars, cfg, errCh, signalled, reads>>

\* runServer up to the select.  Parse, MkdirAll or NewFileStore may fail.
RunServer(env, flags) ==
  /\ main = "start"
  /\ \/ Exit(1) /\ UNCHANGED <<cfg, reads>>
     \/ /\ ParseOK(env, flags)
        /\ cfg' = Settings(env, flags)
        /\ main' = "select" /\ listener' = "open"
        /\ UNCHANGED <<code, requests>>
  /\ UNCHANGED <<vars, errCh, signalled>>

Signal ==
  /\ main \in {"select", "shutdown"} /\ ~signalled
  /\ signalled' = TRUE
  /\ UNCHANGED <<vars, main, cfg, code, listener, errCh, requests>>

\* ListenAndServe cannot bind, or Accept fails for good.
ListenerFails ==
  /\ main = "select" /\ listener = "open"
  /\ listener' = "closed" /\ errCh' = "ErrListen"
  /\ UNCHANGED <<vars, main, cfg, code, signalled, requests>>

\* select: case err := <-errCh.  ErrServerClosed cannot arrive here.
SelectError ==
  /\ main = "select" /\ errCh # None
  /\ Exit(1)
  /\ UNCHANGED <<vars, cfg, errCh, signalled, reads>>

\* select: case <-ctx.Done().  Shutdown closes the listener first, and
\* ListenAndServe returns ErrServerClosed.
SelectSignal ==
  /\ main = "select" /\ signalled
  /\ main' = "shutdown" /\ listener' = "closed"
  /\ errCh' = IF errCh = None THEN "ErrServerClosed" ELSE errCh
  /\ UNCHANGED <<vars, cfg, code, signalled, requests>>

\* Mutant: srv.Close instead of srv.Shutdown.
CloseDone ==
  /\ main = "shutdown"
  /\ Exit(0)
  /\ UNCHANGED <<vars, cfg, errCh, signalled, reads>>

\* Shutdown returns once no connection is active; idle ones are closed.
ShutdownDone ==
  /\ main = "shutdown"
  /\ \A g \in Callers : conn[g] # "active"
  /\ Exit(0)
  /\ UNCHANGED <<vars, cfg, errCh, signalled, reads>>

\* Mutant: Shutdown is given a context without a deadline.
NoDeadline == FALSE /\ UNCHANGED serverVars

\* The 10 seconds are over and a connection is still active.
ShutdownTimeout ==
  /\ main = "shutdown"
  /\ \E g \in Callers : conn[g] = "active"
  /\ Exit(1)
  /\ UNCHANGED <<vars, cfg, errCh, signalled, reads>>

-----------------------------------------------------------------------------
(* Connections and handlers.                                               *)

Accept(g) ==
  /\ listener = "open" /\ conn[g] = "none"
  /\ conn' = [conn EXCEPT ![g] = "idle"]
  /\ UNCHANGED <<vars, process, reads, fate>>

Result(g, f) == fate' = [fate EXCEPT ![g] = f]

\* encoder() panics; PutObject returns the error.  net/http recovers the panic
\* and closes the connection.
Refused(g) == IF reads[g] THEN "panicked" ELSE "answered"

\* A request has arrived on an open connection and calls EncoderFor.
Request(g, isRead) ==
  /\ main # "exited" /\ conn[g] = "idle"
  /\ Call(g, <<cfg.k, cfg.m>>)
  /\ reads' = [reads EXCEPT ![g] = isRead]
  /\ conn' = [conn EXCEPT ![g] = "active"]
  /\ Result(g, IF pc'[g] # "idle" THEN "begun" ELSE IF isRead THEN "panicked" ELSE "answered")
  /\ UNCHANGED process

\* The rest of EncoderFor.
EncoderFor(g) ==
  /\ main # "exited"
  /\ Load(g) \/ New(g) \/ LoadOrStore(g)
  /\ Result(g, IF pc'[g] # "idle" THEN "begun"
               ELSE IF pc[g] = "new" THEN Refused(g) ELSE "coded")
  /\ UNCHANGED <<process, conn, reads>>

\* The handler goes on to answer; nothing forces it to.
Respond(g) ==
  /\ main # "exited" /\ conn[g] = "active" /\ fate[g] = "coded"
  /\ Result(g, "answered")
  /\ UNCHANGED <<vars, process, conn, reads>>

\* The connection is kept, or closed after a panic or by the client.
Done(g, state) ==
  /\ conn[g] = "active" /\ fate[g] \in {"answered", "panicked"}
  /\ state = "none" \/ fate[g] = "answered"
  /\ conn' = [conn EXCEPT ![g] = state]
  /\ UNCHANGED <<vars, process, reads, fate>>

MainStep ==
  \/ SelectError \/ SelectSignal \/ ShutdownDone \/ ShutdownTimeout

ServerNext ==
  \/ \E command \in {"none", "version", "help", "other"} : RunOther(command)
  \/ \E env \in Envs, flags \in Flags : RunServer(env, flags)
  \/ Signal \/ ListenerFails \/ MainStep
  \/ \E g \in Callers :
       \/ Accept(g) \/ EncoderFor(g) \/ Respond(g)
       \/ \E b \in BOOLEAN : Request(g, b)
       \/ \E s \in {"none", "idle"} : Done(g, s)

\* The main goroutine is scheduled and the shutdown timer fires.  Nothing is
\* assumed of handlers, which wait for their clients.
ServerSpec == ServerInit /\ [][ServerNext]_serverVars /\ WF_serverVars(MainStep)

-----------------------------------------------------------------------------
(* Properties.                                                             *)

\* Parse and ObjectStore.encoder: of the configurations that Parse accepts,
\* from any mixture of defaults, environment and flags, only those whose shard
\* counts overflow when they are added make a handler panic on its scheme.
PanicsOnOverflowOnly ==
  \A g \in Callers : fate[g] = "panicked" => cfg.k + cfg.m > MaxInt

\* runServer: the process reports success after a signal only when every
\* request it had begun to handle was finished, also one that arrived on an
\* open connection while the shutdown was under way.
CleanExit ==
  main = "exited" /\ code = 0 => \A g \in Callers : fate[g] # "killed"

\* runServer: after SIGINT or SIGTERM the process ends, also when handlers
\* hang or the listener fails at the same time.
ExitsAfterSignal == signalled ~> main = "exited"
=============================================================================
