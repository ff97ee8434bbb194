------------------------------- MODULE Config -------------------------------
(***************************************************************************)
(* internal/config: the node's configuration from built-in defaults, the   *)
(* environment and the command line, in this order.  A setting is Unset,   *)
(* Bad (text that does not parse, or a number that is no int) or a value.  *)
(***************************************************************************)
EXTENDS ECParams

CONSTANTS Unset, Bad

\* os.Hostname, the data directory and the log level stand for themselves;
\* the listen address and the log format decide nothing here.
Default == [node |-> "host", dir |-> "data", level |-> "info",
            k |-> 4, m |-> 2, stripe |-> 8388608]

Fields == DOMAIN Default
Unchanged == [f \in Fields |-> Unset]
Levels == {"debug", "info", "warn", "error"}

\* parseLevel
IsLevel(s) == s \in Levels

\* applyEnv: a variable that is empty (Unset) or does not parse is passed over.
ApplyEnv(cfg, env) ==
  [f \in Fields |->
     IF env[f] \in {Unset, Bad} \/ (f = "level" /\ ~IsLevel(env[f]))
     THEN cfg[f] ELSE env[f]]

\* fs.Parse: a flag that does not parse is an error, an empty one is not.
ParseFlags(cfg, flags) ==
  [f \in Fields |-> IF flags[f] = Unset THEN cfg[f] ELSE flags[f]]

\* Mutant: a scheme without parity is let through.
ValidateNoParity(c) ==
  /\ c.node # "" /\ c.dir # ""
  /\ c.k >= 1 /\ c.m >= 0 /\ ~(Plus(c.k, c.m) > 256)
  /\ c.stripe > 0

\* Config.validate
ValidConfig(c) ==
  /\ c.node # "" /\ c.dir # ""
  /\ c.k >= 1 /\ c.m >= 1 /\ ~(Plus(c.k, c.m) > 256)
  /\ c.stripe > 0

\* Parse: whether it succeeds, and the configuration it then returns.
Settings(env, flags) == ParseFlags(ApplyEnv(Default, env), flags)
ParseOK(env, flags) ==
  /\ \A f \in Fields : flags[f] # Bad
  /\ IsLevel(Settings(env, flags).level)
  /\ ValidConfig(Settings(env, flags))
=============================================================================
