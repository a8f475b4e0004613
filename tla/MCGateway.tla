------------------------------ MODULE MCGateway ------------------------------
(***************************************************************************)
(* The server's side in one model: Gateway, RateLimit, Startup, Migrations *)
(* and SignIn.                                                             *)
(* They share no state; a behaviour is one of a part, with the others      *)
(* where they start.                                                       *)
(*                                                                         *)
(* The sign-ins have two groups, one that had an OpenAI API key and one    *)
(* that had none, and may be for the same group.                           *)
(***************************************************************************)
EXTENDS Gateway, RateLimit, Startup, Migrations, SignIn, TLC

CONSTANTS g1, g2

MCKeys == (g1 :> {"openai"}) @@ (g2 :> {None})

VARIABLE part   \* the part that moves

InGateway(A) == part = "gateway" /\ A /\ UNCHANGED <<part, bucket, boot, schema, signin>>
InRateLimit(A) == part = "rate limit" /\ A /\ UNCHANGED <<part, vars, boot, schema, signin>>
InStartup(A) == part = "startup" /\ A /\ UNCHANGED <<part, vars, bucket, schema, signin>>
InMigrations(A) == part = "migrations" /\ A /\ UNCHANGED <<part, vars, bucket, boot, signin>>
InSignIn(A) == part = "sign-in" /\ A /\ UNCHANGED <<part, vars, bucket, boot, schema>>

MCInit ==
  /\ Init /\ RateInit /\ BootInit /\ MigrateInit /\ SignInInit
  /\ part \in {"gateway", "rate limit", "startup", "migrations", "sign-in"}
  /\ part # "migrations" => legacy = NoTable
MCNext ==
  \/ InGateway(Next) \/ InRateLimit(RateNext) \/ InStartup(BootNext)
  \/ InMigrations(MigrateNext) \/ InSignIn(SignInNext)

MCSpec ==
  /\ MCInit /\ [][MCNext]_<<part, vars, bucket, boot, schema, signin>>
  /\ WF_vars(InGateway(Shutdown))
  /\ \A s \in Streams : WF_vars(InGateway(Step(s)))
  /\ WF_boot(InStartup(Up \/ Down \/ (cancelled /\ ServerReturns)))
  /\ WF_boot(InStartup(MonitorOrchestrator)) /\ WF_boot(InStartup(MonitorProxy))
  /\ \A f \in Flows : WF_signin(InSignIn(Handler(f)))

=============================================================================
