------------------------------ MODULE RefGrant ------------------------------
(***************************************************************************)
(* What the daemon promises a client that acts by short refs.  A snapshot  *)
(* of a context shows a page and opens it; as long as the page is open its *)
(* names may be acted on.  One successful act closes it, any tool may      *)
(* close it, and nothing but a snapshot opens a page.  A request that      *)
(* meets a closed page may ask for a new one of that context, once; it     *)
(* changes the device at most once, and its answer tells whether it did.   *)
(* On which screen the change shows is not promised: a context that cannot *)
(* be entered does not stop a request.                                     *)
(*                                                                         *)
(* RefLifecycle implements it with a driver and a copy of its context that *)
(* drift apart, stale flags per context, artifacts and latest pointers.    *)
(***************************************************************************)
EXTENDS Naturals

CONSTANTS
  Contexts,   \* the contexts a snapshot can be taken of
  Native,     \* the context a daemon starts in
  Refs        \* short ref names

VARIABLES
  ui,    \* the device: effects each context's screen has seen
  page,  \* the page the short refs belong to, and the screen it was taken of
  open,  \* the names of the page may be acted on
  job    \* the ref-based request being handled

grantVars == <<ui, page, open, job>>

NoJob == [phase |-> "idle"]
NoPage == [context |-> Native, names |-> {}, seen |-> 0]

GrantInit ==
  /\ ui = [c \in Contexts |-> 0]
  /\ page = NoPage
  /\ open = TRUE
  /\ job = NoJob

Changed(c) == ui' = [ui EXCEPT ![c] = @ + 1]

\* A snapshot: the names of one page replace those of the page before.
Show(c, names) ==
  /\ page' = [context |-> c, names |-> names, seen |-> ui[c]]
  /\ open' = TRUE

Snapshot(c, names) ==
  /\ Show(c, names)
  /\ UNCHANGED <<ui, job>>

\* A tool without a ref: it may close the page, it never opens it.
Tool(c) ==
  /\ Changed(c)
  /\ open' => open
  /\ UNCHANGED <<page, job>>

-----------------------------------------------------------------------------
(* A request: a short name of the page, or a ref that names its snapshot. *)

Ask(name, short, acting) ==
  /\ job' = [phase |-> "attempt", name |-> name, short |-> short,
             acting |-> acting, ctx |-> Native]
  /\ UNCHANGED <<ui, page, open>>

\* A short name reaches context c only through an open page of c that has it.
Reaches(c) ==
  job.short => open /\ c = page.context /\ job.name \in page.names

Reply(status, effects) ==
  job' = [phase |-> "answered", status |-> status, acting |-> job.acting,
          effects |-> effects]

\* The act succeeds, wherever it lands, and closes the page it came through.
Act(c, d) ==
  /\ job.acting
  /\ Reaches(c)
  /\ Changed(d)
  /\ open' = (open /\ c # page.context)
  /\ Reply("ok", 1)
  /\ UNCHANGED page

\* The device was changed by a tool that fails, or that does not act.
Touch(c, d) ==
  /\ Reaches(c)
  /\ Changed(d)
  /\ \/ Reply("failed", 1)
     \/ ~job.acting /\ Reply("ok", 1)
  /\ UNCHANGED <<page, open>>

Look(c) ==
  /\ ~job.acting
  /\ Reaches(c)
  /\ Reply("ok", 0)
  /\ UNCHANGED <<ui, page, open>>

\* The answer of a request that did nothing; "missing" is for a second try.
GiveUp ==
  /\ \/ Reply("failed", 0)
     \/ job.phase = "retry" /\ Reply("ref_missing", 0)
  /\ UNCHANGED <<ui, page, open>>

\* The page is closed to the first try, and only to the first.
Refuse(c) ==
  /\ job.phase = "attempt"
  /\ job.short => ~open /\ c = page.context /\ job.name \in page.names
  /\ job' = [phase |-> "refresh", name |-> job.name, short |-> job.short,
             acting |-> job.acting, ctx |-> c]
  /\ UNCHANGED <<ui, page, open>>

Renew(names) ==
  /\ job.phase = "refresh"
  /\ Show(job.ctx, names)
  /\ job' = [job EXCEPT !.phase = "retry"]
  /\ UNCHANGED ui

RenewFails(names) ==
  /\ job.phase = "refresh"
  /\ Show(job.ctx, names) \/ UNCHANGED <<page, open>>
  /\ Reply("failed", 0)
  /\ UNCHANGED ui

Deliver ==
  /\ job.phase = "answered"
  /\ job' = NoJob
  /\ UNCHANGED <<ui, page, open>>

\* The daemon is replaced by another one: no page, no request.
Restart ==
  /\ page' = NoPage
  /\ open' = TRUE
  /\ job' = NoJob
  /\ UNCHANGED ui

\* No request is being handled.
Between ==
  /\ job = NoJob
  /\ \/ \E c \in Contexts, names \in SUBSET Refs : Snapshot(c, names)
     \/ \E c \in Contexts : Tool(c)
     \/ \E name \in Refs, short \in BOOLEAN, acting \in BOOLEAN :
          Ask(name, short, acting)

\* The first or the second try of a request.
Try ==
  /\ job.phase \in {"attempt", "retry"}
  /\ \/ GiveUp
     \/ \E c \in Contexts : Look(c) \/ Refuse(c)
     \/ \E c, d \in Contexts : Act(c, d) \/ Touch(c, d)

GrantNext ==
  \/ Between
  \/ Try
  \/ \E names \in SUBSET Refs : Renew(names) \/ RenewFails(names)
  \/ Deliver \/ Restart

GrantSpec == GrantInit /\ [][GrantNext]_grantVars
=============================================================================
