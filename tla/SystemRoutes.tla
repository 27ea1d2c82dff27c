---------------------------- MODULE SystemRoutes ----------------------------
(***************************************************************************)
(* How a node with a TUN interface sets the interface up and adds a system  *)
(* route for every address it hears of, by running commands of the          *)
(* operating system.  A command succeeds, exits with an error, or cannot be *)
(* started at all.                                                          *)
(*                                                                          *)
(* "linux" and "mac" are the two platforms of the Rust node, "dotnet" is    *)
(* the .NET node.  The Rust node runs each command on a helper thread       *)
(* (fn_thread_future); on Linux the helper unwraps the start of the         *)
(* command, and a helper that panicked never wakes the task that waits for  *)
(* it (ThreadPanics of module Executor).                                    *)
(***************************************************************************)
EXTENDS Naturals, Sequences

CONSTANTS
  Platforms,    \* the platforms looked at
  Own,          \* addresses of the node itself
  Others,       \* addresses of the other nodes
  NoAddr,
  QueueCap,     \* 1024, capacity of routeRequests of the .NET node
  MaxRequests   \* bound on the unbounded channel of the Rust node

Addrs == Own \cup Others
Outcomes == {"ok", "fails", "cannot start"}

ASSUME PlatformAssumption == Platforms \subseteq {"linux", "mac", "dotnet"}
ASSUME AddrAssumption == Own \cap Others = {} /\ NoAddr \notin Addrs
ASSUME BoundAssumption == QueueCap \in Nat \ {0} /\ MaxRequests \in Nat \ {0}

VARIABLES
  platform,
  node,      \* "setup", "serving", "hung", "exited"
  todo,      \* set-up commands still to run
  done,      \* set-up commands that succeeded
  requests,  \* addresses the main loop wants a route for
  added,     \* already_added / added
  current,   \* address whose command is running
  hung,      \* the task that adds routes waits for ever
  routes,    \* the routes the operating system has
  failed     \* history: addresses with a command that did not succeed

setupVars == <<platform, node, todo, done>>
vars == <<platform, node, todo, done, requests, added, current, hung, routes, failed>>

-----------------------------------------------------------------------------
(* Setting the interface up.  macOS only gets the IPv6 address from Rust.   *)

Steps == {"up", "ip6", "ip4"}

SetUpCommands(p) == IF p = "mac" THEN <<"ip6">> ELSE <<"up", "ip6", "ip4">>

Init ==
  /\ platform \in Platforms
  /\ node = "setup" /\ todo = SetUpCommands(platform) /\ done = {}
  /\ requests = <<>> /\ added = {} /\ current = NoAddr /\ hung = FALSE
  /\ routes = {} /\ failed = {}

(* What becomes of the node.  The exit status does not matter to the Rust   *)
(* node.  On Linux, a command that cannot be started panics: on the helper  *)
(* thread, which leaves the main task waiting, or, for an IPv4 address, on  *)
(* the executor's own thread.  The .NET node gives up on any error.         *)
AfterLinuxSetUp(c, outcome) ==
  CASE outcome # "cannot start" -> "setup"
    [] outcome = "cannot start" /\ c = "ip4" -> "exited"
    [] OTHER -> "hung"

AfterMacSetUp(c, outcome) == "setup"

AfterDotnetSetUpIgnored(c, outcome) == "setup"

AfterDotnetSetUp(c, outcome) == IF outcome = "ok" THEN "setup" ELSE "exited"

AfterSetUp(c, outcome) ==
  CASE platform = "linux"  -> AfterLinuxSetUp(c, outcome)
    [] platform = "mac"    -> AfterMacSetUp(c, outcome)
    [] platform = "dotnet" -> AfterDotnetSetUp(c, outcome)

SetUpCommand(outcome) ==
  /\ node = "setup" /\ todo # <<>>
  /\ todo' = Tail(todo)
  /\ done' = IF outcome = "ok" THEN done \cup {Head(todo)} ELSE done
  /\ node' = AfterSetUp(Head(todo), outcome)
  /\ UNCHANGED <<platform, requests, added, current, hung, routes, failed>>

(* Everything is set up: the main loop starts to handle packets.            *)
StartServing ==
  /\ node = "setup" /\ todo = <<>>
  /\ node' = "serving"
  /\ UNCHANGED <<platform, todo, done, requests, added, current, hung, routes, failed>>

-----------------------------------------------------------------------------
(* Adding routes                                                            *)

(* The main loop handles an announcement of an address.  Rust asks for a    *)
(* route whatever the address, on a channel without limit.  The .NET node   *)
(* leaves its own addresses out, and a full queue drops the request.        *)
WantsRoute(a) == platform = "dotnet" => a \notin Own

HasRoom == Len(requests) < IF platform = "dotnet" THEN QueueCap ELSE MaxRequests

RequestRoute(a) ==
  /\ node = "serving"
  /\ platform = "dotnet" \/ HasRoom
  /\ requests' = IF WantsRoute(a) /\ HasRoom THEN Append(requests, a) ELSE requests
  /\ UNCHANGED <<setupVars, added, current, hung, routes, failed>>

(* Rust marks the address before it runs the command.                       *)
EveryoneMarksFirst == TRUE

MarksFirst == platform \in {"linux", "mac"}

(* (Mutation: what has been added is not looked at.)                        *)
NeverAdded(a) == FALSE

AlreadyAdded(a) == a \in added

(* The task takes the next request, and runs a command if the address is    *)
(* new to it.                                                               *)
TakeRequest ==
  /\ current = NoAddr /\ requests # <<>>
  /\ requests' = Tail(requests)
  /\ IF AlreadyAdded(Head(requests))
     THEN UNCHANGED <<added, current>>
     ELSE /\ current' = Head(requests)
          /\ added' = IF MarksFirst THEN added \cup {Head(requests)} ELSE added
  /\ UNCHANGED <<setupVars, hung, routes, failed>>

(* The command ends.  The Linux helper that cannot start it panics.  The    *)
(* .NET node marks the address only now, and only if the command succeeded. *)
HelperPanics(outcome) == platform = "linux" /\ outcome = "cannot start"

MarkedAfterwards(outcome) ==
  IF platform = "dotnet" /\ outcome = "ok" THEN added \cup {current} ELSE added

CommandEnds(outcome) ==
  /\ current # NoAddr /\ ~ hung
  /\ routes' = IF outcome = "ok" THEN routes \cup {current} ELSE routes
  /\ failed' = IF outcome = "ok" THEN failed ELSE failed \cup {current}
  /\ added' = MarkedAfterwards(outcome)
  /\ hung' = HelperPanics(outcome)
  /\ current' = IF HelperPanics(outcome) THEN current ELSE NoAddr
  /\ UNCHANGED <<setupVars, requests>>

-----------------------------------------------------------------------------
SetUp == StartServing \/ \E o \in Outcomes : SetUpCommand(o)

Next ==
  \/ SetUp
  \/ \E a \in Addrs : RequestRoute(a)
  \/ TakeRequest
  \/ \E o \in Outcomes : CommandEnds(o)

Spec == Init /\ [][Next]_vars

(* Commands end, the task runs, and every node announces itself again and   *)
(* again, after random delays: now and then there is room in the queue.  A  *)
(* command that is tried again and again succeeds at some time.             *)
Fairness ==
  /\ WF_vars(SetUp) /\ WF_vars(TakeRequest)
  /\ WF_vars(\E o \in Outcomes : CommandEnds(o))
  /\ \A a \in Others :
       /\ SF_vars(HasRoom /\ RequestRoute(a))
       /\ SF_vars(current = a /\ CommandEnds("ok"))

FairSpec == Spec /\ Fairness
-----------------------------------------------------------------------------
TypeOK ==
  /\ platform \in Platforms
  /\ node \in {"setup", "serving", "hung", "exited"}
  /\ todo \in Seq(Steps) /\ done \subseteq Steps
  /\ requests \in Seq(Addrs)
  /\ Len(requests) <= IF platform = "dotnet" THEN QueueCap ELSE MaxRequests
  /\ added \subseteq Addrs /\ current \in Addrs \cup {NoAddr}
  /\ hung \in BOOLEAN /\ routes \subseteq Addrs /\ failed \subseteq Addrs

(* No command is run for an address that has its route, and the Rust node   *)
(* never runs a second one for an address (route_creator, AddRoutesAsync).  *)
CommandsNotRepeated ==
  [][ current' \notin {current, NoAddr} =>
        /\ current' \notin routes
        /\ platform # "dotnet" => current' \notin failed ]_vars

(* The set-up ends.  The .NET node then serves with everything set up, or   *)
(* it has exited; the Rust node serves, with whatever could be set up,      *)
(* unless a command could not be started on Linux.                          *)
SetUpEnds ==
  (node = "setup") ~>
    \/ /\ node = "serving"
       /\ platform = "dotnet" => done = Steps
    \/ node = "exited" /\ platform # "mac"
    \/ node = "hung" /\ platform = "linux"

(* Every address that is announced gets its route, however often the        *)
(* command fails and the queue is full, from the .NET node; from the Rust   *)
(* node unless its only command failed or the task hangs.                   *)
AnnouncedIsRouted ==
  \A a \in Others : (node = "serving") ~>
    \/ a \in routes
    \/ platform # "dotnet" /\ (a \in failed \/ hung)
=============================================================================
