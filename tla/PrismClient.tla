---------------------------- MODULE PrismClient -----------------------------
(***************************************************************************)
(* The Prism Central client (src/internal/nutanix), one call after the     *)
(* other: a request is sent and retried (doRequest), a task is polled to   *)
(* its end (PollTask), the inventory is listed in pages (ListVMs), and     *)
(* changed regions are asked for page by page with a token that ages.      *)
(* What Prism does with a request is not what the client learns of it: an  *)
(* answer may be lost, and a task runs on when nobody polls it any more.   *)
(***************************************************************************)
EXTENDS Integers, Sequences

CONSTANTS
  maxRetries,      \* retries of a request after its first attempt
  pageSize,        \* entities in a page of a listing
  VMs,             \* the inventory to begin with, a sequence
  TokenMaxAge,     \* age above which a CBT token is replaced
  TokenExpiry,     \* age above which Prism Element refuses it
  MaxAge,          \* bound: ages are counted up to here
  MaxPages,        \* bound: pages of changed regions
  MaxCalls,        \* bound: calls
  MaxChurn         \* bound: changes of the inventory

ASSUME ClientAssumption ==
  /\ {maxRetries, MaxPages, MaxCalls, MaxChurn} \subseteq Nat
  /\ pageSize \in Nat \ {0}
  /\ {TokenMaxAge, TokenExpiry, MaxAge} \subseteq Nat
  /\ TokenMaxAge < TokenExpiry /\ TokenExpiry < MaxAge
ASSUME InventoryAssumption == VMs \in Seq(Nat)

VARIABLES
  call,            \* the call under way, or the last one
  calls,           \* number of calls so far
  stopping,        \* the context is cancelled: the operator is shutting down
  tasks,           \* Prism: the tasks it has accepted, in order
  vms,             \* Prism: the inventory, in the order of its pages
  churn,           \* changes of the inventory so far
  listed,          \* the VMs a listing has collected
  token,           \* ages of the CBT tokens, and the pages read with them
  asked            \* age of the token the last page was asked for with

prismVars == <<call, calls, stopping, tasks, vms, churn, listed, token, asked>>
prismWorld == <<tasks, vms, churn>>

None == -1
Ops == {"Create", "Delete", "Power", "List", "Regions"}

NewCall(op, target) ==
  [op |-> op, target |-> target, at |-> "Send", attempt |-> 0,
   body |-> IF op \in {"Delete", "List"} THEN "None" ELSE "Whole",
   task |-> 0, offset |-> 0, late |-> FALSE, touched |-> FALSE, result |-> "None"]

NoToken == [held |-> None, cached |-> None, pages |-> 0, renewed |-> FALSE]

PrismInit ==
  /\ call = [NewCall("List", 0) EXCEPT !.at = "Idle"]
  /\ calls = 0 /\ stopping = FALSE
  /\ tasks = << >> /\ churn = 0
  /\ vms = VMs
  /\ listed = << >> /\ token = NoToken /\ asked = None

-----------------------------------------------------------------------------
(* A created object is known by the task that made it. *)
Done(op) == {t \in DOMAIN tasks : tasks[t].op = op /\ tasks[t].status = "SUCCEEDED"}
Objects == Done("Create") \ {tasks[t].target : t \in Done("Delete")}

Return(r) == call' = [call EXCEPT !.at = "Idle", !.result = r]
GoTo(at) == call' = [call EXCEPT !.at = at, !.attempt = 0]

\* The answer is an error worth another attempt, or there is none.
RetryWith(body) ==
  IF call.attempt < maxRetries
  THEN call' = [call EXCEPT !.attempt = @ + 1, !.body = body]
  ELSE Return("Error")

\* Every attempt of a call takes its body from one reader, which an attempt
\* that was sent has read to the end.
Spent == IF call.body = "None" THEN "None" ELSE "Spent"
rewound == call.body
AfterSending == Spent

\* A request that fails: it is not sent, or refused with 429 or 5xx, or lost
\* on its way (retried); or it is refused for good, or its answer is of no use.
RequestFails ==
  /\ call.at \in {"Send", "Get", "Renew"}
  /\ \/ RetryWith(call.body)
     \/ ~stopping /\ (RetryWith(AfterSending) \/ Return("Error"))
  /\ UNCHANGED <<calls, stopping, prismWorld, listed, token, asked>>

-----------------------------------------------------------------------------
(* The calls that start a task.  Prism can use the request if it has the   *)
(* body it needs and its target exists; it does not look for an earlier    *)
(* one like it.                                                            *)

\* CreateRecoveryPoint, CreateImageFromDisk, CloneVMFromRecoveryPoint
CreateObject == call.op = "Create" /\ call.body = "Whole"

\* DeleteImage, DeleteRecoveryPoint, DeleteVM
DeleteObject == call.op = "Delete" /\ call.target \in Objects

\* PowerOffVM, PowerOnVM, whose body says nothing
PowerVM == call.op = "Power"

SendMutation ==
  /\ call.at = "Send" /\ ~stopping
  /\ CreateObject \/ DeleteObject \/ PowerVM
  /\ tasks' = Append(tasks, [op |-> call.op, target |-> call.target,
                             status |-> "RUNNING", call |-> calls])
  /\ \/ call' = [call EXCEPT !.at = "Poll", !.attempt = 0, !.task = Len(tasks) + 1]
     \/ RetryWith(AfterSending)
     \/ Return("Error")
  /\ UNCHANGED <<calls, stopping, vms, churn, listed, token, asked>>

\* PollTask asks again until the task has ended, the time is over or the
\* context is cancelled; the time is looked at before a request only.
neverTooLate == call.at = "Poll" /\ GoTo("Get")
PollDeadline == call.at = "Poll" /\ IF call.late THEN Return("Error") ELSE GoTo("Get")

acceptedIsDone(status) == Return(IF status = "FAILED" THEN "Error" ELSE "OK")
PollAnswer(status) ==
  \/ status = "RUNNING" /\ GoTo("Wait")
  \/ status = "FAILED" /\ Return("Error")
  \/ status = "SUCCEEDED" /\ (Return("OK") \/ (call.op = "Create" /\ Return("Error")))

PollTask ==
  /\ \/ PollDeadline
     \/ call.at = "Get" /\ ~stopping /\ PollAnswer(tasks[call.task].status)
     \/ call.at = "Wait" /\ IF stopping THEN Return("Error") \/ GoTo("Poll") ELSE GoTo("Poll")
  /\ UNCHANGED <<calls, stopping, prismWorld, listed, token, asked>>

-----------------------------------------------------------------------------
(* ListVMs, ListClusters and ListSubnets: a page after the other, until as *)
(* many are collected as Prism says there are.                             *)
Page(n) == SubSeq(vms, n + 1, IF n + pageSize < Len(vms) THEN n + pageSize ELSE Len(vms))

firstPageAgain == call.offset
NextOffset == call.offset + pageSize

ListVMs ==
  /\ call.at = "Send" /\ call.op = "List" /\ ~stopping
  /\ listed' = listed \o Page(call.offset)
  /\ IF Len(listed') >= Len(vms)
     THEN Return("OK")
     ELSE call' = [call EXCEPT !.attempt = 0, !.offset = NextOffset]
  /\ UNCHANGED <<calls, stopping, prismWorld, token, asked>>

-----------------------------------------------------------------------------
(* DiscoverClusterForCBT gets a token and caches its age; the caller keeps *)
(* the first one and passes it with every page.  GetChangedRegions looks   *)
(* at the age of the cached one, and renews it when that is too old.       *)
DiscoverClusterForCBT ==
  /\ call.op = "Regions" /\ call.at \in {"Send", "Renew"}
  /\ ~stopping /\ call.body = "Whole"
  /\ \/ /\ token' = [token EXCEPT !.cached = 0, !.held = IF call.at = "Send" THEN 0 ELSE @]
        /\ call' = [call EXCEPT !.at = IF @ = "Send" THEN "Page" ELSE "Renewed", !.attempt = 0]
     \/ RetryWith(AfterSending) /\ UNCHANGED token
  /\ UNCHANGED <<calls, stopping, prismWorld, listed, asked>>

neverTooOld == FALSE
TooOld == token.cached > TokenMaxAge

\* A page, asked for once, with a token of this age.
AskPage(age) ==
  /\ asked' = age
  /\ token' = [token EXCEPT !.pages = @ + 1, !.renewed = @ \/ call.at = "Renewed"]
  /\ \/ /\ ~stopping /\ age <= TokenExpiry
        /\ Return("OK") \/ (token.pages + 1 < MaxPages /\ GoTo("Page"))
     \/ Return("Error")
  /\ UNCHANGED <<calls, stopping, prismWorld, listed>>

GetChangedRegions ==
  \/ /\ call.at = "Page" /\ TooOld
     /\ call' = [call EXCEPT !.at = "Renew", !.attempt = 0, !.body = "Whole"]
     /\ UNCHANGED <<calls, stopping, prismWorld, listed, token, asked>>
  \/ call.at = "Page" /\ ~TooOld /\ AskPage(token.held)
  \/ call.at = "Renewed" /\ AskPage(token.cached)

-----------------------------------------------------------------------------
(* The controllers, Prism and time. *)
CallPrism ==
  /\ call.at = "Idle" /\ calls < MaxCalls /\ ~stopping
  /\ \E op \in Ops, target \in 0..Len(tasks) :
       /\ IF op = "Delete" THEN target \in Done("Create") ELSE target = 0
       /\ call' = NewCall(op, target)
  /\ calls' = calls + 1 /\ listed' = << >> /\ token' = NoToken /\ asked' = None
  /\ UNCHANGED <<stopping, prismWorld>>

Client == RequestFails \/ SendMutation \/ PollTask \/ ListVMs
            \/ DiscoverClusterForCBT \/ GetChangedRegions

ContextEnds ==
  /\ ~stopping /\ stopping' = TRUE
  /\ UNCHANGED <<call, calls, prismWorld, listed, token, asked>>

\* The time PollTask gives a task is over.
PollTimeout ==
  /\ call.at \in {"Poll", "Get", "Wait"} /\ ~call.late
  /\ call' = [call EXCEPT !.late = TRUE]
  /\ UNCHANGED <<calls, stopping, prismWorld, listed, token, asked>>

\* Time passes between pages; one of the model stands for many of the code,
\* which come within half a minute each.
Older(age) == IF age \in 0..(MaxAge - 1) THEN age + 1 ELSE age
TokensAge ==
  /\ call.at \in {"Page", "Renew"}
  /\ token' = [token EXCEPT !.held = Older(@), !.cached = Older(@)]
  /\ token' # token
  /\ UNCHANGED <<call, calls, stopping, prismWorld, listed, asked>>

TaskEnds ==
  /\ \E t \in DOMAIN tasks, s \in {"SUCCEEDED", "FAILED"} :
       /\ tasks[t].status = "RUNNING"
       /\ tasks' = [tasks EXCEPT ![t].status = s]
  /\ UNCHANGED <<call, calls, stopping, vms, churn, listed, token, asked>>

\* The inventory changes while it is being listed.
InventoryChanges ==
  /\ call.op = "List" /\ call.at # "Idle"
  /\ churn < MaxChurn /\ churn' = churn + 1
  /\ \/ \E i \in DOMAIN vms : vms' = SubSeq(vms, 1, i - 1) \o SubSeq(vms, i + 1, Len(vms))
     \/ vms' = Append(vms, Len(VMs) + churn + 1)
  /\ call' = [call EXCEPT !.touched = TRUE]
  /\ UNCHANGED <<calls, stopping, tasks, listed, token, asked>>

PrismNext == Client \/ CallPrism \/ ContextEnds \/ PollTimeout \/ TokensAge
               \/ TaskEnds \/ InventoryChanges

PrismSpec == PrismInit /\ [][PrismNext]_prismVars

\* The client's own steps are a running goroutine, and time passes.
PrismFairSpec == PrismSpec /\ WF_prismVars(Client) /\ WF_prismVars(PollTimeout)

-----------------------------------------------------------------------------
\* However often doRequest retries it, and whatever answers are lost, one call
\* to CreateRecoveryPoint, CreateImageFromDisk or CloneVMFromRecoveryPoint
\* makes at most one object.
OneObjectPerCall ==
  \A s, t \in DOMAIN tasks :
    tasks[s].op = "Create" /\ tasks[t].op = "Create" /\ tasks[s].call = tasks[t].call
      => s = t

\* When a call that starts a task returns without error, what it asked for has
\* happened: the object it created was made by it, the one it deleted is gone.
OKIsDone ==
  call.result = "OK" =>
    /\ call.op = "Create" => call.task \in Done("Create") /\ tasks[call.task].call = calls
    /\ call.op = "Delete" => call.target \notin Objects
    /\ call.op = "Power" => call.task \in Done("Power")

\* A listing during which the inventory stayed the same has every VM once, in
\* the inventory's order, over as many pages as it takes.
ListIsExact ==
  call.op = "List" /\ call.result = "OK" /\ ~call.touched => listed = vms

\* Until a token has been renewed in the middle of a query, no page is asked
\* for with an expired one; nor is the page that the renewal was made for.
LiveUntilRenewed == asked > TokenExpiry => token.renewed /\ token.pages > 1

\* No page of changed regions is asked for with an expired token.
QueriesWithLiveToken == asked <= TokenExpiry

\* Every call returns: retries end, PollTask gives up on a task that does not
\* end, and a listing catches up with an inventory that changes under it.
EveryCallReturns == call.at # "Idle" ~> call.at = "Idle"
=============================================================================
