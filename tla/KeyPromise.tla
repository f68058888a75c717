----------------------------- MODULE KeyPromise -----------------------------
(***************************************************************************)
(* What an idempotency key promises, without the quota, the caps, the rows *)
(* of the jobs and their ends.  A key is bound to the first job answered   *)
(* under it.  A request that comes while its key is bound makes no job: it *)
(* repeats the answer, if it asks for the same, or it is refused.  Of the  *)
(* requests that came before, each may make a job of its own, and one of   *)
(* them binds the key.  Intake implements it.                              *)
(***************************************************************************)
CONSTANTS Jobs, Keys, Contents, Requests, None

VARIABLES
    made,    \* jobs made
    bound,   \* bound[k]: the job of k and the contents it was made for, or None
    open     \* open[r]: what r asks for, and what is due to it

promise == <<made, bound, open>>

Nobody == [due |-> "nothing"]

Request(due, k, c, j, late) ==
    [due |-> due, key |-> k, contents |-> c, job |-> j, late |-> late]

Init ==
    /\ made = {}
    /\ bound = [k \in Keys |-> None]
    /\ open = [r \in Requests |-> Nobody]

Come(r, k, c) ==
    /\ open[r] = Nobody
    /\ open' = [open EXCEPT ![r] =
         Request("decision", k, c, None, k \in {b \in Keys : bound[b] # None})]
    /\ UNCHANGED <<made, bound>>

Refuse(r) ==
    /\ open[r].due = "decision"
    /\ open' = [open EXCEPT ![r] = Nobody]
    /\ UNCHANGED <<made, bound>>

\* Without a key, the answer leaves nothing behind.
Make(r, j) ==
    /\ open[r].due = "decision" /\ ~ open[r].late
    /\ j \notin made
    /\ made' = made \cup {j}
    /\ open' = [open EXCEPT ![r] =
         IF @.key = None THEN Nobody ELSE Request("binding", @.key, @.contents, j, @.late)]
    /\ UNCHANGED bound

Repeat(r) ==
    /\ open[r].due = "decision" /\ open[r].key \in Keys
    /\ LET known == bound[open[r].key]
       IN  /\ known # None /\ known.contents = open[r].contents
           /\ open' = [open EXCEPT ![r] =
                Request("answer", @.key, @.contents, known.job, @.late)]
    /\ UNCHANGED <<made, bound>>

\* The first answer binds the key, a later one finds it bound.
Bind(r) ==
    /\ open[r].due = "binding"
    /\ bound' = [bound EXCEPT ![open[r].key] =
         IF @ = None THEN [contents |-> open[r].contents, job |-> open[r].job] ELSE @]
    /\ open' = [open EXCEPT ![r] = Nobody]
    /\ UNCHANGED made

Answer(r) ==
    /\ open[r].due = "answer"
    /\ open' = [open EXCEPT ![r] = Nobody]
    /\ UNCHANGED <<made, bound>>

\* The window of k is over: nobody is late for it any more.
Forget(k) ==
    /\ bound[k] # None
    /\ bound' = [bound EXCEPT ![k] = None]
    /\ open' = [r \in Requests |->
                  IF open[r].due # "nothing" /\ open[r].key = k
                  THEN [open[r] EXCEPT !.late = FALSE] ELSE open[r]]
    /\ UNCHANGED made

\* Every request is lost; what was made and bound is not.
Restart ==
    /\ open' = [r \in Requests |-> Nobody]
    /\ UNCHANGED <<made, bound>>

\* Each step of a request changes what is open.
RequestMoves ==
    /\ open' # open
    /\ \E r \in Requests :
         \/ \E k \in Keys \cup {None}, c \in Contents : Come(r, k, c)
         \/ \E j \in Jobs : Make(r, j)
         \/ Refuse(r) \/ Repeat(r) \/ Bind(r) \/ Answer(r)

Next == RequestMoves \/ (\E k \in Keys : Forget(k)) \/ Restart

Spec == Init /\ [][Next]_promise

=============================================================================
