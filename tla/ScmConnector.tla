---------------------------- MODULE ScmConnector ----------------------------
(***************************************************************************)
(* The source-control connectors (integrations/scm): the shared retry      *)
(* decorator with its provider classifiers, the retried request and its    *)
(* terminal statuses, paged repository listing, webhook registration and   *)
(* verification, the branch and commit reads, the clone with its           *)
(* credential scrub, and the conformance suite that drives the six         *)
(* operations of one connector.                                            *)
(*                                                                         *)
(* The provider is external: it answers every request as it likes, and a   *)
(* request it answers with a 5xx may or may not have taken effect.         *)
(***************************************************************************)
EXTENDS Integers, Sequences, FiniteSets, SequencesExt

CONSTANTS
    Callers,        \* the tasks that use the connector
    Repos,          \* repositories of one organisation, all with one target URL
    Providers,      \* the connectors a behaviour may be about
    Policies,       \* the retry policies in use: [attempts, deadline, jitter]
    PageSize,       \* hooks or repositories on one page of an answer
    Listing,        \* the repository objects the organisation lists
    Menus,          \* the sets of operations the callers of a behaviour use
    MaxCalls,       \* calls made in a behaviour
    MaxHooks        \* hooks the provider ever holds

ScmAssumption ==
    /\ Providers \subseteq {"github", "gitlab", "bitbucket", "azure-devops"}
    /\ PageSize \in Nat \ {0} /\ MaxCalls \in Nat /\ MaxHooks \in Nat

VARIABLES
    provider,       \* which connector this is
    policy,         \* its RetryPolicy
    runner,         \* whether a git runner was injected explicitly
    hooks,          \* the provider's webhook subscriptions, oldest first
    dirs,           \* per caller, the state of its clone directory
    calls,          \* per caller, the call it is in and the result of its last
    menu,           \* the operations in use
    suite,          \* the conformance suite: next operation, passed, failed
    made            \* calls begun so far

vars == <<provider, policy, runner, hooks, dirs, calls, menu, suite, made>>

None == -1          \* an absent number: no header, no deadline, no hook found
Larger(a, b) == IF a < b THEN b ELSE a
Smaller(a, b) == IF a < b THEN a ELSE b

-----------------------------------------------------------------------------
(* What a response says.  after, reset and delay are the three wait headers *)
(* (seconds; None when absent or unreadable, possibly in the past), spent   *)
(* is X-RateLimit-Remaining = 0, abuse the provider's secondary marker.     *)

Reply(status) == [status |-> status, after |-> None, reset |-> None,
                  delay |-> None, spent |-> FALSE, abuse |-> FALSE]

(* _header and _parse_retry_after / _reset_wait: a wait is never negative   *)
ParseRetryAfter(r) == IF r.after = None THEN None ELSE Larger(0, r.after)
ResetWait(r) == IF r.reset = None THEN None ELSE Larger(0, r.reset)

Free == [limited |-> FALSE, wait |-> None, secondary |-> FALSE]
Limited(wait, secondary) ==
    [limited |-> TRUE, wait |-> wait, secondary |-> secondary]

ClassifyGitHub(r) ==
    IF r.status \notin {403, 429} THEN Free
    ELSE IF r.abuse THEN Limited(ParseRetryAfter(r), TRUE)
    ELSE IF r.spent THEN Limited(ResetWait(r), FALSE)
    ELSE Free

ClassifyGitLab(r) ==
    IF r.status = 429 THEN Limited(ParseRetryAfter(r), FALSE) ELSE Free

ClassifyBitbucket(r) ==
    IF r.status = 429 THEN Limited(ParseRetryAfter(r), r.abuse) ELSE Free

ClassifyAzureDevOps(r) ==
    IF r.status # 429 THEN Free
    ELSE LET delay == IF r.delay = None THEN None ELSE Larger(0, r.delay)
         IN  Limited(Larger(ParseRetryAfter(r), delay), FALSE)

Classify(r) ==
    CASE provider = "github" -> ClassifyGitHub(r)
      [] provider = "gitlab" -> ClassifyGitLab(r)
      [] provider = "bitbucket" -> ClassifyBitbucket(r)
      [] OTHER -> ClassifyAzureDevOps(r)

(* the four default policies differ in honor_secondary only                *)
HonorSecondary == provider \in {"github", "bitbucket"}
Honoured(verdict) == verdict.limited /\ (verdict.secondary => HonorSecondary)

-----------------------------------------------------------------------------
(* The retry curve: initial_backoff_s = 1, backoff_factor = 2.             *)

CurveBase(i) == Smaller(2^i, policy.backoff)

(* _apply_jitter: the ends of the interval the random draw ranges over     *)
ApplyJitter(base) ==
    CASE policy.jitter = "none" -> {base}
      [] policy.jitter = "full" -> {0, base}
      [] OTHER -> {base \div 2, base}

(* _next_sleep: a wait the provider names overrides the curve              *)
NextSleep(i, wait) ==
    IF wait # None THEN {Larger(0, wait)} ELSE ApplyJitter(CurveBase(i))

-----------------------------------------------------------------------------
(* A call: pc "idle" (between calls), "http" (in a request), "git" (in a   *)
(* git command).  attempt and slept are the retry loop's locals, owed and  *)
(* nap the last wait the provider named and the sleep that followed it.    *)

Idle == [pc |-> "idle", op |-> "none", repo |-> "none", step |-> "none",
         page |-> 1, attempt |-> 0, slept |-> 0, owed |-> None, nap |-> 0,
         asOf |-> 0, url |-> "none", got |-> <<>>, result |-> "none", value |-> None]

Done(call, result, value) ==
    [Idle EXCEPT !.op = call.op, !.repo = call.repo, !.got = call.got,
                 !.result = result, !.value = value]
Raise(call, error) == Done(call, error, None)

(* the next request of the same operation starts a retry loop of its own   *)
Request(call, step, page) ==
    [call EXCEPT !.step = step, !.page = page, !.attempt = 0, !.slept = 0,
                 !.owed = None, !.nap = 0]

(* with_retry after a failed attempt: the calls it may leave.  wait is     *)
(* None after a transient failure.                                         *)
Retried(call, limited, wait) ==
    IF call.attempt + 1 >= policy.attempts
    THEN {Raise(call, IF limited THEN "SCMRateLimitError" ELSE "SCMTransientError")}
    ELSE { IF policy.deadline # None /\ call.slept + nap >= policy.deadline
           THEN Raise(call, "SCMRateLimitError")
           ELSE [call EXCEPT !.attempt = @ + 1, !.slept = @ + nap,
                             !.owed = wait, !.nap = nap]
           : nap \in NextSleep(call.attempt, wait) }

(* _raise_for_terminal_status                                              *)
TerminalError(status) ==
    CASE status = 404 -> "SCMNotFoundError"
      [] status \in {401, 403} -> "SCMAuthError"
      [] status >= 400 -> "SCMTransientError"
      [] OTHER -> "none"

-----------------------------------------------------------------------------
(* list_repos: what one answered page leaves.  The provider serves PageSize *)
(* objects a page and names the next page while one remains.               *)

Page(s, n) == SubSeq(s, (n - 1) * PageSize + 1, Smaller(n * PageSize, Len(s)))
NextPage(s, n) == IF n * PageSize < Len(s) THEN n + 1 ELSE None

IsMapping(obj) == obj.mapping

Listed(call, objects, next) ==
    LET so_far == [call EXCEPT !.got = @ \o SelectSeq(objects, IsMapping)]
    IN  IF next = None THEN Done(so_far, "ok", Len(so_far.got))
        ELSE Request(so_far, "list", next)

ListGitHub_SamePage(call) == Listed(call, Page(Listing, call.page),
    IF NextPage(Listing, call.page) = None THEN None ELSE call.page)
ListGitHub(call) == Listed(call, Page(Listing, call.page), NextPage(Listing, call.page))
ListGitLab(call) == Listed(call, Page(Listing, call.page), NextPage(Listing, call.page))
ListBitbucket(call) == Listed(call, Page(Listing, call.page), NextPage(Listing, call.page))
ListAzureDevOps(call) == Listed(call, Listing, None)    \* one value array, no cursor

ListRepos(call) ==
    CASE provider = "github" -> ListGitHub(call)
      [] provider = "gitlab" -> ListGitLab(call)
      [] provider = "bitbucket" -> ListBitbucket(call)
      [] OTHER -> ListAzureDevOps(call)

-----------------------------------------------------------------------------
(* register_webhook: look for a hook with the target, else create one.     *)
(* seen is the sequence of the hooks' ids the lookup reads.                *)

ToTarget(id) == hooks[id].target = "scan"
HooksOf(repo) == LET Of(id) == hooks[id].repo = repo
                 IN  SelectSeq([id \in 1..Len(hooks) |-> id], Of)

Looked(call, seen, next) ==
    LET found == SelectSeq(seen, ToTarget)
    IN  IF found # <<>> THEN Done(call, "ok", found[1])
        ELSE IF next # None THEN Request(call, "find", next)
        ELSE Request(call, "create", 1)

FindGitHub_FirstPage(call) == Looked(call, Page(HooksOf(call.repo), 1), None)
FindGitHub(call) ==
    Looked(call, Page(HooksOf(call.repo), call.page), NextPage(HooksOf(call.repo), call.page))
FindGitLab(call) == Looked(call, Page(HooksOf(call.repo), 1), None)
FindBitbucket(call) == Looked(call, Page(HooksOf(call.repo), 1), None)
FindAzureDevOps(call) ==    \* the organisation's subscriptions, by target alone
    Looked(call, [id \in 1..Len(hooks) |-> id], None)

FindExisting(call) ==
    CASE provider = "github" -> FindGitHub(call)
      [] provider = "gitlab" -> FindGitLab(call)
      [] provider = "bitbucket" -> FindBitbucket(call)
      [] OTHER -> FindAzureDevOps(call)

(* the provider's effect of the POST                                       *)
Subscribed(call) ==
    Append(hooks, [repo |-> call.repo, target |-> "scan", asOf |-> call.asOf])

-----------------------------------------------------------------------------
(* get_default_branch and resolve_commit: the field, or SCMNotFoundError   *)
ReadField(call) == {Done(call, "ok", 1), Raise(call, "SCMNotFoundError")}

(* a call after a response no error was raised for                         *)
Answered(call) ==
    CASE call.step = "list" -> {ListRepos(call)}
      [] call.step = "find" -> {FindExisting(call)}
      [] call.step = "create" -> {Done(call, "ok", Len(hooks) + 1)}
      [] OTHER -> ReadField(call)

(* _request: 5xx is raised inside the retried call, a rate limit the       *)
(* policy honours is retried, every other status is mapped after it.       *)
After(call, r) ==
    IF r.status = 0 THEN {Raise(call, "transport")}
    ELSE IF r.status >= 500 THEN Retried(call, FALSE, None)
    ELSE IF Honoured(Classify(r)) THEN Retried(call, TRUE, Classify(r).wait)
    ELSE IF TerminalError(r.status) # "none" THEN {Raise(call, TerminalError(r.status))}
    ELSE Answered(call)

(* the answers a provider gives, status 0 a transport that raises          *)
Replies ==
    {Reply(s) : s \in {0, 200, 400, 401, 403, 404, 429, 503}}
    \cup {[Reply(403) EXCEPT !.spent = TRUE, !.reset = 2],
          [Reply(403) EXCEPT !.abuse = TRUE, !.after = 3],
          [Reply(429) EXCEPT !.abuse = TRUE],
          [Reply(429) EXCEPT !.after = -5, !.delay = 3]}

-----------------------------------------------------------------------------
(* verify_webhook and the sign_webhook test hooks.  A header carries a      *)
(* scheme prefix and either a MAC of (secret, body) or the secret itself;  *)
(* names are compared without case, so a header is its name.               *)

Header(name, scheme, secret, body) ==
    [name |-> name, scheme |-> scheme, secret |-> secret, body |-> body]

VerifyGitHub(h, body, secret) ==
    /\ h.name = "X-Hub-Signature-256" /\ h.scheme = "sha256="
    /\ h.secret = secret /\ h.body = body
VerifyGitLab(h, body, secret) == h.name = "X-Gitlab-Token" /\ h.secret = secret
VerifyBitbucket(h, body, secret) ==
    /\ h.name = "X-Hub-Signature" /\ h.scheme = "sha256="
    /\ h.secret = secret /\ h.body = body
VerifyAzureDevOps(h, body, secret) ==
    h.name = "Authorization" /\ h.scheme = "Basic" /\ h.secret = secret

VerifyWebhook(h, body, secret) ==
    CASE provider = "github" -> VerifyGitHub(h, body, secret)
      [] provider = "gitlab" -> VerifyGitLab(h, body, secret)
      [] provider = "bitbucket" -> VerifyBitbucket(h, body, secret)
      [] OTHER -> VerifyAzureDevOps(h, body, secret)

SignWebhook(body, secret) ==
    CASE provider = "github" -> Header("X-Hub-Signature-256", "sha256=", secret, body)
      [] provider = "gitlab" -> Header("X-Gitlab-Token", "none", secret, "none")
      [] provider = "bitbucket" -> Header("X-Hub-Signature", "sha256=", secret, body)
      [] OTHER -> Header("Authorization", "Basic", secret, "none")

-----------------------------------------------------------------------------
(* A caller's step: one answered request, with its effect at the provider. *)

NoDir == [origin |-> "none", head |-> None]

Untroubled(good) == suite' = [suite EXCEPT !.clean = @ /\ good]

Attempt(c) ==
    /\ calls[c].pc = "http"
    /\ \E r \in Replies, lost \in BOOLEAN :
        LET call == calls[c]
            creates == call.step = "create" /\ (r.status = 200 \/ lost)
        IN  /\ lost => call.step = "create" /\ r.status \in {0, 503}
            /\ creates => Len(hooks) < MaxHooks
            /\ hooks' = IF creates THEN Subscribed(call) ELSE hooks
            /\ \E next \in After(call, r) :
                /\ calls' = [calls EXCEPT ![c] = next]
                /\ Untroubled(r.status = 200 /\ next.result \in {"none", "ok"})
    /\ UNCHANGED <<provider, policy, runner, menu, dirs, made>>

(* clone: one git command.  The command may fail; remote add fails when    *)
(* origin is there already.  A failing rev-list only loses the parents.    *)
GitSteps == <<"init", "add", "fetch", "checkout", "remove", "rev-parse", "rev-list">>

GitEffect(dir, step, url) ==
    CASE step = "add" -> [dir EXCEPT !.origin = url]
      [] step = "checkout" -> [dir EXCEPT !.head = 1]
      [] step = "remove" -> [dir EXCEPT !.origin = "none"]
      [] OTHER -> dir

Git(c) ==
    /\ calls[c].pc = "git"
    /\ LET call == calls[c]
           step == GitSteps[call.page]
       IN  \E ok \in BOOLEAN :
            /\ ok /\ step = "add" => dirs[c].origin = "none"
            /\ dirs' = [dirs EXCEPT ![c] = IF ok THEN GitEffect(@, step, call.url) ELSE @]
            /\ calls' = [calls EXCEPT ![c] =
                 IF step = "rev-list" THEN Done(call, "ok", dirs[c].head)
                 ELSE IF ok THEN [call EXCEPT !.page = @ + 1]
                 ELSE Raise(call, "SCMTransientError")]
            /\ Untroubled(ok)
    /\ UNCHANGED <<provider, policy, runner, menu, hooks, made>>

(* the first request of an operation, or the clone's refusal of a          *)
(* connector whose git runner is the default                               *)
Begun(c, op, repo, url) ==
    LET call == [Idle EXCEPT !.op = op, !.repo = repo, !.url = url, !.asOf = Len(hooks)]
    IN  CASE op = "clone" -> IF runner THEN [call EXCEPT !.pc = "git"]
                             ELSE Raise(call, "refused")
          [] op = "register" -> [Request(call, "find", 1) EXCEPT !.pc = "http"]
          [] OTHER -> [Request(call, op, 1) EXCEPT !.pc = "http"]

Urls(op) == IF op = "clone" THEN {"authed", "plain"} ELSE {"none"}
Ops == {"list", "clone", "register", "branch", "resolve"}

Begin(c, op, repo, url) ==
    /\ ~suite.on /\ calls[c].pc = "idle" /\ made < MaxCalls /\ op \in menu
    /\ calls' = [calls EXCEPT ![c] = Begun(c, op, repo, url)]
    /\ made' = made + 1
    /\ UNCHANGED <<provider, policy, runner, menu, hooks, dirs, suite>>

-----------------------------------------------------------------------------
(* run_conformance_suite: the seven operations in order, each recorded as   *)
(* passed or failed whatever became of the ones before it.                 *)

SuiteOps == <<"list", "clone", "register", "positive", "negative", "branch", "resolve">>
SuiteOp == SuiteOps[suite.next]
Record(op, good) ==
    [suite EXCEPT !.next = @ + 1, !.waiting = FALSE,
                  !.passed = IF good THEN @ \cup {op} ELSE @,
                  !.failed = IF good THEN @ ELSE @ \cup {op}]

Genuine == SignWebhook("body", "secret")
ForgedHeaders == SignWebhook("body", "wrong")

SuiteCall(c, repo) ==
    /\ suite.on /\ ~suite.waiting /\ suite.next <= 7
    /\ SuiteOp \in Ops
    /\ \E url \in Urls(SuiteOp) : calls' = [calls EXCEPT ![c] = Begun(c, SuiteOp, repo, url)]
    /\ suite' = [suite EXCEPT !.waiting = TRUE, !.clean = @ /\ (SuiteOp = "clone" => runner)]
    /\ UNCHANGED <<provider, policy, runner, menu, hooks, dirs, made>>

SuiteReturn(c) ==
    /\ suite.waiting /\ calls[c].pc = "idle" /\ calls[c].op = SuiteOp
    /\ suite' = Record(SuiteOp, calls[c].result = "ok")
    /\ dirs' = IF SuiteOp = "clone" THEN [dirs EXCEPT ![c] = NoDir] ELSE dirs
    /\ UNCHANGED <<provider, policy, runner, menu, hooks, calls, made>>

SuiteVerify ==
    /\ suite.on /\ ~suite.waiting /\ suite.next <= 7
    /\ \/ /\ SuiteOp = "positive"
          /\ suite' = Record("positive", VerifyWebhook(Genuine, "body", "secret"))
       \/ /\ SuiteOp = "negative"
          /\ suite' = Record("negative", ~VerifyWebhook(ForgedHeaders, "body", "secret"))
    /\ UNCHANGED <<provider, policy, runner, menu, hooks, dirs, calls, made>>

-----------------------------------------------------------------------------
(* Before the calls a repository may hold a hook to another target, or the *)
(* scan's hook behind one (only registrations read the hooks, only clones  *)
(* the runner).                                                            *)
OldHooks ==
    LET old(r, target) == [repo |-> r, target |-> target, asOf |-> 0]
    IN  {<<>>} \cup UNION {{<<old(r, "other")>>, <<old(r, "other"), old(r, "scan")>>} : r \in Repos}

Init ==
    /\ provider \in Providers
    /\ policy \in Policies
    /\ menu \in Menus
    /\ runner \in (IF "clone" \in menu THEN BOOLEAN ELSE {TRUE})
    /\ hooks \in (IF "register" \in menu THEN OldHooks ELSE {<<>>})
    /\ dirs = [c \in Callers |-> NoDir]
    /\ calls = [c \in Callers |-> Idle]
    /\ suite \in [on : {menu = Ops}, next : {1}, waiting : {FALSE}, passed : {{}},
                  failed : {{}}, clean : {TRUE}]
    /\ made = 0

Harness == CHOOSE c \in Callers : TRUE     \* the task that runs the suite
Fixture == CHOOSE r \in Repos : TRUE       \* its fixture_repo

Next ==
    \/ \E c \in Callers : Attempt(c) \/ Git(c)
    \/ \E c \in Callers, op \in Ops, repo \in Repos :
            \E url \in Urls(op) : Begin(c, op, repo, url)
    \/ SuiteCall(Harness, Fixture)
    \/ SuiteReturn(Harness)
    \/ SuiteVerify

Spec == Init /\ [][Next]_vars

-----------------------------------------------------------------------------
(* The retry loop stays inside its budget: never more attempts than         *)
(* max_attempts, never a total sleep that reaches total_deadline_s, and    *)
(* never a sleep shorter than the wait the provider named.                 *)
BudgetIsKept ==
    \A c \in Callers :
        /\ calls[c].attempt < policy.attempts
        /\ policy.deadline # None => calls[c].slept < policy.deadline
        /\ calls[c].nap >= calls[c].owed

(* A registration that returned names a hook that sends the registered      *)
(* repository's events to the target.                                      *)
RegistrationIsOfRepo ==
    \A c \in Callers :
        LET call == calls[c] IN
        call.op = "register" /\ call.result = "ok" =>
            /\ call.value \in 1..Len(hooks)
            /\ hooks[call.value].repo = call.repo /\ hooks[call.value].target = "scan"

(* A hook that was there before a registration began is never doubled by it *)
(* where the lookup reads every page: two hooks of one repository to one    *)
(* target come only from registrations, or a POST and its retry, that      *)
(* overlapped.  GitLab's and Bitbucket's lookups read one page, so there   *)
(* it holds of the first page.                                             *)
Rank(id) == Cardinality({k \in 1..id : hooks[k].repo = hooks[id].repo})
DuplicatesOverlap ==
    \A i, j \in 1..Len(hooks) :
        i < j /\ hooks[i].repo = hooks[j].repo /\ hooks[i].target = "scan"
              /\ hooks[j].target = "scan" =>
            \/ i > hooks[j].asOf
            \/ provider \in {"gitlab", "bitbucket"} /\ Rank(i) > PageSize

(* list_repos yields every repository object once and in order, however    *)
(* many of its pages were retried.                                         *)
ListingIsWhole ==
    \A c \in Callers : calls[c].op = "list" /\ calls[c].result = "ok" =>
        calls[c].got = SelectSeq(Listing, IsMapping)

(* A clone that returned left no remote, so no credential, in the           *)
(* directory, whatever an earlier attempt left there, and reports the      *)
(* commit it checked out; without an injected runner nothing is touched.   *)
CloneIsScrubbed ==
    /\ ~runner => \A c \in Callers : dirs[c] = NoDir
    /\ \A c \in Callers : calls[c].op = "clone" /\ calls[c].result = "ok" =>
            dirs[c].origin = "none" /\ calls[c].value = 1

(* The conformance report is exact: an operation is reported once, and a   *)
(* connector whose provider answered every request well and whose git      *)
(* commands succeeded is conformant under all four signature schemes.      *)
ReportIsExact ==
    suite.on =>
        /\ suite.passed \cap suite.failed = {}
        /\ suite.passed \cup suite.failed = {SuiteOps[i] : i \in 1..(suite.next - 1)}
        /\ suite.clean => suite.failed = {}

(* No step leaves a call where it was: an answered request raises, returns, *)
(* goes on to a later page or to the creation, or uses up an attempt, so a *)
(* call makes boundedly many requests however the provider answers.        *)
Before(a, b) ==
    \/ a.step = "find" /\ b.step = "create"
    \/ a.step = b.step /\ a.page < b.page
    \/ a.step = b.step /\ a.page = b.page /\ a.attempt < b.attempt
StepsProgress ==
    [][\A c \in Callers :
        calls[c].pc # "idle" /\ calls'[c].pc # "idle" /\ calls'[c] # calls[c] =>
            Before(calls[c], calls'[c])]_vars

=============================================================================
