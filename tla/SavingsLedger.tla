--------------------------- MODULE SavingsLedger ---------------------------
(***************************************************************************)
(* The metrics of parcus.obs: the savings event of a request, the running  *)
(* totals of the in-process sink, the query of the SQLite sink over the    *)
(* rows it has kept, and the usage a provider reports.  Ratios and their   *)
(* rounding are left out: they are computed from these counts on display.  *)
(***************************************************************************)
EXTENDS Integers, SequencesExt

CONSTANTS
    NoTenant,   \* the tenant of an event without one
    NoUsage     \* upstream_usage=None

Usages == [input : Nat, output : Nat, read : Nat, write : Nat]

ASSUME UsageAssumption == NoUsage \notin Usages

(***************************************************************************)
(* The usage object of a response: its shape says under which key it is    *)
(* and how its fields are named.  A field that is missing, or not a        *)
(* number, is read as 0, and so is a negative one.                         *)
(***************************************************************************)

\* Mutant: one key for all.
ShapeOfAll(dialect) == "usage"

Shape(dialect) == IF dialect = "gemini" THEN "usageMetadata" ELSE "usage"

Clamped(n) == IF n > 0 THEN n ELSE 0

\* parse_usage: only Anthropic counts cache writes.
Usage(dialect, answer) ==
    IF dialect \notin {"anthropic", "openai", "gemini"} \/ answer.shape # Shape(dialect)
    THEN NoUsage
    ELSE [input |-> Clamped(answer.input), output |-> Clamped(answer.output),
          read |-> Clamped(answer.read),
          write |-> IF dialect = "anthropic" THEN Clamped(answer.write) ELSE 0]

-----------------------------------------------------------------------------

\* A stage that was not verified has no verdict: "none", not "bad".
Stage(name, before, after, ok) ==
    [stage |-> name, before |-> before, after |-> after, ok |-> ok]

\* Stages that lead from one size to another, each from what the last one left.
Account(stages, before, after) ==
    IF stages = << >> THEN after = before
    ELSE /\ stages[1].before = before /\ stages[Len(stages)].after = after
         /\ \A i \in 2..Len(stages) : stages[i].before = stages[i - 1].after

Event(tenant, cache, status, before, after, stages, usage) ==
    [tenant |-> tenant, cache |-> cache, status |-> status,
     before |-> before, after |-> after, stages |-> stages, usage |-> usage]

-----------------------------------------------------------------------------
(* AggregateSink: totals kept up to date.                                  *)

Nothing == [k \in {} |-> 0]

NoTotals ==
    [requests |-> 0, hits |-> 0, before |-> 0, after |-> 0,
     stages |-> Nothing, tenants |-> Nothing]

\* acc = f.setdefault(k, zero); acc += more, field by field.
Raised(f, k, more) ==
    [j \in DOMAIN f \union {k} |->
        IF j # k THEN f[j]
        ELSE IF k \in DOMAIN f THEN [c \in DOMAIN more |-> f[k][c] + more[c]]
        ELSE more]

OfStage(s) ==
    [before |-> s.before, after |-> s.after,
     checked |-> IF s.ok = "none" THEN 0 ELSE 1, ok |-> IF s.ok = "good" THEN 1 ELSE 0]

OfTenant(e) == [requests |-> 1, before |-> e.before, after |-> e.after]

RaisedByAll(f, stages) ==
    LET after[n \in 0..Len(stages)] ==
            IF n = 0 THEN f
            ELSE Raised(after[n - 1], stages[n].stage, OfStage(stages[n]))
    IN  after[Len(stages)]

\* Mutant: a near-duplicate counts as a hit.
FoldedAnyHit(totals, e) ==
    [requests |-> totals.requests + 1,
     hits |-> totals.hits + (IF e.cache \in {"hit", "similar"} THEN 1 ELSE 0),
     before |-> totals.before + e.before,
     after |-> totals.after + e.after,
     stages |-> RaisedByAll(totals.stages, e.stages),
     tenants |-> IF e.tenant = NoTenant THEN totals.tenants
                 ELSE Raised(totals.tenants, e.tenant, OfTenant(e))]

Folded(totals, e) ==
    [requests |-> totals.requests + 1,
     hits |-> totals.hits + (IF e.cache = "hit" THEN 1 ELSE 0),
     before |-> totals.before + e.before,
     after |-> totals.after + e.after,
     stages |-> RaisedByAll(totals.stages, e.stages),
     tenants |-> IF e.tenant = NoTenant THEN totals.tenants
                 ELSE Raised(totals.tenants, e.tenant, OfTenant(e))]

-----------------------------------------------------------------------------
(* SqliteMetricsSink: totals asked of the rows.                            *)

\* SUM(column), of a column as the sequence of its values.
Total(column) ==
    LET upTo[n \in 0..Len(column)] == IF n = 0 THEN 0 ELSE upTo[n - 1] + column[n]
    IN  upTo[Len(column)]

\* SUM and COUNT over a group of rows.
SumOver(column, group) == Total([i \in DOMAIN column |-> IF i \in group THEN column[i] ELSE 0])
Count(group) == Cardinality(group)

\* The table stage_events: one row per stage of a row of events.
StageRows(rows) == FlattenSeq([i \in DOMAIN rows |-> rows[i].stages])

StageGroup(stages, name) ==
    LET group == {i \in DOMAIN stages : stages[i].stage = name}
    IN  [before |-> SumOver([i \in DOMAIN stages |-> stages[i].before], group),
         after |-> SumOver([i \in DOMAIN stages |-> stages[i].after], group),
         checked |-> Count({i \in group : stages[i].ok # "none"}),
         ok |-> Count({i \in group : stages[i].ok = "good"})]

\* GROUP BY stage.
StageGroups(stages) ==
    [name \in {stages[i].stage : i \in DOMAIN stages} |-> StageGroup(stages, name)]

TenantGroup(rows, t) ==
    LET group == {i \in DOMAIN rows : rows[i].tenant = t}
    IN  [requests |-> Count(group),
         before |-> SumOver([i \in DOMAIN rows |-> rows[i].before], group),
         after |-> SumOver([i \in DOMAIN rows |-> rows[i].after], group)]

\* GROUP BY tenant, of the rows with a tenant.
TenantGroups(rows) ==
    [t \in {rows[i].tenant : i \in DOMAIN rows} \ {NoTenant} |-> TenantGroup(rows, t)]

Snapshot(rows) ==
    [requests |-> Len(rows),
     hits |-> Count({i \in DOMAIN rows : rows[i].cache = "hit"}),
     before |-> Total([i \in DOMAIN rows |-> rows[i].before]),
     after |-> Total([i \in DOMAIN rows |-> rows[i].after]),
     stages |-> StageGroups(StageRows(rows)),
     tenants |-> TenantGroups(rows)]
=============================================================================
