--------------------------- MODULE MCReadFunctions ---------------------------
(* Domains for checking ReadFunctions. *)
EXTENDS ReadFunctions, TLC

\* 64 * 1.1 ^ t for the ticks -10 .. 10.
TickPrices == <<25, 27, 30, 33, 36, 40, 44, 48, 53, 58, 64, 70, 77, 85, 94, 103, 113, 125, 137, 151, 166>>
MCSqrtTable == [t \in -10..10 |-> TickPrices[t + 11]]

MCGenerations == 0..12 \union 97..102 \union 997..1002

MCRows == {[open |-> 2, close |-> 3, high |-> 3, low |-> 1, volume |-> 1],
           [open |-> 4, close |-> 1, high |-> 5, low |-> 1, volume |-> 2],
           [open |-> 0, close |-> 0, high |-> 0, low |-> 0, volume |-> 0]}

MCSwapRows == [isBuy : BOOLEAN, eth : {1, 3}, tokens : 0..2]

MCAccounts == {"a", "b", "c"}
MCTransfers == {[from |-> Zero, to |-> "a", value |-> 4]}
                 \union [from : {"a", "b"}, to : MCAccounts, value : {1, 3}]

MCTemplates == {[first |-> 5, decay |-> 1, spacing |-> 2, width |-> 2, core |-> 3, extension |-> 3],
                [first |-> 6, decay |-> 4, spacing |-> 3, width |-> 1, core |-> 2, extension |-> 4],
                [first |-> 3, decay |-> 2, spacing |-> 3, width |-> 3, core |-> 4, extension |-> 0]}

\* Pools that graduated, with their payouts; the launch is what the rows differ in last.
MCPoolRows == {[status |-> "graduated", grad |-> -4, paid |-> p, lastPayout |-> IF p = 0 THEN -1 ELSE l,
                sqrt |-> s, opening |-> -6, launch |-> l] : p \in {0, 1}, s \in {70, 60, 44}, l \in {1, 2}}
                \union {[status |-> "graduated", grad |-> 1, paid |-> 2, lastPayout |-> 3,
                         sqrt |-> 44, opening |-> -6, launch |-> 1],
                        [status |-> "bonding", grad |-> NoLevel, paid |-> 0, lastPayout |-> -1,
                         sqrt |-> 60, opening |-> -6, launch |-> 2],
                        [status |-> "graduated", grad |-> -4, paid |-> 0, lastPayout |-> -1,
                         sqrt |-> 0, opening |-> -6, launch |-> 1]}

MCStats == {[sqrt |-> -1, burned |-> 0, volume |-> 0], [sqrt |-> 0, burned |-> 0, volume |-> 0],
            [sqrt |-> 60, burned |-> 10, volume |-> 2], [sqrt |-> 40, burned |-> 0, volume |-> 1]}
MCListedPools ==
  {[status |-> IF l = 3 THEN "graduated" ELSE "bonding", creator |-> IF l = 1 THEN "a" ELSE "b",
    name |-> IF l = 2 THEN "x" ELSE "y", launch |-> l, paid |-> IF l = 3 THEN 1 ELSE 0,
    lastPayout |-> IF l = 3 THEN 5 ELSE -1, opening |-> -2, supply |-> 50, stats |-> s] :
     l \in 1..3, s \in MCStats}
NoFilter == [near |-> FALSE, paid |-> FALSE, phase |-> "", creator |-> "", q |-> ""]
MCFilters == {NoFilter, [NoFilter EXCEPT !.near = TRUE], [NoFilter EXCEPT !.paid = TRUE],
              [NoFilter EXCEPT !.phase = "bonding"], [NoFilter EXCEPT !.creator = "a", !.q = "y"]}

MCEventRows == {[pool |-> 1, eth |-> 1, isBuy |-> TRUE, trader |-> "a"],
                [pool |-> 1, eth |-> 2, isBuy |-> FALSE, trader |-> "a"],
                [pool |-> 1, eth |-> 3, isBuy |-> TRUE, trader |-> "b"],
                [pool |-> 2, eth |-> 1, isBuy |-> TRUE, trader |-> "a"]}
MCLaunchRows == {[creator |-> "a", state |-> "FAILED", created |-> 1],
                 [creator |-> "a", state |-> "CONFIRMED", created |-> 2],
                 [creator |-> "b", state |-> "FAILED", created |-> 3]}

\* Four entries: one may be suspended, one may have another role.
MCRegistry == {[i \in 0..3 |-> [suspended |-> i = s, role |-> IF i = r THEN 2 ELSE 1, take |-> takes[i]]] :
                 s \in {1, 9}, r \in {2, 9}, takes \in [0..3 -> {2, 5, 6}]}

MCVariables == [hook : {Absent, Malformed, "env"}, controller : {Absent, "env"}, poolManager : {Absent, "env"},
                stateView : {Absent, "env", Malformed}]
\* Documents that differ from a complete one in what matters.
File == [chainId |-> 1, hook |-> "file", controller |-> "file", poolManager |-> "file", stateView |-> "file",
         buybackAndBurnPlugin |-> "long", buybackPlugin |-> "short", payoutPlan |-> "plan"]
MCManifests ==
  {[File EXCEPT !.chainId = c, !.hook = h, !.buybackAndBurnPlugin = b] :
     c \in {1, 2}, h \in {"file", Absent, Malformed}, b \in {"long", Null}}
    \union {[File EXCEPT !.poolManager = p, !.stateView = v, !.buybackPlugin = b, !.payoutPlan = b] :
              p, v \in {"file", Absent, Null}, b \in {"short", Absent}}
=============================================================================
