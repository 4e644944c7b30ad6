----------------------------- MODULE Triangles ------------------------------
(***************************************************************************)
(* The paths and prices of services/scanner.py's TriangularScanner: from an*)
(* asset through two others and back, over the configured pairs.           *)
(***************************************************************************)
EXTENDS Calculations

CONSTANT Starts      \* the assets a path may start from

\* The adjacency of _build_paths: a pair leads from its quote to its base by
\* buying and from its base to its quote by selling.
Hops(pairs, a) ==
    {[to |-> p.base, pair |-> p, side |-> "BUY"] : p \in {p \in pairs : p.quote = a}}
      \cup {[to |-> p.quote, pair |-> p, side |-> "SELL"] : p \in {p \in pairs : p.base = a}}

\* _build_paths
PathsFrom(pairs, start) ==
    UNION {UNION {{<<h1, h2, h3>> : h3 \in {h \in Hops(pairs, h2.to) : h.to = start}}
                    : h2 \in {h \in Hops(pairs, h1.to) : h.to # start}}
             : h1 \in Hops(pairs, start)}

BuildPaths(pairs) == UNION {PathsFrom(pairs, s) : s \in Starts}

-----------------------------------------------------------------------------
OtherSide(hop, rates) ==                             \* mutant: buys at the bid
    Positive(IF hop.side = "BUY" THEN rates[hop.pair].bid ELSE rates[hop.pair].ask)

\* _get_effective_price, of the ticker [bid, ask] of a hop's pair
EffectivePrice(hop, rates) ==
    Positive(IF hop.side = "BUY" THEN rates[hop.pair].ask ELSE rates[hop.pair].bid)

Priced(path, rates) == \A i \in 1..3 : EffectivePrice(path[i], rates) > 0

\* What one unit of the first asset becomes, as a fraction.
AmountAfter(path, rates) ==
    FoldLeft(LAMBDA a, h : Through(a, [side |-> h.side, price |-> EffectivePrice(h, rates)]),
             <<1, 1>>, path)

\* The guards of TriangularScanner.scan_once; percentages are whole numbers.
WorthPublishing(path, rates, feePct, minPct) ==
    /\ Priced(path, rates)
    /\ LET a == AmountAfter(path, rates)
       IN  /\ a[1] > a[2]
           /\ (a[1] - a[2]) * 100 >= (3 * feePct + minPct) * a[2]
=============================================================================
