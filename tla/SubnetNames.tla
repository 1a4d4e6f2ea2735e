----------------------------- MODULE SubnetNames -----------------------------
(***************************************************************************)
(* How scorer/name_resolver.py chooses among the names that several         *)
(* sources give one subnet.  Of a name it matters which others belong to    *)
(* its family, how long it is, and whether it looks cut off; weights are    *)
(* hundredths.                                                              *)
(***************************************************************************)
EXTENDS Integers, Sequences, FiniteSetsExt

CONSTANTS
  Names,   \* the names sources give
  NoName,  \* the source gives none
  Family,  \* pairs of names of which one begins the other, or that are one
  Length,  \* [Names -> Nat]
  Vague,   \* names that look truncated or are placeholders
  Unnamed  \* placeholders: "unknown", and names without a letter or a digit

ASSUME SubnetNamesAssumption ==
  /\ NoName \notin Names
  /\ Family \subseteq Names \X Names
  /\ \A a \in Names \ Unnamed : <<a, a>> \in Family
  /\ \A a, b \in Names : <<b, a>> \in Family => <<a, b>> \in Family
  /\ Length \in [Names -> Nat]
  /\ Unnamed \subseteq Names /\ Vague \subseteq Names

NameOrNone == Names \cup {NoName}

(* _SOURCE_WEIGHTS, for the sources a run has.                              *)
Weights == [cached_consensus |-> 72, seed_name |-> 42, onchain_identity |-> 82]

(* The candidate c joins the first cluster of its family, which takes the   *)
(* longer name, or makes one of its own.                                    *)
Joined(clusters, c) ==
  LET kin  == {i \in DOMAIN clusters : <<clusters[i].name, c.name>> \in Family}
      more == Weights[c.source]
  IN  IF c.name = NoName THEN clusters
      ELSE IF kin = {}
      THEN Append(clusters, [name |-> c.name, weight |-> more, sources |-> 1])
      ELSE [clusters EXCEPT ![Min(kin)] =
              [name |-> IF Length[c.name] > Length[@.name] THEN c.name ELSE @.name,
               weight |-> @.weight + more, sources |-> @.sources + 1]]

Strength(cluster) == cluster.weight + (IF cluster.sources > 1 THEN 8 ELSE 0)

(* Cluster i is sorted before cluster j; equal ones keep their order.       *)
Before(clusters, i, j) ==
  LET a == Strength(clusters[i])
      b == Strength(clusters[j])
      m == Length[clusters[i].name]
      n == Length[clusters[j].name]
  IN  a > b \/ (a = b /\ (m > n \/ (m = n /\ i < j)))

Foremost(clusters, S) ==
  clusters[CHOOSE i \in S : \A j \in S \ {i} : Before(clusters, i, j)]

(* The name of the sorted clusters: a vague one gives way to a trusted one  *)
(* that is hardly weaker, or when nothing supports it.                      *)
Elected(clusters) ==
  LET trusted == {i \in DOMAIN clusters : clusters[i].name \notin Vague}
      best    == Foremost(clusters, DOMAIN clusters)
      rival   == Foremost(clusters, trusted)
      chosen  == IF /\ trusted # {} /\ best.name \in Vague
                    /\ best.weight - rival.weight <= 18
                 THEN rival ELSE best
  IN  IF chosen.name \in Unnamed THEN NoName
      ELSE IF chosen.weight < 58 /\ trusted # {} THEN rival.name
      ELSE chosen.name

(* resolve_subnet_name: the three candidates of a run come in the order of  *)
(* the dictionary.                                                          *)
Resolve(override, candidates) ==
  LET clusters == Joined(Joined(Joined(<<>>, candidates[1]), candidates[2]), candidates[3])
  IN  IF override # NoName THEN override
      ELSE IF clusters = <<>> THEN NoName
      ELSE Elected(clusters)
=============================================================================
