--------------------------- MODULE MCAnalysisCases --------------------------
(* Instances of AnalysisCases for TLC.                                     *)
EXTENDS AnalysisCases, TLC

CONSTANTS m, o

TwoDomains == (m :> "maintenance") @@ (o :> "operations")
OneDomain == (m :> "maintenance")

\* A rule over maintenance, one across maintenance and operations, and one
\* that reads whatever dataset carries its concepts.
ThreeRules == <<"REPEAT", "XDOM_A", "REVENUE_VARIANCE">>
NoRules == <<>>
RuleNeeds == ("REPEAT" :> {"maintenance"}) @@ ("XDOM_A" :> {"maintenance", "operations"})
                @@ ("REVENUE_VARIANCE" :> {})
RuleTrusts == ("REPEAT" :> {"maintenance"}) @@ ("XDOM_A" :> {"maintenance"})
                @@ ("REVENUE_VARIANCE" :> {})

\* Every stage may fail, or none.
AllFaults == [r \in Runs |-> Stages]
NoFaults == [r \in Runs |-> {}]
=============================================================================
