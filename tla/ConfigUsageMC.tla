----------------------------- MODULE ConfigUsageMC -----------------------------
(***************************************************************************)
(* Two resources of each kind and two configs, for TLC.                    *)
(***************************************************************************)
EXTENDS ConfigUsage

Legacy(n) == [kind |-> "LegacyProviderConfig", name |-> n]
Modern(k) == [kind |-> k, name |-> "default"]

AllConfigs == {Legacy("default"), Legacy("other"), Modern("ProviderConfig"),
               Modern("ClusterProviderConfig")}

(* A kind the scheme does not know, one that is no config.  (The CRDs give *)
(* every resource a reference.)                                            *)
NoConfig == {[kind |-> k, name |-> "default"] : k \in {"Unknown", "ProviderConfigUsage"}}

Default(scope) == IF scope = "cluster" THEN Legacy("default")
                                       ELSE Modern("ClusterProviderConfig")
Other(scope) == IF scope = "cluster" THEN Legacy("other")
                                     ELSE Modern("ProviderConfig")

Begin(scope, kind, mrs, r, there) ==
  [scope |-> scope, kind |-> kind, refs |-> [m \in MRs |-> r], mrs |-> mrs,
   there |-> there]

(* A resource of any kind; one that has two configs to choose from; two    *)
(* that share a config.                                                    *)
AnyUse ==
  LET one == {CHOOSE m \in MRs : TRUE}
  IN  {Begin(sc, k, one, Default(sc), {Default(sc)}) : sc \in Scopes, k \in Kinds}
      \cup {Begin(sc, "token", one, Other(sc), RefsOf(sc) \cap Configs) : sc \in Scopes}
      \cup {Begin(sc, "token", MRs, Default(sc), {Default(sc)}) : sc \in Scopes}
===============================================================================
