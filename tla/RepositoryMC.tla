----------------------------- MODULE RepositoryMC -----------------------------
(***************************************************************************)
(* Repository resources in the reconcile loop, for TLC.                    *)
(***************************************************************************)
EXTENDS Managed, Repository

NoRepos == [n \in RepoNames |-> NoRepo]

(* Resources whose repository is called like themselves.                   *)
Namesakes == {s \in RepoSpecs : s.repo = ResourceName}

(* A new resource; one for which a repository of that name exists already. *)
Namesake == [spec : Namesakes, name : {Unset}, world : {NoRepos}
                \cup {[NoRepos EXCEPT ![ResourceName] = r] : r \in Repos}]

-------------------------------------------------------------------------------
(* The handlers are there "to ensure it reflects the managed resource's    *)
(* desired state" (repository/controller.go:84-85): once nobody interferes *)
(* the repository comes to have the settings of the spec.                  *)
Reflects == \/ <>[](world[obj.spec.repo] = Wanted(obj.spec))
            \/ <>(obj.deleting \/ ~obj.live)
            \/ <>[]Incomplete(obj)
===============================================================================
