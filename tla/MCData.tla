-------------------------------- MODULE MCData --------------------------------
(***************************************************************************)
(* What the program computes and keeps, component by component in one      *)
(* instance: conditions and the clauses made of them, text rules, frames,  *)
(* the servers' answers, the tables from file to task, addresses, and the  *)
(* repositories.  Each behaviour is one of one of them, the others at      *)
(* rest.                                                                   *)
(***************************************************************************)
EXTENDS SqlConditions, WildcardText, FrameAssembler, FileServers, FileCatalogue, UrlResolver,
        Repositories

CONSTANTS short, long

VARIABLE part    \* the component this behaviour is about

MCPoints    == -1..5
MCFileNames == <<"a", "b">>
MCFileSizes == <<3, 4>>
MCQuestions ==
  {[path |-> "/test", request_id |-> 0, message |-> <<"hello">>],
   [path |-> "/download", request_id |-> 0, file_id |-> 1, task_id |-> 7],
   [path |-> "/download", request_id |-> 0, file_id |-> 2, task_id |-> 8]}
  \cup [path : {"/block"}, request_id : {0}, block_id : {5}, file_id : {1}, task_id : {7},
        offset : {0, 1, 3}, block_size : {1, 2, 4}]
  \cup [path : {"/block"}, request_id : {0}, block_id : {6}, file_id : {2, 3}, task_id : {8},
        offset : {0}, block_size : {2}]

\* One file is cut at the limit, one is not.
MCFiles     == {short, long}
MCTrueSizes == short :> 5 @@ long :> 9

MCPorts      == {<<>>, <<"80">>, <<"8080">>, <<"70000">>}
MCPaths      == {<<>>, <<"/">>, <<"/", "download">>, <<"/", "a", "/", "b">>}
Param(k, v)  == [key |-> k, value |-> v]
MCParamLists ==
  {<<>>, <<Param("file_id", "1")>>, <<Param("file_id", "1"), Param("x", "2")>>,
   <<Param("file_id", "1"), Param("file_id", "2")>>}
MCFragments  == {<<>>, <<"top">>}

Init ==
  /\ part \in {"conditions", "rules", "frames", "servers", "catalogue", "addresses",
              "repositories"}
  /\ RangeInit /\ WildcardInit /\ FrameInit /\ ServersInit /\ CatalogueInit /\ UrlInit
  /\ RepositoriesInit
  /\ part # "rules" => rule.included
  /\ part # "frames" => hosts.sender = Host /\ hosts.receiver = Host
  /\ part # "servers" => program = "server" /\ present = {}
  /\ part # "repositories" => repository = "task"

dataVars == <<part, rangeVars, wildcardVars, frameVars, serversVars, catalogueVars, urlVars, repositoryVars>>

Next ==
  \/ /\ part = "conditions" /\ RangeNext
     /\ UNCHANGED <<part, wildcardVars, frameVars, serversVars, catalogueVars, urlVars, repositoryVars>>
  \/ /\ part = "rules" /\ WildcardNext
     /\ UNCHANGED <<part, rangeVars, frameVars, serversVars, catalogueVars, urlVars, repositoryVars>>
  \/ /\ part = "frames" /\ FrameNext
     /\ UNCHANGED <<part, rangeVars, wildcardVars, serversVars, catalogueVars, urlVars, repositoryVars>>
  \/ /\ part = "servers" /\ ServersNext
     /\ UNCHANGED <<part, rangeVars, wildcardVars, frameVars, catalogueVars, urlVars, repositoryVars>>
  \/ /\ part = "catalogue" /\ CatalogueNext
     /\ UNCHANGED <<part, rangeVars, wildcardVars, frameVars, serversVars, urlVars, repositoryVars>>
  \/ /\ part = "addresses" /\ UrlNext
     /\ UNCHANGED <<part, rangeVars, wildcardVars, frameVars, serversVars, catalogueVars,
                    repositoryVars>>
  \/ /\ part = "repositories" /\ RepositoriesNext
     /\ UNCHANGED <<part, rangeVars, wildcardVars, frameVars, serversVars, catalogueVars, urlVars>>

Spec == Init /\ [][Next]_dataVars
=============================================================================
