----------------------------- MODULE MCStartup -----------------------------
(* TLC instance of Startup. Addresses and creds are told apart by who      *)
(* names them; the first context may be missing, the second has no creds   *)
(* and may have no URL; the second config may be the one deploy.sh writes  *)
(* with RM_CREDS alone. In the library two folders have any parents,       *)
(* circles included, one notebook is anywhere, and its record varies.      *)
EXTENDS Startup

Address(scheme, host) == [scheme |-> scheme, host |-> host]

MCLocalhost == "localhost"
MCBuiltIn == Address("nats", "localhost")
MCTyped == {Address("bare", "lan"), Address("tls", "cloud")}
MCAddresses ==
  MCTyped \cup {MCBuiltIn, Address("nats", "lan"), Address("bare", "lab"),
                Address("nats", "lab"), Address("nats", "fleet")}
MCCreds == {"cloud creds", "config creds", "env creds"}
MCContextFiles ==
  <<{NoFile, [url |-> Address("tls", "cloud"), creds |-> "cloud creds"]},
    {[url |-> Address("bare", "lab"), creds |-> NoCreds],
     [url |-> NoAddress, creds |-> NoCreds]}>>
MCConfig(server, creds, lists) ==
  [server |-> server, creds |-> creds, lists |-> lists]
MCConfigFiles ==
  [env |-> {NoFile, MCConfig(NoAddress, NoCreds, TRUE)},
   local |-> {NoFile, MCConfig(NoAddress, "config creds", FALSE),
              MCConfig(Address("nats", "fleet"), "config creds", FALSE)}]
MCBundled == MCConfig(MCBuiltIn, NoCreds, TRUE)

Record(type, parent) ==
  [type |-> type, parent |-> parent, deleted |-> "no", notebook |-> TRUE,
   pages |-> <<[named |-> TRUE, rm |-> TRUE, thumb |-> FALSE]>>, modified |-> 1]
Tree(p1, p2, doc) ==
  [f1 |-> Record("folder", p1), f2 |-> Record("folder", p2),
   d1 |-> doc, d2 |-> Record("document", "f1")]
MCUuids == {"f1", "f2", "d1", "d2"}
Places == MCUuids \cup {"root", "trash"}
Anywhere == {Tree(p1, p2, [Record("document", p) EXCEPT !.modified = 2]) :
               p1, p2, p \in Places \ {"d1"}}
PageFiles ==
  {<<>>} \cup {<<[named |-> n, rm |-> rm, thumb |-> t]>> : n, rm, t \in BOOLEAN}
Doc == Record("document", "f2")
Anything ==
  {Tree("root", "f1", doc) : doc \in
     {[Doc EXCEPT !.deleted = deleted, !.modified = modified] :
        deleted \in {"no", "true", "'true'"}, modified \in 0 .. 1}
     \cup {[Doc EXCEPT !.notebook = notebook, !.pages = pages] :
             notebook \in BOOLEAN, pages \in PageFiles}
     \cup {[Doc EXCEPT !.type = "other"]}}
MCLibraries == Anywhere \cup Anything
=============================================================================
