---------------------------- MODULE MCDatapath ----------------------------
(* Two objects, three policies that overlap, four frames; two VMs whose    *)
(* vm_num collide.                                                          *)
EXTENDS Datapath

WebToDb == [action |-> "ALLOW", from |-> {"web"}, to |-> {"db"},
            ports |-> {<<6, 1>>, <<17, 0>>}]
NoWeb == [action |-> "DENY", from |-> {"web"}, to |-> {"db"},
          ports |-> {<<6, 1>>}]
AnyToDb == [action |-> "LOG", from |-> {"web"}, to |-> {"db"}, ports |-> {}]

MCPolicies == {WebToDb, NoWeb, AnyToDb}
MCIdentities == {"web", "db", "unknown"}
MCFrames ==
  {[net |-> "ip4", src |-> "web", dst |-> "db", proto |-> 6, port |-> 1],
   [net |-> "ip6", src |-> "web", dst |-> "db", proto |-> 6, port |-> 1],
   [net |-> "other", src |-> "web", dst |-> "unknown", proto |-> 0, port |-> 0],
   [net |-> "short", src |-> "unknown", dst |-> "db", proto |-> 0, port |-> 0]}
MCDefault == [i \in MCIdentities |-> IF i = "web" THEN "ALLOW" ELSE "none"]
MCNum == [v \in Vms |-> 7]
MCUplink == [v \in Vms |-> "eth0"]
=============================================================================
