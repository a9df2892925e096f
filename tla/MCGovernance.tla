---------------------------- MODULE MCGovernance ----------------------------
(* Apex and Knoll under the Holloway layer: `focus` says whether packets or
   sovereign acts come and go; an override acts on both.  Beside them the front
   door and Vision's sandboxes, which share no state with them or each other. *)
EXTENDS DispatchGate, Sovereign, Gateway, Sandboxes, TLC

VARIABLE focus

Packet(src, dst, suggested, content, duty) ==
  [src |-> src, dst |-> dst, suggested |-> suggested, shape |-> "ok", content |-> content, duty |-> duty]
Altered(p) == [p EXCEPT !.shape = "altered"]
Broken(p) == [p EXCEPT !.shape = "broken"]
Intent == Packet("HOPE", "APEX", "VISION", "calm", "EXECUTION")
Asked ==
  { Intent, Altered(Intent), Broken(Intent),
    Packet("HOPE", "APEX", "DREAM", "tense", "CREATION"),
    Packet("HOPE", "APEX", "DREAM", "calm", "EXECUTION"),   \* refused only when it is forwarded
    Packet("HOPE", "VISION", "none", "calm", "EXECUTION"),
    Packet("KNOLL", "APEX", "none", "calm", "none"),
    Packet("APEX", "KNOLL", "none", "calm", "none"),        \* no handler
    Packet("DREAM", "VISION", "none", "calm", "none"), Packet("VISION", "DREAM", "none", "calm", "none"),
    Packet("VISION", "HOPE", "none", "wild", "none") }
Reports == {"calm", "wild", "malicious"}
Weights == [calm |-> 300, tense |-> 1600, wild |-> 3200, malicious |-> 300]

Req(path, tenant, key) == [path |-> path, ip |-> "i", tenant |-> tenant, key |-> key]
Requests ==
  { Req("health", "t", FALSE), Req("login", "demo", FALSE), Req("checkout", "demo", FALSE), Req("checkout", "t", FALSE),
    Req("settle", "t", FALSE), Req("intent", "demo", FALSE), Req("intent", "demo", TRUE), Req("allowance", "demo", TRUE) }
HitLimits == [ip |-> 2, auth |-> 1, tenant |-> 1]
Tiers ==
  [FREE |-> [included |-> 1, cap |-> 1, fee |-> 0, byok |-> FALSE],
   STARTER |-> [included |-> 1, cap |-> 3, fee |-> 0, byok |-> FALSE],
   BYOK |-> [included |-> 0, cap |-> Unlimited, fee |-> 1, byok |-> TRUE]]
Event(status, ephemeral) == [status |-> status, ephemeral |-> ephemeral]
Events == { <<Event("BLOCKED", FALSE)>>, <<Event("SUCCESS", FALSE)>>, <<Event("SUCCESS", TRUE), Event("SUCCESS", FALSE)>> }

Init ==
  /\ focus \in {"packets", "sovereigns", "gateway", "sandboxes"}
  /\ GateInit /\ SovereignInit /\ GatewayInit /\ SandboxInit
  /\ focus # "sovereigns" => formers = {"bob"}
MaxOverrides == 2  \* among packets
Override == (focus = "packets" => Len(happened) < MaxOverrides) /\ \E t \in Tokens, on \in BOOLEAN : applyOverride(t) /\ SetFreeze(on)
Next ==
  /\ UNCHANGED focus
  /\ \/ focus = "packets" /\ GateNext /\ UNCHANGED <<sovereignVars, gatewayVars, sandboxVars>>
     \/ focus = "sovereigns" /\ SovereignNext /\ UNCHANGED <<gateVars, gatewayVars, sandboxVars>>
     \/ focus \in {"packets", "sovereigns"} /\ Override /\ UNCHANGED <<gatewayVars, sandboxVars>>
     \/ focus = "gateway" /\ GatewayNext /\ UNCHANGED <<gateVars, sovereignVars, sandboxVars>>
     \/ focus = "sandboxes" /\ SandboxNext /\ UNCHANGED <<gateVars, sovereignVars, gatewayVars>>
Spec == Init /\ [][Next]_<<focus, gateVars, sovereignVars, gatewayVars, sandboxVars>>

(* No step undoes what is meant to last: the cause of a freeze that goes on, a
   countermand, a session that has stopped. *)
NeverUndone == [][FirstCauseStays /\ CountermandIsFinal /\ StoppedIsFinal]_<<gateVars, sovereignVars, sandboxVars>>
=============================================================================
