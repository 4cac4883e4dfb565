----------------------------- MODULE MCExamples -----------------------------
(* The two example applications, of which one runs at a time: the gateway  *)
(* of MCGateway, or the thermostat with the temperatures of its source.    *)
EXTENDS MCGateway, Thermostat

VARIABLE app

appVars == <<app, gatewayVars, thermoVars>>

OfGateway(A) == app = "gateway" /\ A /\ UNCHANGED <<app, thermoVars>>

AppInit == app \in {"gateway", "thermostat"} /\ GatewayInit /\ ThermoInit

AppNext ==
    \/ OfGateway(GatewayNext)
    \/ app = "thermostat" /\ ThermoNext /\ UNCHANGED <<app, gatewayVars>>

(* The fairness of Gateway; nothing is promised of the thermostat.         *)
AppSpec ==
    /\ AppInit /\ [][AppNext]_appVars
    /\ WF_appVars(OfGateway(Second)) /\ WF_appVars(OfGateway(Poll))
    /\ WF_appVars(OfGateway(PolicyRun))
    /\ WF_appVars(OfGateway(NorthTimer \/ NorthTelemetry)) /\ WF_appVars(OfGateway(NorthAlert))
=============================================================================
