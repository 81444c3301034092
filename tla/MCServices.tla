----------------------------- MODULE MCServices -----------------------------
(* Seven parts that share no state with one another: the flash store, the momentary
   machine, the webhook dispatcher, the choice of a scale, the login of the Web UI,
   the buzzer and the live stream of the Web UI.  A behaviour is one of one part,
   the others stay where they start. *)
EXTENDS MCFlashLog, MCMomentary, MCWebhook, ScaleDiscovery, WebAccess, MCBuzzer, UiStream

VARIABLE part

servicesVars ==
    <<part, vars, momentaryVars, webhookVars, discoveryVars, webAccessVars, buzzerVars, uiStreamVars>>

ServicesInit ==
    /\ part \in {"flash log", "momentary", "webhook", "discovery", "web access", "buzzer",
                "ui stream"}
    /\ Init /\ MomentaryInit /\ WebhookInit /\ DiscoveryInit /\ WebAccessInit /\ BuzzerInit
    /\ UiStreamInit
    /\ part # "momentary" => m.build = CHOOSE b \in Builds : TRUE
    /\ part # "webhook" => hook.config = CHOOSE c \in HookConfigs : TRUE
    /\ part # "discovery" => pref.mac = "none" /\ policy.mode = CHOOSE mode \in Modes : TRUE

FlashLogSteps ==
    /\ part = "flash log" /\ Next
    /\ UNCHANGED <<part, momentaryVars, webhookVars, discoveryVars, webAccessVars, buzzerVars, uiStreamVars>>
MomentarySteps ==
    /\ part = "momentary" /\ MomentaryNext
    /\ UNCHANGED <<part, vars, webhookVars, discoveryVars, webAccessVars, buzzerVars, uiStreamVars>>
WebhookSteps ==
    /\ part = "webhook" /\ WebhookNext
    /\ UNCHANGED <<part, vars, momentaryVars, discoveryVars, webAccessVars, buzzerVars, uiStreamVars>>
DiscoverySteps ==
    /\ part = "discovery" /\ DiscoveryNext
    /\ UNCHANGED <<part, vars, momentaryVars, webhookVars, webAccessVars, buzzerVars, uiStreamVars>>
WebAccessSteps ==
    /\ part = "web access" /\ WebAccessNext
    /\ UNCHANGED <<part, vars, momentaryVars, webhookVars, discoveryVars, buzzerVars, uiStreamVars>>
BuzzerSteps ==
    /\ part = "buzzer" /\ BuzzerNext
    /\ UNCHANGED <<part, vars, momentaryVars, webhookVars, discoveryVars, webAccessVars,
                            uiStreamVars>>
UiStreamSteps ==
    /\ part = "ui stream" /\ UiStreamNext
    /\ UNCHANGED <<part, vars, momentaryVars, webhookVars, discoveryVars, webAccessVars, buzzerVars>>

ServicesNext ==
    \/ FlashLogSteps \/ MomentarySteps \/ WebhookSteps \/ DiscoverySteps \/ WebAccessSteps
    \/ BuzzerSteps \/ UiStreamSteps
ServicesSpec == ServicesInit /\ [][ServicesNext]_servicesVars
=============================================================================
