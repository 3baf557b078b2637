----------------------------- MODULE MCSurface ------------------------------
(* The components at the edge of the service share no state, so one run    *)
(* checks them side by side: each behaviour is one of bearer tokens, of    *)
(* multipart uploads, of listings, of sealed content or of labels, as      *)
(* focus says.                                                             *)
EXTENDS TokenTrust, Multipart, Paging, Framing, Labels, TLC

CONSTANTS small, large, k1, k2

VARIABLE focus

MCSizes == small :> 1 @@ large :> 2

MCMatches == [r \in Rows |-> IF r = 3 THEN {"f"} ELSE {"f", "g"}]

(* Good tokens of both keys, one for an operation that introspects, and a  *)
(* token that does not verify.                                             *)
MCTokens ==
    {[kid |-> k1, good |-> TRUE, fresh |-> FALSE], [kid |-> k2, good |-> TRUE, fresh |-> FALSE],
     [kid |-> k1, good |-> TRUE, fresh |-> TRUE], [kid |-> k1, good |-> FALSE, fresh |-> FALSE]}

RequestSymmetry == Permutations(Requests)

allVars == <<focus, trustVars, mpVars, pageVars, frameVars, labelVars>>

(* A component that is not looked at keeps one of its initial states.      *)
At(component) == focus = component /\ UNCHANGED focus

SurfaceInit ==
    /\ focus \in {"tokens", "multipart", "paging", "framing", "labels"}
    /\ TrustInit /\ published = {k1}
    /\ MpInit /\ (focus # "multipart" => present = [u \in Uploads |-> FALSE])
    /\ PageInit
    /\ focus # "paging" => /\ place = [r \in Rows |-> NoPlace]
                           /\ walk.surface = "s3" /\ walk.filter = "f" /\ walk.after = NoPlace
    /\ FrameInit /\ (focus # "framing" => writer.size = 0 /\ writer.fb = 2)
    /\ LabelInit /\ pairs = [n \in Labelled |-> {}] /\ held = Labelled
    /\ focus # "labels" => tagRows = [n \in Labelled |-> RowsFor({})]

SurfaceNext ==
    \/ At("tokens") /\ TrustNext /\ UNCHANGED <<mpVars, pageVars, frameVars, labelVars>>
    \/ At("multipart") /\ MpNext /\ UNCHANGED <<trustVars, pageVars, frameVars, labelVars>>
    \/ At("paging") /\ PageNext /\ UNCHANGED <<trustVars, mpVars, frameVars, labelVars>>
    \/ At("framing") /\ FrameNext /\ UNCHANGED <<trustVars, mpVars, pageVars, labelVars>>
    \/ At("labels") /\ LabelNext /\ UNCHANGED <<trustVars, mpVars, pageVars, frameVars>>

SurfaceSpec == SurfaceInit /\ [][SurfaceNext]_allVars
=============================================================================
