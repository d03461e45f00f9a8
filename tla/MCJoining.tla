------------------------------ MODULE MCJoining ------------------------------
(* Every flow on a service and a node that are set up well, and the two flows *)
(* that can succeed with one thing set up wrong.  Two calls, installs,        *)
(* sessions or runs are lost; the lair may be, too.                           *)
EXTENDS JoiningClient

Well(flow) == [known |-> TRUE, flow |-> flow, route |-> TRUE, role |-> TRUE,
               decodes |-> TRUE, signer |-> "carried"]

MCTerms ==
    {Well(flow) : flow \in Flow}
      \cup {[Well(flow) EXCEPT ![field] = FALSE] :
              flow \in {"open", "allow_list"},
              field \in {"known", "route", "role", "decodes"}}
      \cup {[Well(flow) EXCEPT !.signer = key] :
              flow \in {"open", "allow_list"}, key \in {"wrong", "none"}}
=============================================================================
