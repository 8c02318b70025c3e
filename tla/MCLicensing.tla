---------------------------- MODULE MCLicensing ----------------------------
(* Instances of Licensing for TLC. *)
EXTENDS Licensing

Asks(uses, classes, commercials, territories, windows) ==
  {[use_type |-> u, model_class |-> m, commercial |-> c,
    attribution_required |-> FALSE, territory |-> t,
    valid_from |-> w[1], valid_until |-> w[2]] :
     u \in uses, m \in classes, c \in commercials, t \in territories, w \in windows}

\* Bounded and open-ended windows that start at, before or after one another.
Windows == {<<0, 1>>, <<0, NoEnd>>, <<2, 4>>, <<2, NoEnd>>}

SomePolicies ==
  {[max_use_type |-> u, allowed_model_class |-> m, commercial_allowed |-> c,
    territory_allowed |-> t, max_duration |-> d,
    attribution_always_required |-> a, prohibited_use_types |-> x] :
     u \in UseTypes, m \in {"all_models", "open_weights"}, c \in BOOLEAN,
     t \in {{"WW"}, {"US"}, {}}, d \in {1, NoEnd}, a \in BOOLEAN,
     x \in {{}, {"fine_tuning"}}}

SomeProposals ==
  Asks(UseTypes, ModelClasses, BOOLEAN,
       {{}, {"WW"}, {"US", "EU"}, {"EU"}}, Windows)

SomeRequests ==
  Asks({"training", "rag_retrieval"}, {"all_models", "open_weights"},
       BOOLEAN, {{}, {"US"}}, {<<0, 1>>, <<1, NoEnd>>})

\* One grant that is wide in some dimensions only.
Granted ==
  {Asks({"training"}, {"open_weights"}, {FALSE}, {{"US"}}, {<<0, NoEnd>>}),
   Asks({"rag_retrieval"}, {"all_models"}, {TRUE}, {{}}, {<<0, 2>>})}
=============================================================================
