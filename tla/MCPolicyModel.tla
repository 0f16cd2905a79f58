---------------------------- MODULE MCPolicyModel ----------------------------
(***************************************************************************)
(* PolicyModel on families of cases, each of which varies what it is about *)
(* in every combination and leaves the rest at what a good model has: all  *)
(* ways to declare the shape of an input of six or so elements, all types, *)
(* outputs, constants and normalizations, and every wrong parameter.       *)
(***************************************************************************)
EXTENDS PolicyModel

MCTensor(name, shape) == [name |-> name, element |-> "float", shape |-> shape]

MCFile == [inputs |-> <<MCTensor("obs", <<1, 6>>)>>, outputs |-> <<MCTensor("actions", <<1, 2>>)>>,
           type |-> "", history |-> 0, frame |-> 0, layout |-> Absent, actions_layout |-> "actions",
           mean |-> Absent, deviation |-> Absent, obs_clip |-> Absent, action_clip |-> Absent]

MCInput(shape) == <<MCTensor("obs", shape)>>

MCUnset == <<"not_set", 0>>
MCParameters ==
    [rl_base |-> MCUnset, rl_model_path |-> <<"string", "model.onnx">>, input_name |-> MCUnset,
     output_name |-> MCUnset, model_type |-> MCUnset, sequence_length |-> MCUnset,
     feature_size |-> MCUnset, rl_obs_size |-> MCUnset, rl_action_size |-> MCUnset,
     normalization_from_metadata |-> MCUnset, obs_clip |-> MCUnset, action_clip |-> MCUnset,
     publish_status |-> MCUnset, status_rate |-> MCUnset]

Case(f, p, extra) == [file |-> f, given |-> [parameters |-> p, extra_inputs |-> extra]]
MCSize(n) == IF n = 0 THEN MCUnset ELSE <<"integer", n>>

MCLayout(v3, history, dims) == [v3 |-> v3, history |-> history, dims |-> dims]

MCLayouts ==
    {Absent, MCLayout(FALSE, 2, <<3>>), MCLayout(TRUE, 2, <<3>>), MCLayout(TRUE, 2, <<2, 1>>),
     MCLayout(TRUE, 3, <<1, 1>>), MCLayout(TRUE, 0, <<3>>), MCLayout(TRUE, 2, <<>>),
     MCLayout(TRUE, 2, <<3, 0>>)}

MCInputs == {<<>>, <<6>>, <<-1>>, <<1, 6>>, <<-1, -1>>, <<2, 6>>, <<1, 2, 3>>, <<1, 3, 2>>,
             <<-1, -1, -1>>, <<1, 2, -1>>, <<1, -1, 3>>, <<1, 1, 2, 3>>}

ShapeCases ==
    {Case([MCFile EXCEPT !.inputs = MCInput(input), !.layout = layout, !.history = h, !.frame = f],
          [MCParameters EXCEPT !.sequence_length = MCSize(s), !.feature_size = MCSize(w),
                               !.rl_obs_size = MCSize(n)], <<>>) :
        input \in MCInputs, layout \in MCLayouts, h, s \in {0, 2, 3}, f, w \in {0, 3, 2},
        n \in {0, 6, 4}}

TypeCases ==
    {Case([MCFile EXCEPT !.inputs = MCInput(input), !.type = t, !.history = history],
          [MCParameters EXCEPT !.model_type = m, !.sequence_length = MCSize(2),
                               !.feature_size = MCSize(3)], <<>>) :
        input \in {<<6>>, <<1, 6>>, <<1, 2, 3>>}, t \in Types \cup {"", "other"},
        m \in {MCUnset} \cup {<<"string", type>> : type \in Types \cup {"auto", "other"}},
        history \in {0, -1}}

\* Names and elements of the tensors, and the parameters that name them.
NameCases ==
    {Case([MCFile EXCEPT !.inputs = <<[MCTensor(name, <<1, 6>>) EXCEPT !.element = element]>>,
                         !.outputs = outputs],
          [MCParameters EXCEPT !.input_name = own, !.output_name = <<"string", "actions">>], <<>>) :
        name \in {"obs", "state"}, element \in {"float", "int64"},
        own \in {MCUnset, <<"string", "state">>, <<"integer", 1>>},
        outputs \in {<<>>, <<MCTensor("actions", <<2>>)>>, <<MCTensor("values", <<2>>)>>,
                     <<[MCTensor("actions", <<2>>) EXCEPT !.element = "double"]>>,
                     <<MCTensor("actions", <<2>>), MCTensor("values", <<1>>)>>}}

\* One parameter at a time, with a value of every type and the numbers that are none.
ParameterCases ==
    {Case(MCFile, [MCParameters EXCEPT ![name] = value], <<>>) :
        name \in DOMAIN MCParameters,
        value \in {MCUnset, <<"string", "">>, <<"string", "text">>, <<"bool", FALSE>>, <<"strings", <<>>>>,
                   <<"integer", -1>>, <<"integer", 0>>, <<"integer", 2>>, <<"double", 6>>,
                   <<"double", Infinite>>, <<"double", NaN>>}}
    \cup {Case(MCFile, [MCParameters EXCEPT ![name] = <<"double", Fraction>>], <<>>) :
            name \in SizeParameters}
    \cup {Case(MCFile, [MCParameters EXCEPT !.publish_status = <<"bool", TRUE>>, !.status_rate = rate],
               <<>>) :
            rate \in {MCUnset, <<"double", 0>>, <<"double", NaN>>, <<"string", "2">>}}

MCShapes == {<<2>>, <<1, 2>>, <<-1, 1, 2>>, <<2, 2>>, <<1, -1>>, <<>>}
MCExtra == [name : {"mask", "bias"}, element : {"float", "int64", "bool", "string"}, shape : MCShapes]
MCValues ==
    {<<kind, values>> : kind \in {"doubles", "integers"}, values \in {<<>>, <<0, 1>>, <<0, 1, 0, 1>>}}
    \cup {<<"doubles", <<0, value>>>> : value \in {Infinite, NaN, Fraction, Huge}}
    \cup {<<"bools", <<TRUE, FALSE>>>>, <<"strings", <<"0", "1">>>>}

\* One constant, before or after the observation, and none, the right one or another declared.
ConstantCases ==
    {Case([MCFile EXCEPT !.inputs = IF before THEN <<extra>> \o @ ELSE Append(@, extra)],
          MCParameters, values) :
        extra \in MCExtra, before \in BOOLEAN, values \in {<<>>} \cup [{"mask"} -> MCValues]}
    \cup {Case(MCFile, MCParameters, values) : values \in [{"mask", ""} -> {<<"bools", <<TRUE>>>>}]}

\* Two constants around the observation or on one side of it, of different elements.
OrderCases ==
    {Case([MCFile EXCEPT !.inputs = inputs],
          MCParameters, [mask |-> <<"bools", <<TRUE, FALSE>>>>, bias |-> values]) :
        inputs \in {<<a, MCTensor("obs", s), b>> : s \in {<<6>>, <<1, 6>>},
                        a \in {[name |-> "mask", element |-> "bool", shape |-> shape] : shape \in MCShapes},
                        b \in {[name |-> "bias", element |-> "int64", shape |-> shape] : shape \in MCShapes}}
                   \cup {<<a, b, MCTensor("obs", <<6>>)>> :
                        a \in {[name |-> "bias", element |-> "int64", shape |-> shape] : shape \in MCShapes},
                        b \in {[name |-> "mask", element |-> "bool", shape |-> shape] : shape \in MCShapes}},
        values \in {<<"integers", <<0, 1>>>>, <<"doubles", <<0, 1, 1, 0>>>>}}

OutputCases ==
    {Case([MCFile EXCEPT !.outputs = <<MCTensor("actions", output)>>, !.actions_layout = layout],
          [MCParameters EXCEPT !.rl_action_size = n], <<>>) :
        output \in {<<>>, <<2>>, <<-1>>, <<1, 2>>, <<-1, -1>>, <<2, 2>>, <<1, 2, 1>>, <<1, 2, -1>>},
        layout \in {"actions", Absent},
        n \in {MCUnset, <<"integer", 2>>, <<"double", 3>>, <<"double", NaN>>}}

NormalizationCases ==
    {Case([MCFile EXCEPT !.inputs = MCInput(<<1, 2>>), !.mean = mean, !.deviation = deviation,
                         !.obs_clip = clip, !.action_clip = clip],
          [MCParameters EXCEPT !.normalization_from_metadata = from, !.obs_clip = own], <<>>) :
        mean, deviation \in {Absent, <<>>, <<1>>, <<1, 2>>, <<1, 0>>, <<1, NaN>>},
        clip \in {Absent, 0, 2, Infinite},
        from \in {MCUnset, <<"bool", FALSE>>, <<"bool", TRUE>>}, own \in {MCUnset, <<"double", 0>>}}

MCFamilies == {ShapeCases, TypeCases, NameCases, ParameterCases, ConstantCases, OrderCases,
               OutputCases, NormalizationCases}
=============================================================================
