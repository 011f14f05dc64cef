---------------------------- MODULE MCCollection ----------------------------
(* Instances of Collection: the arguments that callers pass.               *)
EXTENDS Collection

Default == [model |-> Unset, vector_dim |-> Unset, embedder |-> Unset, bit_width |-> Unset,
            store_text |-> Unset]

\* No argument, each kind with the flags a caller may add, and a width.
MCRequests ==
  {Default, [Default EXCEPT !.store_text = FALSE], [Default EXCEPT !.bit_width = 2]}
    \cup {[Default EXCEPT !.model = m] : m \in Presets}
    \cup {[Default EXCEPT !.vector_dim = d] : d \in Dims}
    \cup {[Default EXCEPT !.embedder = e] : e \in Embedders}

=============================================================================
