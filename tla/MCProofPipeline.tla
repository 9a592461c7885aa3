-------------------------- MODULE MCProofPipeline --------------------------
(***************************************************************************)
(* Two rooms.  The height of the second is one short of the largest word.  *)
(* The field has 13 elements, three times the points of a blob and one; a  *)
(* blob has four fields of two bits.                                       *)
(***************************************************************************)
EXTENDS ProofPipeline

MCRooms == {1, 2}
MCImage == <<"image">>
MCFirstHeights == <<0, 6>>

One == <<1>>
Nine == <<1, 0, 1, 1, 0, 1, 1, 1, 1>>

Fine == [count |-> 2, post |-> 2, sound |-> TRUE, data |-> One, size |-> 2]
Wide == [count |-> 1, post |-> 3, sound |-> TRUE, data |-> Nine, size |-> 2]
Huge == [Fine EXCEPT !.size = 3]
Unsound == [Fine EXCEPT !.sound = FALSE, !.post = 4]

Admission == [deadline |-> 2, lastBatch |-> 1, bonded |-> TRUE]
Request == [blocks |-> Fine, admissions |-> <<>>, deadline |-> 2, terminal |-> FALSE,
            close |-> FALSE]

MCRequests ==
    <<{[Request EXCEPT !.admissions = <<Admission>>],
       [Request EXCEPT !.admissions = <<Admission>>, !.deadline = 3],
       [Request EXCEPT !.blocks = Huge, !.deadline = 3],
       [Request EXCEPT !.blocks = Unsound]},
      {Request,
       [Request EXCEPT !.blocks = Wide, !.deadline = 3, !.terminal = TRUE, !.close = TRUE]}>>

\* Neither was prepared here: a batch with other data, and one whose admission ends
\* before the batch has to be included, which does not execute.
Other == [journal |-> [room |-> 1, program |-> MCImage, batch |-> 1, start |-> 1, end |-> 2,
                       pre |-> 1, post |-> 2, before |-> 0, after |-> 0,
                       admissions |-> <<>>, deadline |-> 3, close |-> FALSE,
                       data |-> <<1, 1>>],
          blocks |-> [Fine EXCEPT !.data = <<1, 1>>]]
Late == [journal |-> [Other.journal EXCEPT !.after = 1, !.admissions = <<Admission>>,
                                           !.data = One],
         blocks |-> Fine]
MCCrafted == {Other, Late}

MCColds == {[template |-> 1, root |-> 1, policyHash |-> 1, program |-> MCImage, valid |-> v] :
              v \in BOOLEAN}

MCStrays ==
    {[rep |-> "fake", program |-> MCImage,
      statement |-> HashBatchJournal(Late.journal)],
     [rep |-> "succinct", program |-> <<"other">>, statement |-> <<"other">>]}

MCModesOf == [room |-> {"succinct"}, cold |-> {"succinct"},
              blob |-> {"groth16"}, aggregate |-> {"groth16"}]

MCClosings == {2}

============================================================================
