----------------------------- MODULE LocalIndex -----------------------------
(***************************************************************************)
(* The index of one chunk: sindex::IndexBuilder (src/indexBuilder), as     *)
(* process_chunk of src/builder.cpp calls it, and the constructor of Index *)
(* (src/index), which maps the files that it wrote.                        *)
(*                                                                         *)
(* A document is a record [docno, freqs]: how long its docno is, and how   *)
(* often each of its terms occurs.  Every character of the docno of        *)
(* document i is i, and 0 ends a string.  Files are sequences: of bytes    *)
(* for docids, of bits for frequencies, of numbers for the document index. *)
(* DiskMap has how the lexicon packs what it holds for each term.          *)
(***************************************************************************)
EXTENDS VariableBytes, UnaryBits, Functions

CONSTANTS
    NTerms,   \* the terms, in the order of std::map
    Docs,     \* the documents that a chunk may have
    MaxDocs,  \* bound: documents of the chunk
    Bases     \* the docids it may start with

Terms == 1..NTerms

ASSUME LocalIndexAssumption ==
    /\ NTerms \in Nat /\ MaxDocs \in Nat \ {0} /\ Bases \subseteq Nat \ {0}
    /\ \A d \in Docs : /\ d.docno \in Nat
                       /\ DOMAIN d.freqs \subseteq Terms
                       /\ \A t \in DOMAIN d.freqs : d.freqs[t] \in Nat \ {0}

VARIABLES
    chunk,           \* the documents
    base_docid,
    inverted_index,  \* term |-> [docids, freqs, n_docs], as bytes
    document_index,  \* [docno, lenght] of each document
    lexicon_vector,  \* what write_to_disk gathers for each term, in order
    docid_teletype, freq_teletype, document_teletype,
    lexicon,         \* the disk map: term |-> the bytes of its value
    index,           \* the Index that reads the files
    at,              \* the document or the term that is next, from 1
    stage

inputVars == <<chunk, base_docid>>
builderVars == <<inverted_index, document_index>>
localVars == <<inputVars, builderVars, lexicon_vector, docid_teletype, freq_teletype,
               document_teletype, lexicon, index, at, stage>>

NoDoc == [docno |-> <<>>, lenght |-> 0]

LocalInit ==
    /\ chunk \in SeqOf(Docs, MaxDocs) \ {<<>>}
    /\ base_docid \in Bases
    /\ inverted_index = <<>>
    /\ document_index = [i \in DOMAIN chunk |-> NoDoc]
    /\ lexicon_vector = <<>>
    /\ docid_teletype = <<>> /\ freq_teletype = <<>> /\ document_teletype = <<>>
    /\ lexicon = <<>> /\ index = <<>>
    /\ at = 1 /\ stage = "add"

-----------------------------------------------------------------------------
(* process_chunk, a document a step.                                       *)

Docno(i) == [k \in 1..chunk[i].docno |-> i]

Lenght(doc) == FoldFunction(+, 0, doc.freqs)

NoPostings == [docids |-> <<>>, freqs |-> <<>>, n_docs |-> 0]

Entry(term) ==
    IF term \in DOMAIN inverted_index THEN inverted_index[term] ELSE NoPostings

\* add_to_post, for a term of a document.
WithPost(entry, docid, occurrences) ==
    [docids |-> entry.docids \o Encoded[docid],
     freqs  |-> entry.freqs \o Encoded[occurrences],
     n_docs |-> entry.n_docs + 1]

AddDocument ==
    /\ stage = "add" /\ at \in DOMAIN chunk
    /\ LET doc   == chunk[at]
           docid == base_docid + at - 1
       IN  /\ document_index' = [document_index EXCEPT
                 ![docid - base_docid + 1] = [docno |-> Docno(at), lenght |-> Lenght(doc)]]
           /\ inverted_index' =
                 [t \in DOMAIN inverted_index \cup DOMAIN doc.freqs |->
                    IF t \in DOMAIN doc.freqs THEN WithPost(Entry(t), docid, doc.freqs[t])
                    ELSE inverted_index[t]]
    /\ at' = at + 1
    /\ UNCHANGED <<inputVars, lexicon_vector, docid_teletype, freq_teletype,
                   document_teletype, lexicon, index, stage>>

-----------------------------------------------------------------------------
(* write_to_disk: three loops over the terms, in order, and the documents'  *)
(* loops.                                                                   *)

InOrder ==
    [j \in 1..Cardinality(DOMAIN inverted_index) |->
       CHOOSE t \in DOMAIN inverted_index :
         Cardinality({u \in DOMAIN inverted_index : u < t}) = j - 1]

StartLoop(next) == stage' = next /\ at' = 1

BeginWrite ==
    /\ stage = "add" /\ at \notin DOMAIN chunk
    /\ StartLoop("docids")
    /\ UNCHANGED <<inputVars, builderVars, lexicon_vector, docid_teletype,
                   freq_teletype, document_teletype, lexicon, index>>

WriteDocids ==
    /\ stage = "docids" /\ at \in DOMAIN InOrder
    /\ LET list == inverted_index[InOrder[at]]
       IN  /\ docid_teletype' = docid_teletype \o list.docids
           /\ lexicon_vector' = Append(lexicon_vector,
                 [start_pos_docid |-> Len(docid_teletype),
                  end_pos_docid   |-> Len(docid_teletype'),
                  start_pos_freq  |-> 0, end_pos_freq |-> 0,
                  n_docs          |-> list.n_docs])
    /\ at' = at + 1
    /\ UNCHANGED <<inputVars, builderVars, freq_teletype, document_teletype,
                   lexicon, index, stage>>

DocidsWritten ==
    /\ stage = "docids" /\ at \notin DOMAIN InOrder
    /\ StartLoop("freqs")
    /\ UNCHANGED <<inputVars, builderVars, lexicon_vector, docid_teletype,
                   freq_teletype, document_teletype, lexicon, index>>

\* Where the stream is, in bytes.
Tellp(bits) == Len(bits) \div ByteBits

\* lexicon_vector_iter.  Mutant: it is one behind.
EntryBefore == IF at = 1 THEN 1 ELSE at - 1
LexiconEntry == at

\* The frequencies are decoded, and encoded again in unary.
WriteFreqs ==
    /\ stage = "freqs" /\ at \in DOMAIN InOrder
    /\ LET bytes  == inverted_index[InOrder[at]].freqs
           values == Decoded(bytes, 0, Len(bytes))
       IN  /\ freq_teletype' = freq_teletype \o FileOf(values, <<>>)
           /\ lexicon_vector' = [lexicon_vector EXCEPT
                 ![LexiconEntry].start_pos_freq = Tellp(freq_teletype),
                 ![LexiconEntry].end_pos_freq = Tellp(freq_teletype')]
    /\ at' = at + 1
    /\ UNCHANGED <<inputVars, builderVars, docid_teletype, document_teletype,
                   lexicon, index, stage>>

\* What a docno takes in the strings' section.  Mutant: its end does not count.
StringSizeBare(docno) == Len(docno)
StringSize(docno) == Len(docno) + 1

\* current_string_offset, for each document.
DocnoOffsets ==
    LET offset[i \in 0..Len(document_index)] ==
          IF i = 0 THEN 0 ELSE offset[i - 1] + StringSize(document_index[i].docno)
    IN  [i \in DOMAIN document_index |-> offset[i - 1]]

\* The strings' section, up to each document.
Strings ==
    LET strings[i \in 0..Len(document_index)] ==
          IF i = 0 THEN <<>> ELSE strings[i - 1] \o Append(document_index[i].docno, 0)
    IN  strings

WriteDocumentIndex ==
    /\ stage = "freqs" /\ at \notin DOMAIN InOrder
    /\ document_teletype' =
          <<base_docid, Len(document_index)>>
          \o [i \in DOMAIN document_index |->
                [docno_offset |-> DocnoOffsets[i], lenght |-> document_index[i].lenght]]
          \o Strings[Len(document_index)]
    /\ StartLoop("lexicon")
    /\ UNCHANGED <<inputVars, builderVars, lexicon_vector, docid_teletype,
                   freq_teletype, lexicon, index>>

\* LexiconValue::serialize
Serialized(v) ==
    <<v.start_pos_docid, v.end_pos_docid, v.start_pos_freq, v.end_pos_freq, v.n_docs>>

WriteLexicon ==
    /\ stage = "lexicon" /\ at \in DOMAIN InOrder
    /\ lexicon' = [t \in DOMAIN lexicon \cup {InOrder[at]} |->
                     IF t = InOrder[at] THEN EncodedAll(Serialized(lexicon_vector[at]))
                     ELSE lexicon[t]]
    /\ at' = at + 1
    /\ UNCHANGED <<inputVars, builderVars, lexicon_vector, docid_teletype,
                   freq_teletype, document_teletype, index, stage>>

-----------------------------------------------------------------------------
(* The Index that maps the files.                                          *)

\* The constructor: document_index and base_docno are pointers into the file.
Load ==
    /\ stage = "lexicon" /\ at \notin DOMAIN InOrder
    /\ index' = [base_docid     |-> document_teletype[1],
                 length         |-> document_teletype[2],
                 document_index |-> 2,
                 base_docno     |-> 2 + document_teletype[2]]
    /\ StartLoop("loaded")
    /\ UNCHANGED <<inputVars, builderVars, lexicon_vector, docid_teletype,
                   freq_teletype, document_teletype, lexicon>>

Loaded ==
    /\ stage = "loaded"
    /\ UNCHANGED localVars

LocalNext ==
    \/ AddDocument \/ BeginWrite
    \/ WriteDocids \/ DocidsWritten \/ WriteFreqs \/ WriteDocumentIndex
    \/ WriteLexicon \/ Load \/ Loaded

LocalSpec == LocalInit /\ [][LocalNext]_localVars

\* The lexicon's value of a term, as deserialize gives it.
Deserialized(bytes) ==
    LET ser == Decoded(bytes, 0, Len(bytes))
    IN  [start_pos_docid |-> ser[1], end_pos_docid |-> ser[2],
         start_pos_freq  |-> ser[3], end_pos_freq  |-> ser[4], n_docs |-> ser[5]]

ReadDocids(v) == Decoded(docid_teletype, v.start_pos_docid, v.end_pos_docid)

\* The unary decoder, from the first bit of a list: each datum ends with a zero.
ReadFreqs(v) ==
    LET start == ByteBits * v.start_pos_freq
        zero[i \in 0..v.n_docs] ==
          IF i = 0 THEN start - 1 ELSE ZeroFrom(freq_teletype, zero[i - 1] + 1)
    IN  [i \in 1..v.n_docs |-> zero[i] - zero[i - 1]]

\* convert_results and the scorers look a document up by its docid.
DocumentInfo(docid) == document_teletype[index.document_index + docid - index.base_docid + 1]

ReadDocno(docid) ==
    LET start == index.base_docno + DocumentInfo(docid).docno_offset + 1
        end   == Min({c \in start..Len(document_teletype) : document_teletype[c] = 0})
    IN  SubSeq(document_teletype, start, end - 1)

-----------------------------------------------------------------------------
(* Properties.                                                             *)

\* The documents of the chunk with a term, in the order of their docids.
HoldingUpTo(t) ==
    LET held[i \in 0..Len(chunk)] ==
          IF i = 0 THEN <<>>
          ELSE IF t \in DOMAIN chunk[i].freqs THEN Append(held[i - 1], i) ELSE held[i - 1]
    IN  held

Holding(t) == HoldingUpTo(t)[Len(chunk)]

\* The lexicon has the terms of the chunk, and between the offsets that its
\* bytes give for one there are the docids of exactly the documents with the
\* term, increasing, as many as n_docs: docids and lexicon values of one byte or
\* of several, next to each other in one file (IndexBuilder.cpp:28-41, 100-110).
PostingsReadBack ==
    stage = "loaded" =>
       /\ DOMAIN lexicon = UNION {DOMAIN chunk[i].freqs : i \in DOMAIN chunk}
       /\ \A t \in DOMAIN lexicon :
            LET v == Deserialized(lexicon[t])
            IN  /\ ReadDocids(v) = [k \in DOMAIN Holding(t) |-> base_docid + Holding(t)[k] - 1]
                /\ v.n_docs = Len(Holding(t))

\* The frequencies between the offsets of a term are its own, in the order of
\* its docids, though they were encoded twice and written in another loop than
\* the docids (IndexBuilder.cpp:46-69): all but the last one, and the last too
\* if it ends in the byte in which it starts.  What follows it in the file is
\* then the list of the next term.
FrequenciesReadBack ==
    stage = "loaded" => \A t \in DOMAIN lexicon :
       LET v     == Deserialized(lexicon[t])
           freqs == [k \in DOMAIN Holding(t) |-> chunk[Holding(t)[k]].freqs[t]]
           lost  == Byte(StartOf(freqs, Len(freqs))) # Byte(EndOf(freqs, Len(freqs)))
       IN  /\ v.end_pos_freq - v.start_pos_freq = BytesOf(freqs)
           /\ \A k \in DOMAIN freqs :
                ~(k = Len(freqs) /\ lost) => ReadFreqs(v)[k] = freqs[k]

\* A docid of the chunk leads to the docno and to the length of its document,
\* whatever the docids start with and however long the docnos before it are
\* (IndexBuilder.cpp:74-95, Index.template.hpp:30-33, Index.hpp:97).
DocumentsReadBack ==
    stage = "loaded" =>
       /\ index.length = Len(chunk)
       /\ \A i \in DOMAIN chunk :
            LET docid == base_docid + i - 1
            IN  /\ ReadDocno(docid) = Docno(i)
                /\ DocumentInfo(docid).lenght = Lenght(chunk[i])
=============================================================================
