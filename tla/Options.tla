-------------------------------- MODULE Options --------------------------------
\* The absent value: None in Rust's options and in Python.  One declaration for
\* the modules that are checked together.
CONSTANT None
===============================================================================
